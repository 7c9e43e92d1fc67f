------------------------------ MODULE ClientProofs ------------------------------
(***************************************************************************)
(* Proofs about the session of a tab, the panes in which a row is worked   *)
(* on, the statement of a lease and the rent schedules, as parts of        *)
(* Client, for any users, calls, log-outs, rows, requests, texts, pages,   *)
(* leases and terms.                                                       *)
(*                                                                         *)
(* The session: WaitersAreServed is inductive with the types.  OwnData     *)
(* needs that the answers still to be heard are about the user shown, too, *)
(* and that there are none when nobody is shown (Kept).  LogoutRevokes     *)
(* needs that no cookie, wherever it is, holds a version of the future     *)
(* (NotAhead): a log-out then leaves the cookies of the user behind for    *)
(* good.                                                                   *)
(*                                                                         *)
(* The panes: what a pane says of its row comes from the request it        *)
(* heeds, so NothingLeftOver needs that a pane made anew heeds no request  *)
(* of another row, shut or not (AboutItsRow), and that every request       *)
(* carries a text typed for the row it goes to (Sensible).  LateAnswers-   *)
(* Pass needs that a thread shows the text it sends until it has the       *)
(* answer (Locked).                                                        *)
(*                                                                         *)
(* The statement: IssuedStays needs that the sums, once read, are those of *)
(* the entries of now unless something was written in the period or before *)
(* it (FiguresHold), and that an entry is that of a row (RowsExist).       *)
(* ReportAddsUp needs the same of each figure read while others are still  *)
(* to be (AsRead), that the ledger adds up to its charges and payments     *)
(* (BooksAgree), and what finite sums of integers are.                     *)
(*                                                                         *)
(* The rent schedules: SaidIsDone needs that at every step before the page *)
(* says so, what is due in the term is there, planned or asked for         *)
(* (Promises); OneRentPerMonth, that the months of the rents there, asked  *)
(* for and planned are all different (Apart); SweptClean, that what is     *)
(* open on a lease that is swept has a void on its way (Sweeping).  The    *)
(* last two rest on one page being at work on a lease at a time (Alone).   *)
(***************************************************************************)
EXTENDS Client, FiniteSetTheorems, WellFoundedInduction, TLAPS

(* Calls whose answers will be kept are made for somebody.                 *)
HeardNamesAUser == \A k \in Calls : call[k].heard => call[k].as # None

Typed == SessionTypeOK /\ HeardNamesAUser

(* What the cache holds, or will once an answer is heard, is about the     *)
(* user shown.                                                             *)
Kept ==
  ~slipped =>
    /\ cached \subseteq {shown}
    /\ \A k \in Calls : call[k].heard => call[k].as = shown /\ shown # None

(* Every cookie there is, on whatever way it is.                           *)
Around == ({cookie, entry} \cup opened \cup {renewal[r] : r \in Reasons}) \cap Cookies

(* None of them has a version its user has not reached.                    *)
NotAhead == \A c \in Around : c.version <= version[c.user]

-----------------------------------------------------------------------------
(* What the operators give.                                                *)

LEMMA CurrentType ==
  ASSUME SessionTypeOK, NEW u \in Users
  PROVE  Current(u) \in Cookies /\ Current(u).user = u /\ Current(u).version = version[u]
  BY DEF SessionTypeOK, Current, Cookies

LEMMA CookieFacts ==
  ASSUME SessionTypeOK, NEW c \in Cookies
  PROVE  /\ c # None /\ c # Refused
         /\ c.user \in Users /\ c.version \in Int
         /\ version[c.user] \in Int
         /\ c.user # None
  BY NoneIsNobody, SessionBounds DEF SessionTypeOK, Cookies, Versions

LEMMA ServedType ==
  ASSUME SessionTypeOK, NEW c \in Cookies \cup {None}, NEW a \in Served(c)
  PROVE  a = Refused \/ (c \in Cookies /\ Valid(c) /\ a = c)
<1>1. CASE c = None
  BY <1>1 DEF Served, Valid
<1>2. CASE c \in Cookies
  <2>1. a = Refused \/ (Valid(c) /\ a = Current(c.user))
    BY DEF Served
  <2>2. Valid(c) => Current(c.user) = c
    BY <1>2 DEF Valid, Current, Cookies
  <2> QED  BY <1>2, <2>1, <2>2
<1> QED  BY <1>1, <1>2

LEMMA RenewalFacts ==
  ASSUME SessionTypeOK, NEW r \in Reasons
  PROVE  /\ renewal[r] \in Cookies \cup {None, Refused}
         /\ Granted(r) => renewal[r] \in Cookies
         /\ Granted(r) => renewal[r].user \in Users /\ renewal[r].user # None
         /\ None # Refused /\ "timer" \in Reasons /\ "call" \in Reasons
  BY NoneIsNobody, CookieFacts DEF SessionTypeOK, Granted, Reasons

LEMMA CallFacts ==
  ASSUME SessionTypeOK, NEW k \in Calls
  PROVE  /\ call[k] \in CallState
         /\ call[k].as \in Users \cup {None}
         /\ call[k].step \in {"none", "sent", "waiting"}
         /\ call[k].heard \in BOOLEAN /\ call[k].again \in BOOLEAN
         /\ Quiet \in CallState /\ Quiet.heard = FALSE /\ Quiet.step = "none"
  BY DEF SessionTypeOK, CallState, Quiet

(* Asking for a renewal.                                                   *)
LEMMA AskFacts ==
  ASSUME SessionTypeOK, NEW r \in Reasons, Ask(r)
  PROVE  /\ renewal' \in [Reasons -> Cookies \cup {None, Refused}]
         /\ renewal'[r] # None
         /\ renewal'[r] \in Cookies => renewal'[r] = cookie /\ Valid(cookie)
         /\ \A s \in Reasons \ {r} : renewal'[s] = renewal[s]
<1>1. PICK a \in Served(cookie) : renewal' = [renewal EXCEPT ![r] = a]
  BY DEF Ask
<1>2. cookie \in Cookies \cup {None}
  BY DEF SessionTypeOK
<1>3. a = Refused \/ (cookie \in Cookies /\ Valid(cookie) /\ a = cookie)
  BY <1>2, ServedType
<1>4. renewal \in [Reasons -> Cookies \cup {None, Refused}]
  BY DEF SessionTypeOK
<1>5. Refused # None /\ Refused \notin Cookies /\ None \notin Cookies
  BY NoneIsNobody DEF Cookies, Versions
<1> QED  BY <1>1, <1>3, <1>4, <1>5

(* A page that loads.                                                      *)
LEMMA FreshFacts ==
  ASSUME SessionTypeOK, Fresh
  PROVE  /\ renewal' \in [Reasons -> Cookies \cup {None, Refused}]
         /\ renewal'["call"] = None
         /\ renewal'["timer"] \in Cookies => renewal'["timer"] = cookie /\ Valid(cookie)
         /\ call' \in [Calls -> CallState]
         /\ \A k \in Calls : call'[k] = Quiet
<1>1. PICK a \in Served(cookie) : renewal' = [timer |-> a, call |-> None]
  BY DEF Fresh
<1>2. cookie \in Cookies \cup {None}
  BY DEF SessionTypeOK
<1>3. a = Refused \/ (cookie \in Cookies /\ Valid(cookie) /\ a = cookie)
  BY <1>2, ServedType
<1>4. Refused \notin Cookies
  BY NoneIsNobody DEF Cookies, Versions
<1>5. call' = [k \in Calls |-> Quiet] /\ Quiet \in CallState
  BY DEF Fresh, CallState, Quiet
<1>6. renewal'["timer"] = a /\ renewal'["call"] = None
  BY <1>1
<1>7. renewal' \in [Reasons -> Cookies \cup {None, Refused}]
  BY <1>1, <1>3 DEF Reasons
<1> QED  BY <1>3, <1>4, <1>5, <1>6, <1>7

-----------------------------------------------------------------------------
(* Types.                                                                  *)

LEMMA SendStep ==
  ASSUME SessionTypeOK, NEW k \in Calls, NEW s \in {"none", "sent", "waiting"},
         NEW a \in Users \cup {None}, NEW g \in BOOLEAN, NEW h \in BOOLEAN
  PROVE  [call EXCEPT ![k] = [step |-> s, as |-> a, again |-> g, heard |-> h]] \in [Calls -> CallState]
  BY DEF SessionTypeOK, CallState

LEMMA CallsType ==
  ASSUME Typed, Send \/ Answered \/ Unauthorized
  PROVE  Typed'
<1> USE DEF Typed
<1>1. CASE Send
  <2>1. PICK k \in Calls, a \in Users \cup {None}, h \in BOOLEAN :
          /\ call' = [call EXCEPT ![k] = [step |-> "sent", as |-> a, again |-> FALSE, heard |-> h]]
          /\ h => a # None
    BY <1>1 DEF Send, SessionTypeOK
  <2>2. call' \in [Calls -> CallState]
    BY <2>1, SendStep
  <2>3. HeardNamesAUser'
    BY <2>1 DEF HeardNamesAUser, SessionTypeOK
  <2> QED  BY <1>1, <2>2, <2>3 DEF Send, SessionTypeOK
<1>2. CASE Answered
  <2>1. PICK k \in Calls : /\ call' = [call EXCEPT ![k] = Quiet]
                           /\ \/ UNCHANGED cached
                              \/ call[k].heard /\ cached' = cached \cup {call[k].as}
    BY <1>2 DEF Answered
  <2>2. call' \in [Calls -> CallState]
    BY <2>1, CallFacts DEF SessionTypeOK
  <2>3. cached' \subseteq Users
    BY <2>1, CallFacts DEF HeardNamesAUser, SessionTypeOK
  <2>4. HeardNamesAUser'
    BY <2>1, CallFacts DEF HeardNamesAUser, SessionTypeOK
  <2> QED  BY <1>2, <2>2, <2>3, <2>4 DEF Answered, SessionTypeOK
<1>3. CASE Unauthorized
  <2>1. PICK k \in Calls :
          /\ call' \in {[call EXCEPT ![k].step = "waiting"], [call EXCEPT ![k] = Quiet]}
          /\ leader' \in {leader, k}
          /\ renewal' = renewal \/ Ask("call")
    BY <1>3 DEF Unauthorized
  <2>2. call[k] \in CallState
    BY CallFacts
  <2>3. [call EXCEPT ![k].step = "waiting"] \in [Calls -> CallState]
    BY <2>2 DEF CallState, SessionTypeOK
  <2>4. renewal' \in [Reasons -> Cookies \cup {None, Refused}]
    BY <2>1, AskFacts DEF Reasons, SessionTypeOK
  <2>5. call' \in [Calls -> CallState]
    BY <2>1, <2>3, CallFacts DEF SessionTypeOK
  <2>6. HeardNamesAUser'
    <3> SUFFICES ASSUME NEW j \in Calls, call'[j].heard  PROVE call'[j].as # None
      BY DEF HeardNamesAUser
    <3>1. call[j] \in CallState /\ Quiet.heard = FALSE
      BY CallFacts
    <3>2. call'[j] \in {call[j], [call[j] EXCEPT !.step = "waiting"], Quiet}
      BY <2>1 DEF SessionTypeOK
    <3>3. call[j].heard /\ call'[j].as = call[j].as
      BY <3>1, <3>2 DEF CallState
    <3> QED  BY <3>3 DEF HeardNamesAUser
  <2> QED  BY <1>3, <2>1, <2>4, <2>5, <2>6 DEF Unauthorized, SessionTypeOK
<1> QED  BY <1>1, <1>2, <1>3

LEMMA RenewalsType ==
  ASSUME Typed, TimerFires \/ Boot \/ RenewedForCall \/ RenewalFails \/ Reload
  PROVE  Typed'
<1> USE DEF Typed
<1>1. CASE TimerFires
  <2>1. renewal' \in [Reasons -> Cookies \cup {None, Refused}]
    BY <1>1, AskFacts DEF TimerFires, Reasons
  <2> QED  BY <1>1, <2>1 DEF TimerFires, SessionTypeOK, HeardNamesAUser
<1>2. CASE Boot
  <2>1. cookie' \in Cookies \cup {None} /\ shown' \in Users \cup {None} /\ slipped' \in BOOLEAN
    BY <1>2, RenewalFacts DEF Boot, TakeOver, SessionTypeOK, Reasons
  <2>2. renewal' \in [Reasons -> Cookies \cup {None, Refused}]
    BY <1>2 DEF Boot, SessionTypeOK
  <2> QED  BY <1>2, <2>1, <2>2 DEF Boot, SessionTypeOK, HeardNamesAUser
<1>3. CASE RenewedForCall
  <2> DEFINE u == renewal["call"].user
  <2>1. u \in Users /\ u # None /\ renewal["call"] \in Cookies
    BY <1>3, RenewalFacts DEF RenewedForCall, Reasons
  <2>2. call' = Resent(u)
    BY <1>3 DEF RenewedForCall
  <2>3. ASSUME NEW k \in Calls
        PROVE  /\ [call[k] EXCEPT !.step = "sent", !.as = As(call[k], u), !.again = (k = leader)] \in CallState
               /\ As(call[k], u) = None <=> call[k].as = None
    <3>1. call[k] \in CallState /\ As(call[k], u) \in Users \cup {None}
      BY <2>1, CallFacts DEF As
    <3> QED  BY <3>1, <2>1 DEF CallState, As
  <2>4. call' \in [Calls -> CallState]
    BY <2>2, <2>3, CallFacts DEF Resent
  <2>5. HeardNamesAUser'
    <3> SUFFICES ASSUME NEW k \in Calls, call'[k].heard  PROVE call'[k].as # None
      BY DEF HeardNamesAUser
    <3>1. call[k] \in CallState
      BY CallFacts
    <3>2. call'[k] = IF call[k].step # "waiting" THEN call[k]
                     ELSE [call[k] EXCEPT !.step = "sent", !.as = As(call[k], u), !.again = (k = leader)]
      BY <2>2 DEF Resent
    <3>3. call[k].heard
      BY <3>1, <3>2 DEF CallState
    <3>4. call[k].as # None /\ As(call[k], u) # None
      BY <3>3, <2>3 DEF HeardNamesAUser
    <3>5. call'[k].as \in {call[k].as, As(call[k], u)}
      BY <3>1, <3>2 DEF CallState
    <3> QED  BY <3>4, <3>5
  <2> HIDE DEF u
  <2>6. renewal' \in [Reasons -> Cookies \cup {None, Refused}]
    BY <1>3 DEF RenewedForCall, SessionTypeOK
  <2>7. cookie' \in Cookies /\ shown' \in Users /\ slipped' \in BOOLEAN
    BY <1>3, <2>1 DEF RenewedForCall, TakeOver, SessionTypeOK, u
  <2> QED  BY <1>3, <2>4, <2>5, <2>6, <2>7 DEF RenewedForCall, SessionTypeOK
<1>4. CASE Fresh
  BY <1>4, FreshFacts, CallFacts DEF Fresh, SessionTypeOK, HeardNamesAUser
<1> QED  BY <1>1, <1>2, <1>3, <1>4 DEF RenewalFails, Reload

LEMMA UsersType ==
  ASSUME Typed, LogIn \/ Entered \/ LogOut \/ LoggedOut \/ OtherTab
  PROVE  Typed'
<1> USE DEF Typed
<1>1. CASE LogIn
  BY <1>1, CurrentType DEF LogIn, Opens, SessionTypeOK, HeardNamesAUser
<1>2. CASE Entered
  <2>1. entry \in Cookies /\ entry.user \in Users
    BY <1>2, CookieFacts DEF Entered, SessionTypeOK
  <2>2. cookie' \in Cookies \cup {None} /\ shown' \in Users \cup {None} /\ slipped' \in BOOLEAN
    BY <1>2, <2>1 DEF Entered, SessionTypeOK
  <2> QED  BY <1>2, <2>2 DEF Entered, SessionTypeOK, HeardNamesAUser
<1>3. CASE LogOut
  <2>1. version' \in [Users -> Versions]
    BY <1>3, CookieFacts, SessionBounds DEF LogOut, SessionTypeOK, Versions
  <2> QED  BY <1>3, <2>1 DEF LogOut, SessionTypeOK, HeardNamesAUser
<1>4. CASE LoggedOut
  <2>1. ASSUME NEW k \in Calls
        PROVE  /\ [call[k] EXCEPT !.heard = FALSE] \in CallState
               /\ [call[k] EXCEPT !.heard = FALSE].heard = FALSE
    BY CallFacts DEF CallState
  <2>2. call' = [k \in Calls |-> [call[k] EXCEPT !.heard = FALSE]]
    BY <1>4 DEF LoggedOut
  <2>3. call' \in [Calls -> CallState] /\ HeardNamesAUser'
    BY <2>1, <2>2 DEF HeardNamesAUser
  <2> QED  BY <1>4, <2>3 DEF LoggedOut, SessionTypeOK
<1>5. CASE OtherTab
  <2>1. cookie' \in Cookies \cup {None} /\ opened' \subseteq Cookies
    BY <1>5, CurrentType DEF OtherTab, Opens, SessionTypeOK
  <2>2. version' \in [Users -> Versions]
    BY <1>5, CookieFacts, SessionBounds DEF OtherTab, SessionTypeOK, Versions
  <2> QED  BY <1>5, <2>1, <2>2 DEF OtherTab, tabVars, SessionTypeOK, HeardNamesAUser
<1> QED  BY <1>1, <1>2, <1>3, <1>4, <1>5

LEMMA StepType ==
  ASSUME Typed, [SessionNext]_sessionVars
  PROVE  Typed'
<1>1. CASE UNCHANGED sessionVars
  BY <1>1 DEF sessionVars, tabVars, Typed, SessionTypeOK, HeardNamesAUser
<1> QED  BY <1>1, CallsType, RenewalsType, UsersType DEF SessionNext

-----------------------------------------------------------------------------
(* Waiting calls.                                                          *)

LEMMA WaitersStep ==
  ASSUME Typed, WaitersAreServed, [SessionNext]_sessionVars
  PROVE  WaitersAreServed'
<1> USE DEF Typed
<1>1. CASE Send
  <2>1. PICK k \in Calls, a \in Users \cup {None}, h \in BOOLEAN :
          /\ call[k] = Quiet
          /\ call' = [call EXCEPT ![k] = [step |-> "sent", as |-> a, again |-> FALSE, heard |-> h]]
    BY <1>1 DEF Send, SessionTypeOK
  <2>2. call'[k].step = "sent" /\ call[k].step = "none" /\ \A j \in Calls \ {k} : call'[j] = call[j]
    BY <2>1, CallFacts DEF SessionTypeOK
  <2> QED  BY <1>1, <2>2 DEF Send, WaitersAreServed, SessionTypeOK
<1>2. CASE Answered
  <2>1. PICK k \in Calls : call[k].step = "sent" /\ call' = [call EXCEPT ![k] = Quiet]
    BY <1>2 DEF Answered
  <2>2. call'[k].step = "none" /\ \A j \in Calls \ {k} : call'[j] = call[j]
    BY <2>1, CallFacts DEF SessionTypeOK
  <2> QED  BY <1>2, <2>1, <2>2 DEF Answered, WaitersAreServed, SessionTypeOK
<1>3. CASE Unauthorized
  <2>1. PICK k \in Calls :
          /\ call[k].step = "sent"
          /\ \/ call' = [call EXCEPT ![k] = Quiet] /\ UNCHANGED <<leader, renewal>>
             \/ /\ call' = [call EXCEPT ![k].step = "waiting"]
                /\ \/ leader # None /\ UNCHANGED <<leader, renewal>>
                   \/ leader = None /\ leader' = k /\ Ask("call")
    BY <1>3 DEF Unauthorized
  <2>2. \A j \in Calls \ {k} : call'[j] = call[j]
    BY <2>1 DEF SessionTypeOK
  <2>3. CASE call' = [call EXCEPT ![k] = Quiet] /\ UNCHANGED <<leader, renewal>>
    <3>1. call'[k].step = "none"
      BY <2>3, CallFacts DEF SessionTypeOK
    <3> QED  BY <2>1, <2>2, <2>3, <3>1 DEF WaitersAreServed, SessionTypeOK
  <2>4. ASSUME call' = [call EXCEPT ![k].step = "waiting"]  PROVE call'[k].step = "waiting"
    BY <2>4, CallFacts DEF SessionTypeOK, CallState
  <2>5. CASE /\ call' = [call EXCEPT ![k].step = "waiting"]
             /\ leader # None /\ UNCHANGED <<leader, renewal>>
    BY <2>2, <2>4, <2>5 DEF WaitersAreServed, SessionTypeOK
  <2>6. CASE /\ call' = [call EXCEPT ![k].step = "waiting"]
             /\ leader = None /\ leader' = k /\ Ask("call")
    <3>1. renewal'["call"] # None /\ k # None
      BY <2>6, AskFacts, NoneIsNobody DEF Reasons
    <3> QED  BY <2>4, <2>6, <3>1 DEF WaitersAreServed
  <2> QED  BY <2>1, <2>3, <2>5, <2>6
<1>4. CASE TimerFires
  <2>1. renewal'["call"] = renewal["call"]
    BY <1>4, AskFacts DEF TimerFires, Reasons
  <2> QED  BY <1>4, <2>1 DEF TimerFires, WaitersAreServed
<1>5. CASE Boot
  <2>1. renewal'["call"] = renewal["call"]
    BY <1>5 DEF Boot, SessionTypeOK, Reasons
  <2> QED  BY <1>5, <2>1 DEF Boot, WaitersAreServed
<1>6. CASE RenewedForCall
  <2>1. renewal'["call"] = None /\ leader' = None
    BY <1>6 DEF RenewedForCall, SessionTypeOK, Reasons
  <2>2. ASSUME NEW k \in Calls  PROVE call'[k].step # "waiting"
    <3>1. call[k] \in CallState
      BY CallFacts
    <3> QED  BY <1>6, <3>1 DEF RenewedForCall, Resent, CallState
  <2> QED  BY <2>1, <2>2 DEF WaitersAreServed
<1>7. CASE Fresh
  <2>1. renewal'["call"] = None /\ leader' = None /\ \A k \in Calls : call'[k].step = "none"
    BY <1>7, FreshFacts, CallFacts DEF Fresh
  <2> QED  BY <2>1 DEF WaitersAreServed
<1>8. CASE LoggedOut
  <2>1. ASSUME NEW k \in Calls  PROVE call'[k].step = call[k].step
    <3>1. call[k] \in CallState
      BY CallFacts
    <3> QED  BY <1>8, <3>1 DEF LoggedOut, CallState
  <2> QED  BY <1>8, <2>1 DEF LoggedOut, WaitersAreServed, SessionTypeOK
<1>9. CASE LogIn \/ Entered \/ LogOut \/ OtherTab \/ UNCHANGED sessionVars
  BY <1>9 DEF LogIn, Entered, LogOut, OtherTab, sessionVars, tabVars, WaitersAreServed
<1> QED  BY <1>1, <1>2, <1>3, <1>4, <1>5, <1>6, <1>7, <1>8, <1>9
         DEF SessionNext, RenewalFails, Reload

-----------------------------------------------------------------------------
(* What the tab keeps.                                                     *)

(* A tab without a user keeps nothing.                                     *)
LEMMA NobodysIsNothing ==
  ASSUME Typed, Kept, ~slipped, shown = None
  PROVE  cached = {} /\ \A k \in Calls : ~call[k].heard
  BY NoneIsNobody DEF Typed, SessionTypeOK, Kept

(* A user who takes over from nobody, or from himself.                     *)
LEMMA TakeOverKeeps ==
  ASSUME Typed, Kept, ~slipped, NEW u \in Users, shown \in {None, u}
  PROVE  cached \subseteq {u} /\ \A k \in Calls : call[k].heard => call[k].as = u
  BY NobodysIsNothing DEF Kept

LEMMA KeptStep ==
  ASSUME Typed, Kept, [SessionNext]_sessionVars
  PROVE  Kept'
<1> USE DEF Typed
<1>1. CASE Send
  <2>1. PICK k \in Calls, a \in Users \cup {None}, h \in BOOLEAN :
          /\ call' = [call EXCEPT ![k] = [step |-> "sent", as |-> a, again |-> FALSE, heard |-> h]]
          /\ h => a = shown /\ shown # None
    BY <1>1 DEF Send, SessionTypeOK
  <2>2. call'[k].heard => call'[k].as = shown /\ shown # None
    BY <2>1 DEF SessionTypeOK
  <2>3. \A j \in Calls \ {k} : call'[j] = call[j]
    BY <2>1 DEF SessionTypeOK
  <2> QED  BY <1>1, <2>2, <2>3 DEF Send, Kept
<1>2. CASE Answered
  <2>1. PICK k \in Calls : /\ call' = [call EXCEPT ![k] = Quiet]
                           /\ \/ UNCHANGED cached
                              \/ call[k].heard /\ cached' = cached \cup {call[k].as}
    BY <1>2 DEF Answered
  <2>2. ~call'[k].heard /\ \A j \in Calls \ {k} : call'[j] = call[j]
    BY <2>1, CallFacts DEF SessionTypeOK
  <2> QED  BY <1>2, <2>1, <2>2 DEF Answered, Kept
<1>3. CASE Unauthorized
  <2>1. PICK k \in Calls : call' \in {[call EXCEPT ![k].step = "waiting"], [call EXCEPT ![k] = Quiet]}
    BY <1>3 DEF Unauthorized
  <2>2. ASSUME NEW j \in Calls, call'[j].heard  PROVE call[j].heard /\ call'[j].as = call[j].as
    <3>1. call[j] \in CallState /\ Quiet.heard = FALSE
      BY CallFacts
    <3>2. call'[j] \in {call[j], [call[j] EXCEPT !.step = "waiting"], Quiet}
      BY <2>1 DEF SessionTypeOK
    <3> QED  BY <2>2, <3>1, <3>2 DEF CallState
  <2> QED  BY <1>3, <2>2 DEF Unauthorized, Kept
<1>4. CASE Boot
  <2>1. CASE Granted("timer") /\ TakeOver(renewal["timer"])
    <3>1. renewal["timer"].user \in Users /\ renewal["timer"].user # None
      BY <2>1, RenewalFacts DEF Reasons
    <3> QED  BY <1>4, <2>1, <3>1, TakeOverKeeps DEF Boot, TakeOver, Kept
  <2>2. CASE shown' = None /\ slipped' = (slipped \/ cached # {} \/ \E k \in Calls : call[k].heard)
    BY <1>4, <2>2 DEF Boot, Kept
  <2> QED  BY <1>4, <2>1, <2>2 DEF Boot
<1>5. CASE RenewedForCall
  <2> DEFINE u == renewal["call"].user
  <2>1. u \in Users /\ u # None
    BY <1>5, RenewalFacts DEF RenewedForCall, Reasons
  <2>2. call' = Resent(u) /\ cached' = cached /\ shown' = u /\ slipped' = (slipped \/ shown \notin {None, u})
    BY <1>5 DEF RenewedForCall, TakeOver
  <2> HIDE DEF u
  <2> SUFFICES ASSUME ~slipped'  PROVE /\ cached \subseteq {u}
                                       /\ \A k \in Calls : call'[k].heard => call'[k].as = u
    BY <2>1, <2>2 DEF Kept
  <2>3. cached \subseteq {u} /\ \A k \in Calls : call[k].heard => call[k].as = u
    BY <2>1, <2>2, TakeOverKeeps
  <2>4. ASSUME NEW k \in Calls, call'[k].heard  PROVE call'[k].as = u
    <3>1. call[k] \in CallState
      BY CallFacts
    <3>2. call'[k] = IF call[k].step # "waiting" THEN call[k]
                     ELSE [call[k] EXCEPT !.step = "sent", !.as = As(call[k], u), !.again = (k = leader)]
      BY <2>2 DEF Resent
    <3>3. call[k].heard /\ call'[k].as \in {call[k].as, As(call[k], u)}
      BY <2>4, <3>1, <3>2 DEF CallState
    <3> QED  BY <2>1, <2>3, <3>3 DEF As
  <2> QED  BY <2>3, <2>4
<1>6. CASE Fresh
  BY <1>6, FreshFacts, CallFacts DEF Fresh, Kept
<1>7. CASE Entered
  <2>1. CASE UNCHANGED <<cookie, shown, slipped>>
    BY <1>7, <2>1 DEF Entered, Kept
  <2>2. CASE shown' = entry.user /\ slipped' = (slipped \/ shown \notin {None, entry.user})
    <3>1. entry.user \in Users /\ entry.user # None
      BY <1>7, CookieFacts DEF Entered, SessionTypeOK
    <3> QED  BY <1>7, <2>2, <3>1, TakeOverKeeps DEF Entered, Kept
  <2> QED  BY <1>7, <2>1, <2>2 DEF Entered
<1>8. CASE LoggedOut
  <2>1. ASSUME NEW k \in Calls  PROVE ~call'[k].heard
    <3>1. call[k] \in CallState
      BY CallFacts
    <3> QED  BY <1>8, <3>1 DEF LoggedOut, CallState
  <2> QED  BY <1>8, <2>1 DEF LoggedOut, Kept
<1>9. CASE TimerFires \/ LogIn \/ LogOut \/ OtherTab \/ UNCHANGED sessionVars
  BY <1>9 DEF TimerFires, LogIn, LogOut, OtherTab, sessionVars, tabVars, Kept
<1> QED  BY <1>1, <1>2, <1>3, <1>4, <1>5, <1>6, <1>7, <1>8, <1>9
         DEF SessionNext, RenewalFails, Reload

-----------------------------------------------------------------------------
(* Cookies.                                                                *)

Revokes == \A c \in Around : Valid(c) => c \in opened

LEMMA RevokesMeans ==
  ASSUME Typed
  PROVE  Revokes <=> LogoutRevokes
<1>1. opened \subseteq Cookies /\ cookie \in Cookies \cup {None} /\ entry \in Cookies \cup {None}
  BY DEF Typed, SessionTypeOK
<1>2. \A r \in Reasons : Granted(r) <=> renewal[r] \in Cookies
  BY RenewalFacts, CookieFacts DEF Typed, Granted
<1>3. \A r \in Reasons : renewal[r] \in Cookies \cup {None, Refused}
  BY DEF Typed, SessionTypeOK
<1> QED  BY <1>1, <1>2, <1>3, CookieFacts DEF Typed, Revokes, LogoutRevokes, Around, Valid

(* A step that brings no cookie but one of a log-in, and lowers no version.*)
LEMMA NothingComesBack ==
  ASSUME Typed, Typed', NotAhead, Revokes,
         opened \subseteq opened',
         \A u \in Users : version[u] <= version'[u],
         \A c \in Cookies : c \in Around' => c \in Around \/ (c \in opened' /\ c.version <= version[c.user])
  PROVE  NotAhead' /\ Revokes'
<1> SUFFICES ASSUME NEW c \in Cookies, c \in Around'
             PROVE  /\ c.version <= version'[c.user]
                    /\ c.version = version'[c.user] => c \in opened'
  BY DEF NotAhead, Revokes, Around, Valid
<1>1. c.user \in Users /\ c.version \in Int /\ version[c.user] \in Int /\ version'[c.user] \in Int /\ c # None
  BY CookieFacts, SessionBounds DEF Typed, SessionTypeOK, Versions
<1>2. version[c.user] <= version'[c.user]
  BY <1>1
<1>3. CASE c \in Around
  <2>1. c.version <= version[c.user] /\ (c.version = version[c.user] => c \in opened)
    BY <1>1, <1>3 DEF NotAhead, Revokes, Valid
  <2> QED  BY <1>1, <1>2, <2>1
<1>4. CASE c \in opened' /\ c.version <= version[c.user]
  BY <1>1, <1>2, <1>4
<1> QED  BY <1>3, <1>4

LEMMA SameVersions ==
  ASSUME Typed, version' = version
  PROVE  \A u \in Users : version[u] <= version'[u]
  BY SessionBounds DEF Typed, SessionTypeOK, Versions

LEMMA RaisedVersions ==
  ASSUME Typed, NEW w \in Users, version' = [version EXCEPT ![w] = @ + 1]
  PROVE  \A u \in Users : version[u] <= version'[u]
  BY SessionBounds DEF Typed, SessionTypeOK, Versions

LEMMA RevokesStep ==
  ASSUME Typed, Typed', NotAhead, Revokes, [SessionNext]_sessionVars
  PROVE  NotAhead' /\ Revokes'
<1> USE DEF Typed
<1>1. \A r \in Reasons : renewal[r] \in Cookies => renewal[r] \in Around
  BY DEF Around
<1>2. (cookie \in Cookies => cookie \in Around) /\ (entry \in Cookies => entry \in Around)
  BY DEF Around
<1>3. opened \subseteq Around
  BY DEF Around, SessionTypeOK
<1>4. Reasons = {"timer", "call"}
  BY DEF Reasons
<1>5. CASE Send \/ Answered \/ LoggedOut \/ UNCHANGED sessionVars
  <2>1. UNCHANGED <<version, opened, renewal, entry>> /\ cookie' \in {cookie, None}
    BY <1>5 DEF Send, Answered, LoggedOut, sessionVars, tabVars
  <2>2. \A c \in Cookies : c \in Around' => c \in Around
    BY <2>1, CookieFacts DEF Around
  <2> QED  BY <2>1, <2>2, SameVersions, NothingComesBack
<1>6. CASE Unauthorized
  <2>1. UNCHANGED <<version, opened, cookie, entry>> /\ (renewal' = renewal \/ Ask("call"))
    BY <1>6 DEF Unauthorized
  <2>2. \A r \in Reasons : renewal'[r] \in Cookies => renewal'[r] \in Around
    BY <1>1, <1>2, <1>4, <2>1, AskFacts
  <2>3. \A c \in Cookies : c \in Around' => c \in Around
    BY <1>2, <1>3, <2>1, <2>2 DEF Around
  <2> QED  BY <2>1, <2>3, SameVersions, NothingComesBack
<1>7. CASE TimerFires
  <2>1. UNCHANGED <<version, opened, cookie, entry>> /\ Ask("timer")
    BY <1>7 DEF TimerFires
  <2>2. \A r \in Reasons : renewal'[r] \in Cookies => renewal'[r] \in Around
    BY <1>1, <1>2, <1>4, <2>1, AskFacts
  <2>3. \A c \in Cookies : c \in Around' => c \in Around
    BY <1>2, <1>3, <2>1, <2>2 DEF Around
  <2> QED  BY <2>1, <2>3, SameVersions, NothingComesBack
<1>8. CASE Boot \/ RenewedForCall
  <2>1. UNCHANGED <<version, opened, entry>>
    BY <1>8 DEF Boot, RenewedForCall
  <2>2. cookie' \in {cookie, renewal["timer"], renewal["call"]}
    BY <1>8 DEF Boot, RenewedForCall, TakeOver
  <2>3. \A r \in Reasons : renewal'[r] \in {renewal[r], None}
    BY <1>4, <1>8 DEF Boot, RenewedForCall, SessionTypeOK
  <2>4. \A c \in Cookies : c \in Around' => c \in Around
    BY <1>1, <1>2, <1>3, <1>4, <2>1, <2>2, <2>3, CookieFacts DEF Around
  <2> QED  BY <2>1, <2>4, SameVersions, NothingComesBack
<1>9. CASE Fresh
  <2>1. UNCHANGED <<version, opened, cookie>> /\ entry' = None
    BY <1>9 DEF Fresh
  <2>2. \A r \in Reasons : renewal'[r] \in Cookies => renewal'[r] \in Around
    BY <1>2, <1>4, <1>9, FreshFacts, CookieFacts
  <2>3. \A c \in Cookies : c \in Around' => c \in Around
    BY <1>2, <1>3, <2>1, <2>2, CookieFacts DEF Around
  <2> QED  BY <2>1, <2>3, SameVersions, NothingComesBack
<1>10. CASE LogIn
  <2>1. PICK u \in Users : entry' = Current(u) /\ opened' = opened \cup {Current(u)}
    BY <1>10 DEF LogIn, Opens
  <2>2. UNCHANGED <<version, cookie, renewal>>
    BY <1>10 DEF LogIn
  <2>3. Current(u) \in Cookies /\ Current(u).version <= version[Current(u).user]
    BY CurrentType, CookieFacts
  <2>4. \A c \in Cookies : c \in Around' => c \in Around \/ c = Current(u)
    BY <2>1, <2>2 DEF Around
  <2> QED  BY <2>1, <2>2, <2>3, <2>4, SameVersions, NothingComesBack
<1>11. CASE Entered
  <2>1. UNCHANGED <<version, opened, renewal>> /\ entry' = None /\ cookie' \in {cookie, entry}
    BY <1>11 DEF Entered
  <2>2. \A c \in Cookies : c \in Around' => c \in Around
    BY <2>1, CookieFacts DEF Around
  <2> QED  BY <2>1, <2>2, SameVersions, NothingComesBack
<1>12. CASE LogOut
  <2>1. UNCHANGED <<cookie, opened, renewal, entry>>
    BY <1>12 DEF LogOut
  <2>2. \A u \in Users : version[u] <= version'[u]
    BY <1>12, SameVersions, RaisedVersions, CookieFacts DEF LogOut, SessionTypeOK
  <2>3. \A c \in Cookies : c \in Around' => c \in Around
    BY <2>1 DEF Around
  <2> QED  BY <2>1, <2>2, <2>3, NothingComesBack
<1>13. CASE OtherTab
  <2>1. UNCHANGED <<renewal, entry>>
    BY <1>13 DEF OtherTab, tabVars
  <2>2. CASE \E u \in Users : cookie' = Current(u) /\ Opens(u) /\ UNCHANGED version
    <3>1. PICK u \in Users : /\ cookie' = Current(u)
                             /\ opened' = opened \cup {Current(u)}
                             /\ UNCHANGED version
      BY <2>2 DEF Opens
    <3>2. Current(u) \in Cookies /\ Current(u).version <= version[Current(u).user]
      BY CurrentType, CookieFacts
    <3>3. \A c \in Cookies : c \in Around' => c \in Around \/ c = Current(u)
      BY <2>1, <3>1 DEF Around
    <3> QED  BY <3>1, <3>2, <3>3, SameVersions, NothingComesBack
  <2>3. CASE cookie' \in opened /\ UNCHANGED <<opened, version>>
    <3>1. \A c \in Cookies : c \in Around' => c \in Around
      BY <1>3, <2>1, <2>3 DEF Around
    <3> QED  BY <2>3, <3>1, SameVersions, NothingComesBack
  <2>4. CASE /\ cookie # None
             /\ version' = [version EXCEPT ![cookie.user] = @ + 1]
             /\ cookie' \in {cookie, None}
             /\ UNCHANGED opened
    <3>1. \A u \in Users : version[u] <= version'[u]
      BY <2>4, RaisedVersions, CookieFacts DEF SessionTypeOK
    <3>2. \A c \in Cookies : c \in Around' => c \in Around
      BY <2>1, <2>4, CookieFacts DEF Around
    <3> QED  BY <2>4, <3>1, <3>2, NothingComesBack
  <2> QED  BY <1>13, <2>2, <2>3, <2>4 DEF OtherTab
<1> QED  BY <1>5, <1>6, <1>7, <1>8, <1>9, <1>10, <1>11, <1>12, <1>13
         DEF SessionNext, RenewalFails, Reload

-----------------------------------------------------------------------------
(* The invariant of the session, in a behaviour of the client.             *)

LEMMA SessionStarts ==
  ASSUME SessionInit
  PROVE  Typed /\ WaitersAreServed /\ Kept /\ NotAhead /\ Revokes
<1>1. Quiet \in CallState /\ Quiet.heard = FALSE /\ Quiet.step = "none"
  BY DEF Quiet, CallState
<1>2. None \notin Cookies /\ Refused \notin Cookies /\ None # Refused
  BY NoneIsNobody DEF Cookies, Versions
<1>3. Typed
  <2>1. renewal \in [Reasons -> Cookies \cup {None, Refused}]
    BY DEF SessionInit, Reasons
  <2>2. call \in [Calls -> CallState] /\ HeardNamesAUser
    BY <1>1 DEF SessionInit, HeardNamesAUser
  <2>3. version \in [Users -> Versions]
    BY SessionBounds DEF SessionInit, Versions
  <2> QED  BY <2>1, <2>2, <2>3 DEF SessionInit, Typed, SessionTypeOK
<1>4. WaitersAreServed /\ Kept
  BY <1>1 DEF SessionInit, WaitersAreServed, Kept
<1>5. Around = {}
  BY <1>2 DEF SessionInit, Around, Reasons
<1> QED  BY <1>3, <1>4, <1>5 DEF NotAhead, Revokes

LEMMA ClientStep ==
  ASSUME [Next]_vars
  PROVE  [SessionNext]_sessionVars
  BY DEF Next, vars

THEOREM SessionInvariant ==
  Spec => [](Typed /\ WaitersAreServed /\ Kept /\ NotAhead /\ Revokes)
<1> DEFINE Inv == Typed /\ WaitersAreServed /\ Kept /\ NotAhead /\ Revokes
<1>1. Init => Inv
  BY SessionStarts DEF Init
<1>2. Inv /\ [Next]_vars => Inv'
  BY ClientStep, StepType, WaitersStep, KeptStep, RevokesStep
<1> QED  BY <1>1, <1>2, PTL DEF Spec

-----------------------------------------------------------------------------
(* The variables of the session have their types, whoever logs in where    *)
(* and whatever answers are lost.                                          *)
THEOREM SessionIsTyped == Spec => []SessionTypeOK
  BY SessionInvariant, PTL DEF Typed

(* The tab of a browser holds no data of anybody but the user it shows,    *)
(* unless a renewal or a log-in changed its user without a log-out         *)
(* (AuthContext, the response interceptor of the client, the query cache). *)
THEOREM NoForeignData == Spec => []OwnData
<1>1. Typed /\ Kept => OwnData
  BY DEF Kept, OwnData
<1> QED  BY <1>1, SessionInvariant, PTL

(* No cookie of before a log-out works after it, however many renewals     *)
(* and log-ins were under way (logoutUser, refreshTokens).                 *)
THEOREM OldCookiesAreDead == Spec => []LogoutRevokes
<1>1. Typed /\ Revokes => LogoutRevokes
  BY RevokesMeans
<1> QED  BY <1>1, SessionInvariant, PTL

(* No call that met a 401 waits for a renewal that is over (isRefreshing   *)
(* and failedQueue of the client).                                         *)
THEOREM NobodyWaitsInVain == Spec => []WaitersAreServed
  BY SessionInvariant, PTL

-----------------------------------------------------------------------------
(* The panes.                                                              *)

TypedAs(texts, t, s) == t \in 1 .. Len(texts) /\ texts[t] = s

(* What is on its way, and what was taken, holds a text that was typed for *)
(* the row it goes to; what was taken was taken.                           *)
Sensible ==
  kind \in Afresh =>
    /\ \A q \in Sends : out[q] # NoOne => TypedAs(typedFor, out[q].text, out[q].to)
    /\ \A w \in written : TypedAs(typedFor, w[1], w[2])
    /\ \A q \in Sends : out[q] # NoOne /\ out[q].answer = "yes" => <<out[q].text, out[q].to>> \in written

(* A pane that is made anew is about its row, and so is the request it     *)
(* heeds; one for a new message is empty when it is shut.                  *)
AboutItsRow ==
  kind \in Afresh =>
    /\ kind = "compose" /\ pane.at = NoOne => pane = Shut
    /\ pane.at # NoOne =>
         /\ pane.text # 0 => TypedAs(typedFor, pane.text, pane.at)
         /\ pane.failed \in {pane.at, NoOne}
         /\ pane.said => \E t \in 1 .. MaxTexts : <<t, pane.at>> \in written
         /\ pane.waits # NoOne => out[pane.waits].to = pane.at /\ ~out[pane.waits].left

(* A thread keeps the text it sends until it has the answer.               *)
Locked ==
  kind \in {"thread", "override"} /\ pane.waits # NoOne => out[pane.waits].text = pane.text

PaneInv ==
  /\ PaneTypeOK /\ Len(typedFor) <= MaxTexts
  /\ Sensible /\ AboutItsRow /\ Locked
  /\ LateAnswersPass

LEMMA PaneFacts ==
  ASSUME PaneTypeOK
  PROVE  /\ pane.at \in Subjects \cup {NoOne} /\ pane.editing \in BOOLEAN
         /\ pane.text \in 0 .. MaxTexts /\ pane.said \in BOOLEAN
         /\ pane.failed \in Subjects \cup {NoOne} /\ pane.waits \in Sends \cup {NoOne}
         /\ pane = [at |-> pane.at, editing |-> pane.editing, text |-> pane.text,
                    said |-> pane.said, failed |-> pane.failed, waits |-> pane.waits]
  BY DEF PaneTypeOK, PaneState

LEMMA OutFacts ==
  ASSUME PaneTypeOK, NEW q \in Sends, out[q] # NoOne
  PROVE  /\ out[q] \in Outgoing
         /\ out[q].to \in Subjects /\ out[q].text \in 0 .. MaxTexts
         /\ out[q].answer \in {"none", "yes", "no"} /\ out[q].left \in BOOLEAN
  BY DEF PaneTypeOK, Outgoing

LEMMA NoOneFacts ==
  ASSUME NEW s \in Subjects \cup Sends
  PROVE  s # NoOne
  BY NoOneIsNoSubject

LEMMA ShutFacts ==
  /\ Shut \in PaneState
  /\ Shut.at = NoOne /\ Shut.text = 0 /\ Shut.said = FALSE /\ Shut.failed = NoOne /\ Shut.waits = NoOne
  BY PaneBounds DEF Shut, PaneState

(* A request that is not heeded any more is otherwise as it was.           *)
LEMMA UnheardFacts ==
  ASSUME PaneTypeOK, out' = Unheard
  PROVE  /\ out' \in [Sends -> Outgoing \cup {NoOne}]
         /\ \A q \in Sends : out[q] = NoOne => out'[q] = NoOne
         /\ \A q \in Sends : out[q] # NoOne =>
              out'[q].to = out[q].to /\ out'[q].text = out[q].text /\ out'[q].answer = out[q].answer
<1>1. \A q \in Sends : out'[q] = IF out[q] = NoOne THEN NoOne ELSE [out[q] EXCEPT !.left = TRUE]
  BY DEF Unheard
<1>2. ASSUME NEW q \in Sends, out[q] # NoOne
      PROVE  /\ [out[q] EXCEPT !.left = TRUE] \in Outgoing
             /\ [out[q] EXCEPT !.left = TRUE].to = out[q].to
             /\ [out[q] EXCEPT !.left = TRUE].text = out[q].text
             /\ [out[q] EXCEPT !.left = TRUE].answer = out[q].answer
  BY <1>2, OutFacts DEF Outgoing
<1> QED  BY <1>1, <1>2 DEF Unheard

LEMMA TypedFacts ==
  ASSUME PaneTypeOK, Len(typedFor) <= MaxTexts, NEW s \in Subjects, TypedFor(s)
  PROVE  /\ typedFor' \in Seq(Subjects)
         /\ Len(typedFor') = Len(typedFor) + 1 /\ Len(typedFor') <= MaxTexts
         /\ Len(typedFor') \in 1 .. MaxTexts
         /\ typedFor'[Len(typedFor')] = s
         /\ \A i \in 1 .. Len(typedFor) : i \in 1 .. Len(typedFor') /\ typedFor'[i] = typedFor[i]
<1>1. typedFor \in Seq(Subjects) /\ typedFor' = Append(typedFor, s) /\ Len(typedFor) < MaxTexts
  BY DEF PaneTypeOK, TypedFor
<1> QED  BY <1>1, PaneBounds

LEMMA TakenFacts ==
  ASSUME NEW row \in ChargeRow
  PROVE  /\ Taken(row) \subseteq ChargeRow /\ Paying(row) \subseteq ChargeRow /\ Voiding(row) \subseteq ChargeRow
         /\ \A b \in BOOLEAN : [row EXCEPT !.pending = b] \in ChargeRow
<1>1. Paying(row) \subseteq ChargeRow
  BY DEF Paying, ChargeRow
<1>2. Voiding(row) \subseteq ChargeRow
  BY DEF Voiding, ChargeRow
<1>3. \A b \in BOOLEAN : [row EXCEPT !.pending = b] \in ChargeRow
  BY DEF ChargeRow
<1> QED  BY <1>1, <1>2, <1>3 DEF Taken

LEMMA OpenedType ==
  ASSUME PaneTypeOK, NEW s \in Subjects, NEW text \in 0 .. MaxTexts
  PROVE  Opened(s, text) \in PaneState /\ Opened(s, text).at = s
<1>1. [Shut EXCEPT !.at = s, !.text = text] \in PaneState /\ [Shut EXCEPT !.at = s, !.text = text].at = s
  BY DEF Shut, PaneState
<1>2. [pane EXCEPT !.at = s] \in PaneState /\ [pane EXCEPT !.at = s].at = s
  BY DEF PaneTypeOK, PaneState
<1> QED  BY <1>1, <1>2 DEF Opened

LEMMA ClosedType ==
  ASSUME PaneTypeOK
  PROVE  Closed \in PaneState /\ Closed.at = NoOne
<1>1. /\ [pane EXCEPT !.at = NoOne, !.editing = FALSE] \in PaneState
      /\ [pane EXCEPT !.at = NoOne, !.editing = FALSE].at = NoOne
  BY DEF PaneTypeOK, PaneState
<1>2. [pane EXCEPT !.at = NoOne] \in PaneState /\ [pane EXCEPT !.at = NoOne].at = NoOne
  BY DEF PaneTypeOK, PaneState
<1> QED  BY <1>1, <1>2, ShutFacts DEF Closed

LEMMA SucceededType ==
  ASSUME PaneTypeOK
  PROVE  Succeeded \in PaneState
<1> DEFINE done == [pane EXCEPT !.waits = NoOne]
<1>1. done \in PaneState
  BY DEF PaneTypeOK, PaneState
<1> HIDE DEF done
<1>2. /\ [done EXCEPT !.at = NoOne, !.editing = FALSE] \in PaneState
      /\ [done EXCEPT !.editing = FALSE] \in PaneState
      /\ [done EXCEPT !.said = TRUE] \in PaneState
      /\ [done EXCEPT !.text = 0] \in PaneState
  <2>1. 0 \in 0 .. MaxTexts
    BY PaneBounds
  <2>2. [done EXCEPT !.at = NoOne, !.editing = FALSE] \in PaneState /\ [done EXCEPT !.editing = FALSE] \in PaneState
    BY <1>1 DEF PaneState
  <2>3. [done EXCEPT !.said = TRUE] \in PaneState
    BY <1>1 DEF PaneState
  <2>4. [done EXCEPT !.text = 0] \in PaneState
    BY <1>1, <2>1 DEF PaneState
  <2> QED  BY <2>2, <2>3, <2>4
<1>3. Succeeded \in {Shut, [done EXCEPT !.at = NoOne, !.editing = FALSE], [done EXCEPT !.editing = FALSE],
                     [done EXCEPT !.said = TRUE], [done EXCEPT !.text = 0]}
  BY DEF Succeeded, done
<1> QED  BY <1>2, <1>3, ShutFacts

LEMMA PaneTypeStep ==
  ASSUME PaneTypeOK, Len(typedFor) <= MaxTexts, [PaneNext]_paneVars
  PROVE  PaneTypeOK' /\ Len(typedFor') <= MaxTexts
<1>1. CASE UNCHANGED paneVars
  BY <1>1 DEF paneVars, PaneTypeOK
<1>2. ASSUME NEW s \in Subjects, Select(s)
      PROVE  PaneTypeOK' /\ Len(typedFor') <= MaxTexts
  <2>1. typedFor' \in Seq(Subjects) /\ Len(typedFor') <= MaxTexts /\ Len(typedFor') \in 0 .. MaxTexts
    <3>1. CASE kind \in Seeded
      BY <1>2, <3>1, TypedFacts DEF Select
    <3>2. CASE kind \notin Seeded
      BY <1>2, <3>2 DEF Select, PaneTypeOK
    <3> QED  BY <3>1, <3>2
  <2>2. pane' = Opened(s, Len(typedFor'))
    BY <1>2 DEF Select
  <2>3. pane' \in PaneState
    BY <2>1, <2>2, OpenedType
  <2>4. out' \in [Sends -> Outgoing \cup {NoOne}]
    BY <1>2, UnheardFacts DEF Select
  <2> QED  BY <1>2, <2>1, <2>3, <2>4 DEF Select, PaneTypeOK
<1>3. CASE Close
  <2>1. pane' \in PaneState
    BY <1>3, ClosedType DEF Close
  <2>2. out' \in [Sends -> Outgoing \cup {NoOne}]
    BY <1>3, UnheardFacts DEF Close
  <2> QED  BY <1>3, <2>1, <2>2 DEF Close, PaneTypeOK
<1>4. CASE StartEditing
  <2>0. pane.at \in Subjects
    BY <1>4, PaneFacts DEF StartEditing
  <2>1. typedFor' \in Seq(Subjects) /\ Len(typedFor') <= MaxTexts /\ Len(typedFor') \in 0 .. MaxTexts
    <3>1. CASE kind = "details"
      BY <1>4, <2>0, <3>1, TypedFacts DEF StartEditing
    <3>2. CASE kind # "details"
      BY <1>4, <3>2 DEF StartEditing, PaneTypeOK
    <3> QED  BY <3>1, <3>2
  <2> DEFINE text == IF kind = "details" THEN Len(typedFor') ELSE 0
  <2>2. text \in 0 .. MaxTexts /\ pane' = [pane EXCEPT !.editing = TRUE, !.text = text]
    BY <1>4, <2>1, PaneBounds DEF StartEditing
  <2> HIDE DEF text
  <2>3. pane' \in PaneState
    BY <2>2 DEF PaneTypeOK, PaneState
  <2> QED  BY <1>4, <2>1, <2>3 DEF StartEditing, PaneTypeOK
<1>5. CASE StopEditing
  <2>1. pane' \in PaneState
    BY <1>5, PaneFacts DEF StopEditing, PaneTypeOK, PaneState
  <2> QED  BY <1>5, <2>1 DEF StopEditing, PaneTypeOK
<1>6. CASE Type
  <2>0. pane.at \in Subjects
    BY <1>6, PaneFacts DEF Type
  <2>1. typedFor' \in Seq(Subjects) /\ Len(typedFor') <= MaxTexts /\ Len(typedFor') \in 0 .. MaxTexts
    BY <1>6, <2>0, TypedFacts DEF Type
  <2>2. pane' \in PaneState
    BY <1>6, <2>1, PaneFacts DEF Type, PaneTypeOK, PaneState
  <2> QED  BY <1>6, <2>1, <2>2 DEF Type, PaneTypeOK
<1>7. ASSUME NEW q \in Sends, Submit(q)
      PROVE  PaneTypeOK' /\ Len(typedFor') <= MaxTexts
  <2>1. [to |-> pane.at, text |-> pane.text, answer |-> "none", left |-> FALSE] \in Outgoing
    BY <1>7, PaneFacts DEF Submit, Outgoing
  <2>2. out' \in [Sends -> Outgoing \cup {NoOne}]
    BY <1>7, <2>1 DEF Submit, PaneTypeOK
  <2>3. pane' \in PaneState
    BY <1>7, PaneFacts DEF Submit, PaneTypeOK, PaneState
  <2> QED  BY <1>7, <2>2, <2>3 DEF Submit, PaneTypeOK
<1>8. ASSUME NEW q \in Sends, Serve(q)
      PROVE  PaneTypeOK' /\ Len(typedFor') <= MaxTexts
  <2>1. PICK answer \in {"yes", "no"} : out' = [out EXCEPT ![q].answer = answer]
    BY <1>8 DEF Serve
  <2>2. out[q] # NoOne
    BY <1>8 DEF Serve
  <2>3. out' \in [Sends -> Outgoing \cup {NoOne}]
    <3>1. [out[q] EXCEPT !.answer = answer] \in Outgoing
      BY <2>2, OutFacts DEF Outgoing
    <3> QED  BY <2>1, <3>1 DEF PaneTypeOK
  <2>4. rows' \in [Subjects -> ChargeRow]
    <3>1. CASE UNCHANGED rows
      BY <3>1 DEF PaneTypeOK
    <3>2. CASE \E row \in Taken(rows[out[q].to]) : rows' = [rows EXCEPT ![out[q].to] = row]
      BY <2>2, <3>2, TakenFacts, OutFacts DEF PaneTypeOK
    <3> QED  BY <1>8, <3>1, <3>2 DEF Serve
  <2>5. written' \subseteq (0 .. MaxTexts) \X Subjects
    BY <1>8, <2>2, OutFacts DEF Serve, PaneTypeOK
  <2> QED  BY <1>8, <2>3, <2>4, <2>5 DEF Serve, PaneTypeOK
<1>9. ASSUME NEW q \in Sends, HearAnswer(q)
      PROVE  PaneTypeOK' /\ Len(typedFor') <= MaxTexts
  <2>1. out' \in [Sends -> Outgoing \cup {NoOne}]
    BY <1>9 DEF HearAnswer, PaneTypeOK
  <2>2. harm' \in BOOLEAN
    BY <1>9 DEF HearAnswer, PaneTypeOK
  <2>3. pane' \in PaneState
    <3>1. out[q] # NoOne /\ Failed(q) \in PaneState
      BY <1>9, OutFacts, PaneFacts DEF HearAnswer, Failed, PaneTypeOK, PaneState
    <3> QED  BY <1>9, <3>1, SucceededType DEF HearAnswer, PaneTypeOK
  <2> QED  BY <1>9, <2>1, <2>2, <2>3 DEF HearAnswer, PaneTypeOK
<1>10. CASE Elsewhere
  <2>1. PICK s \in Subjects, row \in ChargeRow : rows' = [rows EXCEPT ![s] = row]
    BY <1>10 DEF Elsewhere
  <2>2. rows' \in [Subjects -> ChargeRow]
    BY <2>1 DEF PaneTypeOK
  <2>3. elsewhere' \in 0 .. MaxElsewhere
    BY <1>10, PaneBounds DEF Elsewhere, PaneTypeOK
  <2> QED  BY <1>10, <2>2, <2>3 DEF Elsewhere, PaneTypeOK
<1>11. CASE Relist
  BY <1>11 DEF Relist, PaneTypeOK
<1> QED  BY <1>1, <1>2, <1>3, <1>4, <1>5, <1>6, <1>7, <1>8, <1>9, <1>10, <1>11 DEF PaneNext

(* What was typed stays typed.                                             *)
Extends == /\ Len(typedFor) <= Len(typedFor')
           /\ \A i \in 1 .. Len(typedFor) : typedFor'[i] = typedFor[i]

LEMMA TypedStays ==
  ASSUME PaneTypeOK, PaneTypeOK', Extends, NEW t, NEW s, TypedAs(typedFor, t, s)
  PROVE  TypedAs(typedFor', t, s)
<1>1. Len(typedFor) \in Nat /\ Len(typedFor') \in Nat
  BY DEF PaneTypeOK
<1>2. t \in 1 .. Len(typedFor') /\ typedFor'[t] = s
  BY <1>1 DEF TypedAs, Extends
<1> QED  BY <1>2 DEF TypedAs

LEMMA SensibleStays ==
  ASSUME PaneTypeOK, PaneTypeOK', Sensible, Extends, kind' = kind, written' = written,
         \A q \in Sends : out'[q] # NoOne =>
           out[q] # NoOne /\ out'[q].to = out[q].to /\ out'[q].text = out[q].text /\ out'[q].answer = out[q].answer
  PROVE  Sensible'
<1> SUFFICES ASSUME kind' \in Afresh
             PROVE  /\ \A q \in Sends : out'[q] # NoOne => TypedAs(typedFor', out'[q].text, out'[q].to)
                    /\ \A w \in written' : TypedAs(typedFor', w[1], w[2])
                    /\ \A q \in Sends : out'[q] # NoOne /\ out'[q].answer = "yes" => <<out'[q].text, out'[q].to>> \in written'
  BY DEF Sensible, TypedAs
<1>1. ASSUME NEW q \in Sends, out'[q] # NoOne
      PROVE  /\ TypedAs(typedFor', out'[q].text, out'[q].to)
             /\ out'[q].answer = "yes" => <<out'[q].text, out'[q].to>> \in written'
  <2>1. TypedAs(typedFor, out[q].text, out[q].to) /\ (out[q].answer = "yes" => <<out[q].text, out[q].to>> \in written)
    BY <1>1 DEF Sensible
  <2>2. TypedAs(typedFor', out[q].text, out[q].to)
    BY <2>1, TypedStays
  <2> QED  BY <1>1, <2>1, <2>2
<1>2. ASSUME NEW w \in written'
      PROVE  TypedAs(typedFor', w[1], w[2])
  <2>1. TypedAs(typedFor, w[1], w[2])
    BY <1>2 DEF Sensible
  <2> QED  BY <2>1, TypedStays
<1> QED  BY <1>1, <1>2

(* The pane is about the row it was about.                                 *)
LEMMA RowStays ==
  ASSUME PaneTypeOK, PaneTypeOK', AboutItsRow, Extends, kind' = kind, written \subseteq written',
         pane'.at = pane.at, pane.at # NoOne,
         pane'.text = pane.text \/ (pane'.text \in 1 .. Len(typedFor') /\ typedFor'[pane'.text] = pane.at),
         pane'.failed \in {pane.failed, pane.at, NoOne},
         pane'.said => pane.said \/ \E t \in 1 .. MaxTexts : <<t, pane.at>> \in written',
         pane'.waits # NoOne => \/ out'[pane'.waits].to = pane.at /\ ~out'[pane'.waits].left
                                \/ pane'.waits = pane.waits /\ out'[pane.waits] = out[pane.waits]
  PROVE  AboutItsRow'
<1> SUFFICES ASSUME kind \in Afresh
             PROVE  /\ pane'.text # 0 => TypedAs(typedFor', pane'.text, pane.at)
                    /\ pane'.failed \in {pane.at, NoOne}
                    /\ pane'.said => \E t \in 1 .. MaxTexts : <<t, pane.at>> \in written'
                    /\ pane'.waits # NoOne => out'[pane'.waits].to = pane.at /\ ~out'[pane'.waits].left
  BY DEF AboutItsRow, TypedAs
<1>1. /\ pane.text # 0 => TypedAs(typedFor, pane.text, pane.at)
      /\ pane.failed \in {pane.at, NoOne}
      /\ pane.said => \E t \in 1 .. MaxTexts : <<t, pane.at>> \in written
      /\ pane.waits # NoOne => out[pane.waits].to = pane.at /\ ~out[pane.waits].left
  BY DEF AboutItsRow
<1>2. pane'.text # 0 => TypedAs(typedFor', pane'.text, pane.at)
  BY <1>1, TypedStays DEF TypedAs
<1>3. pane'.said => \E t \in 1 .. MaxTexts : <<t, pane.at>> \in written'
  BY <1>1
<1> QED  BY <1>1, <1>2, <1>3

LEMMA PaneStep ==
  ASSUME PaneInv, [PaneNext]_paneVars
  PROVE  PaneInv'
<1> USE DEF PaneInv
<1>t. PaneTypeOK /\ Len(typedFor) <= MaxTexts /\ PaneTypeOK' /\ Len(typedFor') <= MaxTexts
  BY PaneTypeStep
<1>a. /\ pane'.at \in Subjects \cup {NoOne} /\ pane'.waits \in Sends \cup {NoOne}
  BY <1>t DEF PaneTypeOK, PaneState
<1>b. UNCHANGED typedFor => Extends
  BY DEF Extends
<1>1. CASE UNCHANGED paneVars
  BY <1>1, <1>t DEF paneVars, Sensible, AboutItsRow, Locked, LateAnswersPass, TypedAs
<1>2. ASSUME NEW s \in Subjects, Select(s)
      PROVE  PaneInv'
  <2>1. Extends
    BY <1>2, <1>b, TypedFacts DEF Select, Extends
  <2>2. Sensible'
    BY <1>2, <1>t, <2>1, UnheardFacts, SensibleStays DEF Select
  <2>3. AboutItsRow'
    <3> SUFFICES ASSUME kind \in Afresh
                 PROVE  AboutItsRow'
      BY <1>2 DEF AboutItsRow, Select
    <3>1. pane.at = NoOne /\ s # NoOne
      BY <1>2, NoOneFacts DEF Select, Modal, Afresh, PaneKinds, OfCharges
    <3>2. CASE kind \in Seeded
      <4>1. /\ pane'.at = s /\ pane'.text = Len(typedFor') /\ pane'.said = FALSE
            /\ pane'.failed = NoOne /\ pane'.waits = NoOne
        BY <1>2, <3>2 DEF Select, Opened, Shut
      <4>2. TypedAs(typedFor', pane'.text, s)
        BY <1>2, <1>t, <3>2, <4>1, TypedFacts DEF Select, TypedAs
      <4> QED  BY <1>2, <3>1, <4>1, <4>2 DEF Select, AboutItsRow, TypedAs
    <3>3. CASE kind \notin Seeded
      <4>1. kind = "compose" /\ pane = Shut
        BY <3>1, <3>3 DEF Afresh, Seeded, AboutItsRow
      <4>2. /\ pane'.at = s /\ pane'.text = 0 /\ pane'.said = FALSE
            /\ pane'.failed = NoOne /\ pane'.waits = NoOne
        BY <1>2, <3>3, <4>1, PaneFacts DEF Select, Opened, Shut
      <4> QED  BY <1>2, <3>1, <4>2 DEF Select, AboutItsRow
    <3> QED  BY <3>2, <3>3
  <2>4. Locked'
    <3> SUFFICES ASSUME kind \in {"thread", "override"}, pane'.waits # NoOne
                 PROVE  out'[pane'.waits].text = pane'.text
      BY <1>2 DEF Locked, Select
    <3>1. pane'.waits = pane.waits /\ pane'.text = pane.text
      BY <1>2, PaneFacts DEF Select, Opened, Seeded
    <3>2. out'[pane.waits].text = out[pane.waits].text
      <4>1. CASE out[pane.waits] = NoOne
        BY <1>2, <1>a, <3>1, <4>1, UnheardFacts DEF Select
      <4>2. CASE out[pane.waits] # NoOne
        BY <1>2, <1>a, <3>1, <4>2, UnheardFacts DEF Select
      <4> QED  BY <4>1, <4>2
    <3> QED  BY <3>1, <3>2 DEF Locked
  <2>5. LateAnswersPass'
    BY <1>2 DEF Select, LateAnswersPass
  <2> QED  BY <1>t, <2>2, <2>3, <2>4, <2>5
<1>3. CASE Close
  <2>1. Sensible'
    BY <1>3, <1>t, <1>b, UnheardFacts, SensibleStays DEF Close
  <2>2. AboutItsRow'
    BY <1>3, ClosedType DEF Close, AboutItsRow, Closed, Afresh
  <2>3. Locked'
    BY <1>3, ShutFacts DEF Close, Closed, Locked
  <2> QED  BY <1>3, <1>t, <2>1, <2>2, <2>3 DEF Close, LateAnswersPass
<1>4. CASE StartEditing \/ StopEditing \/ Type
  <2>0. pane.at \in Subjects /\ pane.at # NoOne
    BY <1>4, PaneFacts DEF StartEditing, StopEditing, Type
  <2>1. Extends
    BY <1>4, <1>b, <2>0, TypedFacts DEF StartEditing, StopEditing, Type, Extends
  <2>2. Sensible'
    BY <1>4, <1>t, <2>1, SensibleStays DEF StartEditing, StopEditing, Type
  <2>3. /\ pane'.at = pane.at /\ pane'.said = pane.said /\ pane'.failed = pane.failed
        /\ pane'.waits = pane.waits
        /\ kind \in Afresh \cup {"thread", "override"} =>
             pane'.text = pane.text \/ (Type /\ pane'.text = Len(typedFor'))
    BY <1>4, PaneFacts DEF StartEditing, StopEditing, Type, Afresh
  <2>4. AboutItsRow'
    <3> SUFFICES ASSUME kind \in Afresh
                 PROVE  AboutItsRow'
      BY <1>4 DEF AboutItsRow, StartEditing, StopEditing, Type
    <3>1. Type => Len(typedFor') \in 1 .. Len(typedFor') /\ typedFor'[Len(typedFor')] = pane.at
      BY <1>t, <2>0, TypedFacts DEF Type
    <3>2. UNCHANGED <<kind, out, written>>
      BY <1>4 DEF StartEditing, StopEditing, Type
    <3> QED  BY <1>t, <2>0, <2>1, <2>3, <3>1, <3>2, RowStays
  <2>5. Locked'
    BY <1>4, <2>3 DEF Locked, StartEditing, StopEditing, Type
  <2> QED  BY <1>4, <1>t, <2>2, <2>4, <2>5 DEF StartEditing, StopEditing, Type, LateAnswersPass
<1>5. ASSUME NEW q \in Sends, Submit(q)
      PROVE  PaneInv'
  <2>0. pane.at \in Subjects /\ pane.at # NoOne /\ q # NoOne /\ Extends
    BY <1>5, <1>b, PaneFacts, NoOneFacts DEF Submit
  <2>1. /\ out'[q] = [to |-> pane.at, text |-> pane.text, answer |-> "none", left |-> FALSE]
        /\ \A r \in Sends : r # q => out'[r] = out[r]
    BY <1>5, <1>t DEF Submit, PaneTypeOK
  <2>2. /\ pane'.at = pane.at /\ pane'.text = pane.text /\ pane'.said = pane.said
        /\ pane'.failed = NoOne /\ pane'.waits = q
    BY <1>5, PaneFacts DEF Submit
  <2>3. Sensible'
    <3> SUFFICES ASSUME kind \in Afresh, NEW r \in Sends, out'[r] # NoOne
                 PROVE  /\ TypedAs(typedFor, out'[r].text, out'[r].to)
                        /\ out'[r].answer = "yes" => <<out'[r].text, out'[r].to>> \in written
      BY <1>5 DEF Sensible, Submit
    <3>1. TypedAs(typedFor, pane.text, pane.at)
      BY <1>5, <2>0 DEF AboutItsRow, Submit, Afresh
    <3> QED  BY <2>1, <3>1 DEF Sensible
  <2>4. AboutItsRow'
    BY <1>5, <1>t, <2>0, <2>1, <2>2, RowStays DEF Submit
  <2>5. Locked'
    BY <2>1, <2>2 DEF Locked
  <2> QED  BY <1>5, <1>t, <2>3, <2>4, <2>5 DEF Submit, LateAnswersPass
<1>6. ASSUME NEW q \in Sends, Serve(q)
      PROVE  PaneInv'
  <2>0. out[q] # NoOne /\ Extends /\ UNCHANGED <<kind, pane, typedFor, harm>>
    BY <1>6, <1>b DEF Serve
  <2>1. PICK answer \in {"yes", "no"} : out' = [out EXCEPT ![q].answer = answer]
    BY <1>6 DEF Serve
  <2>2. /\ out'[q].to = out[q].to /\ out'[q].text = out[q].text /\ out'[q].answer = answer
        /\ out'[q].left = out[q].left
        /\ \A r \in Sends : r # q => out'[r] = out[r]
    BY <2>0, <2>1, <1>t, OutFacts DEF PaneTypeOK, Outgoing
  <2>3. \/ written' = written \cup {<<out[q].text, out[q].to>>}
        \/ answer = "no" /\ written' = written
    BY <1>6, <2>2 DEF Serve
  <2>4. Sensible'
    <3> SUFFICES ASSUME kind \in Afresh
                 PROVE  /\ \A r \in Sends : out'[r] # NoOne => TypedAs(typedFor, out'[r].text, out'[r].to)
                        /\ \A w \in written' : TypedAs(typedFor, w[1], w[2])
                        /\ \A r \in Sends : out'[r] # NoOne /\ out'[r].answer = "yes"
                             => <<out'[r].text, out'[r].to>> \in written'
      BY <2>0 DEF Sensible
    <3>1. TypedAs(typedFor, out[q].text, out[q].to)
      BY <2>0 DEF Sensible
    <3>2. \A w \in written' : TypedAs(typedFor, w[1], w[2])
      BY <2>3, <3>1 DEF Sensible
    <3>3. ASSUME NEW r \in Sends, out'[r] # NoOne
          PROVE  /\ TypedAs(typedFor, out'[r].text, out'[r].to)
                 /\ out'[r].answer = "yes" => <<out'[r].text, out'[r].to>> \in written'
      <4>1. CASE r = q
        BY <2>2, <2>3, <3>1, <4>1
      <4>2. CASE r # q
        BY <2>2, <2>3, <3>3, <4>2 DEF Sensible
      <4> QED  BY <4>1, <4>2
    <3> QED  BY <3>2, <3>3
  <2>5. AboutItsRow'
    <3>1. written \subseteq written'
      BY <2>3
    <3>2. pane.waits # NoOne => out'[pane.waits].to = out[pane.waits].to /\ out'[pane.waits].left = out[pane.waits].left
      BY <2>2, PaneFacts
    <3> QED  BY <2>0, <3>1, <3>2 DEF AboutItsRow, TypedAs
  <2>6. Locked'
    BY <2>0, <2>2, PaneFacts DEF Locked
  <2> QED  BY <1>t, <2>0, <2>4, <2>5, <2>6 DEF LateAnswersPass
<1>7. ASSUME NEW q \in Sends, HearAnswer(q)
      PROVE  PaneInv'
  <2>0. /\ out[q] # NoOne /\ q # NoOne /\ Extends /\ UNCHANGED <<kind, typedFor, written>>
        /\ out[q].answer \in {"yes", "no"}
    BY <1>7, <1>b, NoOneFacts, OutFacts DEF HearAnswer
  <2>1. out'[q] = NoOne /\ \A r \in Sends : r # q => out'[r] = out[r]
    BY <1>7, <1>t DEF HearAnswer, PaneTypeOK
  <2>2. Sensible'
    BY <1>t, <2>0, <2>1, SensibleStays
  <2>3. CASE pane.waits # q
    <3>1. pane' = pane /\ harm' = harm
      BY <1>7, <2>3 DEF HearAnswer
    <3>2. pane.waits # NoOne => out'[pane.waits] = out[pane.waits]
      BY <2>1, <2>3, PaneFacts
    <3> QED  BY <1>t, <2>0, <2>2, <3>1, <3>2 DEF AboutItsRow, Locked, LateAnswersPass, TypedAs
  <2>4. CASE pane.waits = q /\ out[q].answer = "no"
    <3>1. pane' = Failed(q) /\ harm' = harm
      BY <1>7, <2>4 DEF HearAnswer
    <3>2. /\ pane'.at = pane.at /\ pane'.text = pane.text /\ pane'.said = pane.said /\ pane'.waits = NoOne
          /\ pane'.failed \in {NoOne, out[q].to}
      BY <3>1, PaneFacts DEF Failed
    <3>3. CASE pane.at = NoOne
      <4>1. kind \in Afresh => kind # "compose"
        BY <2>0, <2>4, <3>3, ShutFacts DEF AboutItsRow
      <4> QED  BY <1>t, <2>0, <2>2, <3>1, <3>2, <3>3, <4>1 DEF AboutItsRow, Locked, LateAnswersPass
    <3>4. CASE pane.at # NoOne
      <4>1. kind \in Afresh => AboutItsRow'
        <5> SUFFICES ASSUME kind \in Afresh
                     PROVE  AboutItsRow'
          OBVIOUS
        <5>1. out[q].to = pane.at
          BY <2>0, <2>4, <3>4 DEF AboutItsRow
        <5> QED  BY <1>t, <2>0, <3>2, <3>4, <5>1, RowStays
      <4>2. AboutItsRow'
        BY <2>0, <4>1 DEF AboutItsRow
      <4> QED  BY <1>t, <2>0, <2>2, <3>1, <3>2, <4>2 DEF Locked, LateAnswersPass
    <3> QED  BY <3>3, <3>4
  <2>5. CASE pane.waits = q /\ out[q].answer = "yes"
    <3>1. pane' = Succeeded /\ harm' = (harm \/ Disturbs(q))
      BY <1>7, <2>5 DEF HearAnswer
    <3>2. pane'.waits = NoOne
      BY <3>1, PaneFacts, ShutFacts DEF Succeeded
    <3>3. AboutItsRow'
      <4> SUFFICES ASSUME kind \in Afresh
                   PROVE  AboutItsRow'
        BY <2>0 DEF AboutItsRow
      <4>1. CASE kind \in {"record", "edit", "compose"}
        <5>1. pane' = Shut
          BY <3>1, <4>1 DEF Succeeded
        <5> QED  BY <2>0, <5>1, ShutFacts DEF AboutItsRow
      <4>2. CASE kind = "pay"
        <5>1. /\ pane'.at = pane.at /\ pane'.text = pane.text /\ pane'.failed = pane.failed
          BY <3>1, <4>2, PaneFacts DEF Succeeded
        <5>2. CASE pane.at = NoOne
          BY <2>0, <4>2, <5>1, <5>2 DEF AboutItsRow
        <5>3. CASE pane.at # NoOne
          <6>1. /\ out[q].to = pane.at /\ TypedAs(typedFor, out[q].text, pane.at)
                /\ <<out[q].text, pane.at>> \in written
            BY <2>0, <2>5, <5>3 DEF AboutItsRow, Sensible
          <6>2. out[q].text \in 1 .. MaxTexts
            BY <1>t, <6>1, PaneBounds DEF TypedAs, PaneTypeOK
          <6> QED  BY <1>t, <2>0, <3>2, <5>1, <5>3, <6>1, <6>2, RowStays
        <5> QED  BY <5>2, <5>3
      <4> QED  BY <4>1, <4>2 DEF Afresh
    <3>4. LateAnswersPass'
      <4> SUFFICES ASSUME kind \in Afresh \cup {"thread", "override"}, Disturbs(q)
                   PROVE  FALSE
        BY <2>0, <3>1 DEF LateAnswersPass
      <4>1. kind \notin Afresh
        BY <2>0, <2>5 DEF AboutItsRow, Disturbs
      <4>2. pane.text = out[q].text
        BY <2>0, <2>5, <4>1 DEF Locked
      <4>3. Succeeded = [[pane EXCEPT !.waits = NoOne] EXCEPT !.text = 0]
        BY <4>1 DEF Succeeded
      <4> QED  BY <4>2, <4>3 DEF Disturbs
    <3> QED  BY <1>t, <2>2, <3>2, <3>3, <3>4 DEF Locked
  <2> QED  BY <2>0, <2>3, <2>4, <2>5
<1>8. CASE Elsewhere \/ Relist
  <2>1. UNCHANGED <<kind, pane, out, typedFor, written, harm>>
    BY <1>8 DEF Elsewhere, Relist
  <2> QED  BY <1>t, <2>1 DEF Sensible, AboutItsRow, Locked, LateAnswersPass, TypedAs
<1> QED  BY <1>1, <1>2, <1>3, <1>4, <1>5, <1>6, <1>7, <1>8 DEF PaneNext

LEMMA PaneStarts ==
  ASSUME PaneInit
  PROVE  PaneInv
<1>1. kind \in PaneKinds /\ pane = Shut /\ typedFor = <<>> /\ written = {} /\ harm = FALSE /\ elsewhere = 0
  BY DEF PaneInit
<1>2. \A q \in Sends : out[q] = NoOne
  BY DEF PaneInit
<1>3. PaneTypeOK /\ Len(typedFor) <= MaxTexts
  <2>1. Unpaid \in ChargeRow
    BY DEF Unpaid, ChargeRow
  <2>2. {rows, listed} \subseteq [Subjects -> ChargeRow] /\ out \in [Sends -> Outgoing \cup {NoOne}]
    BY <2>1 DEF PaneInit
  <2>3. typedFor \in Seq(Subjects) /\ Len(typedFor) = 0
    BY <1>1
  <2>4. 0 \in 0 .. MaxElsewhere /\ 0 <= MaxTexts
    BY PaneBounds
  <2>5. PaneTypeOK
    BY <1>1, <2>2, <2>3, <2>4, ShutFacts DEF PaneTypeOK
  <2> QED  BY <2>3, <2>4, <2>5
<1>4. Sensible
  BY <1>1, <1>2 DEF Sensible
<1>5. AboutItsRow /\ Locked
  BY <1>1, ShutFacts DEF AboutItsRow, Locked
<1> QED  BY <1>1, <1>3, <1>4, <1>5 DEF PaneInv, LateAnswersPass

LEMMA ClientPaneStep ==
  ASSUME [Next]_vars
  PROVE  [PaneNext]_paneVars
  BY DEF Next, vars

THEOREM PaneInvariant == Spec => []PaneInv
<1>1. Init => PaneInv
  BY PaneStarts DEF Init
<1>2. PaneInv /\ [Next]_vars => PaneInv'
  BY ClientPaneStep, PaneStep
<1> QED  BY <1>1, <1>2, PTL DEF Spec

(* A pane that starts afresh for its row shows nothing typed for, said of  *)
(* or failed for another row, and every text the server took was typed for *)
(* the row it went to, whatever is shut, opened and answered meanwhile.    *)
THEOREM NothingIsLeftOver == Spec => []NothingLeftOver
<1>1. PaneInv => NothingLeftOver
  BY DEF PaneInv, Sensible, AboutItsRow, TypedAs, NothingLeftOver
<1> QED  BY <1>1, PaneInvariant, PTL

(* An answer that comes after its pane was shut, or shows another row,     *)
(* disturbs no pane that forgets its request or locks its fields.          *)
THEOREM LateAnswersAreHarmless == Spec => []LateAnswersPass
<1>1. PaneInv => LateAnswersPass
  BY DEF PaneInv
<1> QED  BY <1>1, PaneInvariant, PTL

-----------------------------------------------------------------------------
(* Sums of integers over finite sets.  The library's induction takes an    *)
(* operator, so each of these looks at a smallest counterexample instead.  *)

(* A set of numbers has a least one.                                       *)
LEMMA LeastNumber ==
  ASSUME NEW T \in SUBSET Nat, T # {}
  PROVE  \E n \in T : \A m \in T : n <= m
<1>1. PICK R : IsWellFoundedOn(R, Nat) /\ \A m, n \in Nat : m < n => <<m, n>> \in R
  <2>1. \A m, n \in Nat : m < n => <<m, n>> \in OpToRel(<, Nat)
    BY DEF OpToRel
  <2> QED  BY <2>1, NatLessThanWellFounded, Zenon
<1>2. PICK n \in T : \A m \in T : ~(<<m, n>> \in R)
  <2>1. IsWellFoundedOn(R, Nat) /\ T \subseteq Nat
    BY <1>1
  <2> QED  BY <2>1, WFMin, Zenon
<1>3. \A m \in T : ~(m < n)
  BY <1>1, <1>2, Zenon
<1> QED  BY <1>3

(* The element that is taken off first.                                    *)
Pick(s) == CHOOSE x \in s : TRUE

(* g adds up f over each set of the family.                                *)
AddsUp(g, f, family) ==
  g = [s \in family |-> IF s = {} THEN 0 ELSE f[Pick(s)] + g[s \ {Pick(s)}]]

(* What SumFunctionOnSet computes on the way to the sum over S.            *)
SumsOver(f, S) == CHOOSE g : AddsUp(g, f, SUBSET S)

(* The library's definition, spelled out.                                  *)
LEMMA SumUnfolded ==
  ASSUME NEW f, NEW S
  PROVE  SumFunctionOnSet(f, S) = SumsOver(f, S)[S]
  BY Zenon DEF SumFunctionOnSet, FoldFunctionOnSet, MapThenFoldSet, SumsOver, AddsUp, Pick

(* What taking an element off leaves.                                      *)
LEMMA PickFacts ==
  ASSUME NEW S, IsFiniteSet(S), S # {}
  PROVE  /\ Pick(S) \in S
         /\ IsFiniteSet(S \ {Pick(S)})
         /\ Cardinality(S) \in Nat \ {0}
         /\ Cardinality(S \ {Pick(S)}) = Cardinality(S) - 1
<1>1. Pick(S) \in S
  BY DEF Pick
<1> DEFINE c == Pick(S)
<1> HIDE DEF c
<1>2. /\ IsFiniteSet(S \ {c})
      /\ Cardinality(S \ {c}) = IF c \in S THEN Cardinality(S)-1 ELSE Cardinality(S)
  BY FS_RemoveElement
<1>3. Cardinality(S) \in Nat /\ Cardinality(S) # 0
  BY FS_CardinalityType, FS_EmptySet
<1>4. c \in S
  BY <1>1 DEF c
<1> QED  BY <1>2, <1>3, <1>4 DEF c

(* Subsets of at most n elements.                                          *)
Small(S, n) == {s \in SUBSET S : Cardinality(s) <= n}

(* The recursion has a solution.                                           *)
LEMMA SumsExist ==
  ASSUME NEW f, NEW S, IsFiniteSet(S)
  PROVE  AddsUp(SumsOver(f, S), f, SUBSET S)
<1> DEFINE Bad == {n \in Nat : ~\E g : AddsUp(g, f, Small(S, n))}
<1>0. \A s \in SUBSET S : IsFiniteSet(s) /\ Cardinality(s) \in Nat
  BY FS_Subset, FS_CardinalityType
<1>1. Bad = {}
  <2> SUFFICES ASSUME Bad # {} PROVE FALSE
    OBVIOUS
  <2>1. PICK n \in Bad : \A m \in Bad : n <= m
    BY LeastNumber
  <2>2. PICK h : n # 0 => AddsUp(h, f, Small(S, n - 1))
    <3>1. n # 0 => n - 1 \in Nat /\ n - 1 \notin Bad
      BY <2>1
    <3> QED  BY <3>1
  <2> DEFINE g == [s \in Small(S, n) |-> IF s = {} THEN 0 ELSE f[Pick(s)] + h[s \ {Pick(s)}]]
  <2>3. ASSUME NEW s \in Small(S, n), s # {}
        PROVE  g[s \ {Pick(s)}] = h[s \ {Pick(s)}]
    <3>1. /\ Pick(s) \in s
          /\ Cardinality(s) \in Nat \ {0}
          /\ Cardinality(s \ {Pick(s)}) = Cardinality(s) - 1
      BY <1>0, <2>3, PickFacts DEF Small
    <3>2. PICK t : t = s \ {Pick(s)}
      OBVIOUS
    <3>3. n \in Nat /\ Cardinality(s) <= n /\ s \in SUBSET S
      BY DEF Small
    <3>4. n # 0 /\ Cardinality(t) \in Nat /\ Cardinality(t) <= n - 1 /\ t \in SUBSET S
      BY <3>1, <3>2, <3>3
    <3>5. t \in Small(S, n - 1) /\ t \in Small(S, n)
      BY <3>3, <3>4 DEF Small
    <3>6. h = [u \in Small(S, n - 1) |-> IF u = {} THEN 0 ELSE f[Pick(u)] + h[u \ {Pick(u)}]]
      BY <2>2, <3>4 DEF AddsUp
    <3>7. h[t] = IF t = {} THEN 0 ELSE f[Pick(t)] + h[t \ {Pick(t)}]
      BY <3>5, <3>6
    <3>8. g[t] = IF t = {} THEN 0 ELSE f[Pick(t)] + h[t \ {Pick(t)}]
      BY <3>5
    <3> QED  BY <3>2, <3>7, <3>8
  <2>4. AddsUp(g, f, Small(S, n))
    <3> HIDE DEF g
    <3>1. \A s \in Small(S, n) : s # {} => f[Pick(s)] + h[s \ {Pick(s)}] = f[Pick(s)] + g[s \ {Pick(s)}]
      BY <2>3
    <3>2. g = [s \in Small(S, n) |-> IF s = {} THEN 0 ELSE f[Pick(s)] + h[s \ {Pick(s)}]]
      BY DEF g
    <3> QED  BY <3>1, <3>2 DEF AddsUp
  <2> QED  BY <2>4
<1>2. Cardinality(S) \in Nat /\ Small(S, Cardinality(S)) = SUBSET S
  BY FS_Subset, FS_CardinalityType DEF Small
<1>3. \E g : AddsUp(g, f, SUBSET S)
  BY <1>1, <1>2
<1> QED  BY <1>3 DEF SumsOver

(* A sum does not depend on the family it is read from.                    *)
LEMMA SumsAgree ==
  ASSUME NEW f, NEW g, NEW e, NEW h, NEW S, IsFiniteSet(S), NEW T, IsFiniteSet(T),
         AddsUp(e, f, SUBSET S), AddsUp(h, g, SUBSET T)
  PROVE  \A s \in (SUBSET S) \cap (SUBSET T) : (\A x \in s : f[x] = g[x]) => e[s] = h[s]
<1> DEFINE Wrong(s) == s \in SUBSET S /\ s \in SUBSET T /\ (\A x \in s : f[x] = g[x]) /\ e[s] # h[s]
<1> SUFFICES ASSUME NEW w, Wrong(w) PROVE FALSE
  OBVIOUS
<1> DEFINE Bad == {n \in Nat : \E s \in SUBSET S : Wrong(s) /\ Cardinality(s) = n}
<1>1. Cardinality(w) \in Bad
  BY FS_Subset, FS_CardinalityType
<1>2. PICK n \in Bad : \A m \in Bad : n <= m
  BY <1>1, LeastNumber
<1>3. PICK s : Wrong(s) /\ Cardinality(s) = n /\ n \in Nat
  BY <1>2
<1>4. e[s] = IF s = {} THEN 0 ELSE f[Pick(s)] + e[s \ {Pick(s)}]
  BY <1>3 DEF AddsUp
<1>5. h[s] = IF s = {} THEN 0 ELSE g[Pick(s)] + h[s \ {Pick(s)}]
  BY <1>3 DEF AddsUp
<1>6. s # {} /\ IsFiniteSet(s)
  BY <1>3, <1>4, <1>5, FS_Subset
<1>7. Pick(s) \in s /\ Cardinality(s \ {Pick(s)}) = Cardinality(s) - 1 /\ Cardinality(s) \in Nat \ {0}
  BY <1>6, PickFacts
<1>8. PICK t : t = s \ {Pick(s)}
  OBVIOUS
<1>9. e[t] # h[t]
  BY <1>3, <1>4, <1>5, <1>6, <1>7, <1>8
<1>10. Wrong(t)
  BY <1>3, <1>8, <1>9
<1>11. n - 1 \in Bad
  BY <1>3, <1>7, <1>8, <1>10
<1> QED  BY <1>2, <1>3, <1>11

(* Taking the chosen element off a sum, and the empty sum.                 *)
LEMMA SumPicked ==
  ASSUME NEW f, NEW S, IsFiniteSet(S)
  PROVE  SumFunctionOnSet(f, S) =
           IF S = {} THEN 0 ELSE f[Pick(S)] + SumFunctionOnSet(f, S \ {Pick(S)})
<1>1. PICK e : e = SumsOver(f, S) /\ AddsUp(e, f, SUBSET S)
  BY SumsExist
<1>2. e[S] = IF S = {} THEN 0 ELSE f[Pick(S)] + e[S \ {Pick(S)}]
  BY <1>1 DEF AddsUp
<1>3. PICK T : T = S \ {Pick(S)}
  OBVIOUS
<1>4. IsFiniteSet(T) /\ T \in SUBSET S
  BY <1>3, FS_Subset
<1>5. PICK g : g = f
  OBVIOUS
<1>6. PICK h : h = SumsOver(g, T) /\ AddsUp(h, g, SUBSET T)
  BY <1>4, SumsExist
<1>7. e[T] = h[T]
  <2>1. \A s \in (SUBSET S) \cap (SUBSET T) : (\A x \in s : f[x] = g[x]) => e[s] = h[s]
    <3>1. IsFiniteSet(S) /\ IsFiniteSet(T)
      BY <1>4
    <3>2. AddsUp(e, f, SUBSET S) /\ AddsUp(h, g, SUBSET T)
      BY <1>1, <1>6
    <3> QED  BY <3>1, <3>2, SumsAgree
  <2> QED  BY <1>4, <1>5, <2>1
<1>8. SumFunctionOnSet(f, S) = e[S] /\ SumFunctionOnSet(f, T) = h[T]
  BY <1>1, <1>5, <1>6, SumUnfolded
<1> QED  BY <1>2, <1>3, <1>7, <1>8

(* Sums of integers are integers.                                          *)
LEMMA SumType ==
  ASSUME NEW D, NEW f \in [D -> Int], NEW S \in SUBSET D, IsFiniteSet(S)
  PROVE  SumFunctionOnSet(f, S) \in Int
<1> SUFFICES ASSUME SumFunctionOnSet(f, S) \notin Int PROVE FALSE
  OBVIOUS
<1> DEFINE Wrong(s) == s \in SUBSET S /\ SumFunctionOnSet(f, s) \notin Int
           Bad == {n \in Nat : \E s \in SUBSET S : Wrong(s) /\ Cardinality(s) = n}
<1>1. Cardinality(S) \in Bad
  BY FS_CardinalityType
<1>2. PICK n \in Bad : \A m \in Bad : n <= m
  BY <1>1, LeastNumber
<1>3. PICK s : Wrong(s) /\ Cardinality(s) = n /\ n \in Nat
  BY <1>2
<1>4. IsFiniteSet(s)
  BY <1>3, FS_Subset
<1>5. PICK t : t = s \ {Pick(s)}
  OBVIOUS
<1>6. SumFunctionOnSet(f, s) = IF s = {} THEN 0 ELSE f[Pick(s)] + SumFunctionOnSet(f, t)
  BY <1>4, <1>5, SumPicked
<1>7. s # {}
  BY <1>3, <1>6
<1>8. Pick(s) \in s /\ Cardinality(t) = Cardinality(s) - 1 /\ Cardinality(s) \in Nat \ {0}
  BY <1>4, <1>5, <1>7, PickFacts
<1>9. f[Pick(s)] \in Int
  BY <1>3, <1>8
<1>10. Wrong(t)
  BY <1>3, <1>5, <1>6, <1>7, <1>9
<1>11. n - 1 \in Bad
  BY <1>3, <1>8, <1>10
<1> QED  BY <1>2, <1>3, <1>11

(* Adding one element adds its number.                                     *)
LEMMA SumAdded ==
  ASSUME NEW D, NEW f \in [D -> Int], NEW S \in SUBSET D, IsFiniteSet(S), NEW x \in D \ S
  PROVE  SumFunctionOnSet(f, S \cup {x}) = f[x] + SumFunctionOnSet(f, S)
<1> DEFINE SumOf(s) == SumFunctionOnSet(f, s)
<1> HIDE DEF SumOf
<1> DEFINE Wrong(s, y) == /\ s \in SUBSET D /\ IsFiniteSet(s) /\ y \in D \ s
                          /\ SumOf(s \cup {y}) # f[y] + SumOf(s)
           Bad == {n \in Nat : \E s, y : Wrong(s, y) /\ Cardinality(s) = n}
<1> SUFFICES ASSUME Wrong(S, x) PROVE FALSE
  BY DEF SumOf
<1>1. Cardinality(S) \in Bad
  BY FS_CardinalityType
<1>2. PICK n \in Bad : \A m \in Bad : n <= m
  BY <1>1, LeastNumber
<1>3. PICK s, y : Wrong(s, y) /\ Cardinality(s) = n /\ n \in Nat
  BY <1>2
<1>4. PICK U : U = s \cup {y}
  OBVIOUS
<1>5. IsFiniteSet(U) /\ U # {} /\ U \in SUBSET D
  BY <1>3, <1>4, FS_AddElement
<1>6. PICK c : c = Pick(U)
  OBVIOUS
<1>7. c \in U
  BY <1>5, <1>6, PickFacts
<1>8. SumOf(U) = f[c] + SumOf(U \ {c})
  BY <1>5, <1>6, SumPicked DEF SumOf
<1>9. c # y
  <2>1. ASSUME c = y PROVE FALSE
    <3>1. U \ {c} = s
      BY <1>3, <1>4, <2>1
    <3> QED  BY <1>3, <1>4, <1>8, <2>1, <3>1
  <2> QED  BY <2>1
<1>10. PICK t : t = s \ {c}
  OBVIOUS
<1>11. c \in s /\ IsFiniteSet(t) /\ t \in SUBSET D /\ y \in D \ t /\ c \in D \ t
  BY <1>3, <1>4, <1>7, <1>9, <1>10, FS_Subset
<1>12. Cardinality(t) = n - 1 /\ n - 1 \in Nat
  <2>1. Cardinality(t) = (IF c \in s THEN Cardinality(s) - 1 ELSE Cardinality(s)) /\ Cardinality(t) \in Nat
    BY <1>3, <1>10, <1>11, FS_RemoveElement, FS_CardinalityType
  <2> QED  BY <1>3, <1>11, <2>1
<1>13. ~Wrong(t, y) /\ ~Wrong(t, c)
  <2>1. ASSUME NEW z, Wrong(t, z) PROVE FALSE
    <3> HIDE DEF Wrong
    <3>1. PICK k \in Nat : k = n - 1
      BY <1>12
    <3>2. \E s1, y1 : Wrong(s1, y1) /\ Cardinality(s1) = k
      BY <1>12, <2>1, <3>1
    <3>3. k \in Bad
      BY <3>2
    <3> QED  BY <1>2, <1>3, <3>1, <3>3
  <2> QED  BY <2>1
<1>14. SumOf(t \cup {y}) = f[y] + SumOf(t) /\ SumOf(t \cup {c}) = f[c] + SumOf(t)
  BY <1>11, <1>13
<1>15. U \ {c} = t \cup {y} /\ s = t \cup {c}
  BY <1>3, <1>4, <1>9, <1>10, <1>11
<1>16. f[c] \in Int /\ f[y] \in Int /\ SumOf(t) \in Int
  BY <1>3, <1>11, SumType DEF SumOf
<1>17. SumOf(U) = f[c] + (f[y] + SumOf(t)) /\ SumOf(s) = f[c] + SumOf(t)
  BY <1>8, <1>14, <1>15
<1>18. SumOf(U) = f[y] + SumOf(s)
  BY <1>16, <1>17
<1> QED  BY <1>3, <1>4, <1>18

(* Sums over two sets with nothing in common.                              *)
LEMMA SumSplit ==
  ASSUME NEW D, NEW f \in [D -> Int], NEW S \in SUBSET D, IsFiniteSet(S),
         NEW T \in SUBSET D, IsFiniteSet(T), S \cap T = {}
  PROVE  /\ SumFunctionOnSet(f, S \cup T) = SumFunctionOnSet(f, S) + SumFunctionOnSet(f, T)
         /\ SumFunctionOnSet(f, S) \in Int /\ SumFunctionOnSet(f, T) \in Int
<1> DEFINE SumOf(s) == SumFunctionOnSet(f, s)
<1> HIDE DEF SumOf
<1> DEFINE Wrong(s) == s \in SUBSET T /\ SumOf(S \cup s) # SumOf(S) + SumOf(s)
           Bad == {n \in Nat : \E s \in SUBSET T : Wrong(s) /\ Cardinality(s) = n}
<1>0. \A s \in SUBSET T : /\ IsFiniteSet(s) /\ Cardinality(s) \in Nat
                          /\ s \in SUBSET D /\ SumOf(s) \in Int
  BY FS_Subset, FS_CardinalityType, SumType DEF SumOf
<1>a. SumOf(S) \in Int
  BY SumType DEF SumOf
<1> SUFFICES ASSUME Wrong(T) PROVE FALSE
  BY <1>0, <1>a DEF SumOf
<1>1. Cardinality(T) \in Bad
  BY <1>0
<1>2. PICK n \in Bad : \A m \in Bad : n <= m
  BY <1>1, LeastNumber
<1>3. PICK s : Wrong(s) /\ Cardinality(s) = n /\ n \in Nat
  BY <1>2
<1>4. PICK U : U = S \cup s
  OBVIOUS
<1>5. s # {}
  <2>1. SumOf({}) = 0
    BY SumPicked, FS_EmptySet DEF SumOf
  <2> QED  BY <1>a, <1>3, <2>1
<1>6. PICK x : x \in s
  BY <1>5
<1>7. PICK t : t = s \ {x}
  OBVIOUS
<1>8. t \in SUBSET T /\ s = t \cup {x} /\ x \in D \ t
  BY <1>0, <1>3, <1>6, <1>7
<1>9. PICK V : V = S \cup t
  OBVIOUS
<1>10. V \in SUBSET D /\ IsFiniteSet(V) /\ x \in D \ V /\ U = V \cup {x}
  BY <1>0, <1>3, <1>4, <1>6, <1>8, <1>9, FS_Union
<1>11. SumOf(U) = f[x] + SumOf(V)
  BY <1>10, SumAdded DEF SumOf
<1>12. SumOf(s) = f[x] + SumOf(t)
  BY <1>0, <1>8, SumAdded DEF SumOf
<1>13. f[x] \in Int /\ SumOf(V) \in Int /\ SumOf(t) \in Int
  BY <1>0, <1>8, <1>10, SumType DEF SumOf
<1>14. SumOf(V) # SumOf(S) + SumOf(t)
  <2>1. SumOf(U) # SumOf(S) + SumOf(s)
    BY <1>3, <1>4
  <2> QED  BY <1>a, <1>11, <1>12, <1>13, <2>1
<1>15. Wrong(t)
  BY <1>8, <1>9, <1>14
<1>16. Cardinality(t) = n - 1 /\ n - 1 \in Nat
  <2>1. Cardinality(t) = (IF x \in s THEN Cardinality(s) - 1 ELSE Cardinality(s)) /\ Cardinality(t) \in Nat
    BY <1>0, <1>3, <1>7, <1>8, FS_RemoveElement
  <2> QED  BY <1>3, <1>6, <2>1
<1>17. n - 1 \in Bad
  <2> HIDE DEF Wrong
  <2> QED  BY <1>8, <1>15, <1>16
<1> QED
  <2> HIDE DEF Bad
  <2> QED  BY <1>2, <1>3, <1>17

(* A sum of numbers none of which is positive.                             *)
LEMMA SumOfLosses ==
  ASSUME NEW D, NEW f \in [D -> Int], NEW S \in SUBSET D, IsFiniteSet(S), \A x \in S : f[x] <= 0
  PROVE  SumFunctionOnSet(f, S) <= 0
<1> DEFINE SumOf(s) == SumFunctionOnSet(f, s)
<1> HIDE DEF SumOf
<1> DEFINE Wrong(s) == s \in SUBSET S /\ ~(SumOf(s) <= 0)
           Bad == {n \in Nat : \E s \in SUBSET S : Wrong(s) /\ Cardinality(s) = n}
<1> SUFFICES ASSUME Wrong(S) PROVE FALSE
  BY DEF SumOf
<1>0. \A s \in SUBSET S : IsFiniteSet(s) /\ Cardinality(s) \in Nat /\ SumOf(s) \in Int
  BY FS_Subset, FS_CardinalityType, SumType DEF SumOf
<1>1. Cardinality(S) \in Bad
  BY <1>0
<1>2. PICK n \in Bad : \A m \in Bad : n <= m
  BY <1>1, LeastNumber
<1>3. PICK s : Wrong(s) /\ Cardinality(s) = n /\ n \in Nat
  BY <1>2
<1>4. IsFiniteSet(s)
  BY <1>0, <1>3
<1>5. PICK t : t = s \ {Pick(s)}
  OBVIOUS
<1>6. SumOf(s) = IF s = {} THEN 0 ELSE f[Pick(s)] + SumOf(t)
  BY <1>4, <1>5, SumPicked DEF SumOf
<1>7. s # {}
  BY <1>3, <1>6
<1>8. Pick(s) \in s /\ Cardinality(t) = Cardinality(s) - 1 /\ Cardinality(s) \in Nat \ {0}
  BY <1>4, <1>5, <1>7, PickFacts
<1>9. f[Pick(s)] \in Int /\ f[Pick(s)] <= 0
  BY <1>3, <1>8
<1>10. t \in SUBSET S
  BY <1>3, <1>5
<1>11. Wrong(t)
  BY <1>0, <1>3, <1>6, <1>7, <1>9, <1>10
<1>12. n - 1 \in Bad
  BY <1>3, <1>8, <1>10, <1>11
<1> QED  BY <1>2, <1>3, <1>12

-----------------------------------------------------------------------------
(* The sums of the statement.  Each of them is the sum of a function over  *)
(* a set.                                                                  *)

(* The amounts of rows, whichever table they are in.                       *)
RowSum(h, S) == MapThenSumSet(LAMBDA r : h[r].amount, S)

LEMMA SumIs ==
  ASSUME NEW D, NEW S \in SUBSET D, IsFiniteSet(S), NEW f, f = [e \in D |-> e.amount]
  PROVE  Sum(S) = SumFunctionOnSet(f, S)
<1> DEFINE Solves(g) == g = [s \in SUBSET S |-> IF s = {} THEN 0
                                               ELSE Pick(s).amount + g[s \ {Pick(s)}]]
<1>1. Sum(S) = (CHOOSE g : Solves(g))[S]
  BY Zenon DEF Sum, Total, MapThenSumSet, MapThenFoldSet, Pick
<1>2. ASSUME NEW g PROVE Solves(g) <=> AddsUp(g, f, SUBSET S)
  <2>1. \A s \in SUBSET S : s # {} => f[Pick(s)] = Pick(s).amount
    BY DEF Pick
  <2> QED  BY <2>1 DEF AddsUp
<1>3. AddsUp(SumsOver(f, S), f, SUBSET S)
  BY SumsExist
<1>4. PICK g : g = (CHOOSE h : Solves(h)) /\ Solves(g)
  <2> HIDE DEF Solves
  <2> QED  BY <1>2, <1>3
<1>5. AddsUp(g, f, SUBSET S)
  <2> HIDE DEF Solves
  <2> QED  BY <1>2, <1>4
<1>6. PICK h : h = SumsOver(f, S)
  OBVIOUS
<1>7. g[S] = h[S]
  BY <1>3, <1>5, <1>6, SumsAgree
<1> QED
  <2> HIDE DEF Solves
  <2> QED  BY <1>1, <1>4, <1>6, <1>7, SumUnfolded

LEMMA RowSumIs ==
  ASSUME NEW D, NEW S \in SUBSET D, IsFiniteSet(S), NEW h, NEW f, f = [r \in D |-> h[r].amount]
  PROVE  RowSum(h, S) = SumFunctionOnSet(f, S)
<1> DEFINE Solves(g) == g = [s \in SUBSET S |-> IF s = {} THEN 0
                                               ELSE h[Pick(s)].amount + g[s \ {Pick(s)}]]
<1>1. RowSum(h, S) = (CHOOSE g : Solves(g))[S]
  BY Zenon DEF RowSum, MapThenSumSet, MapThenFoldSet, Pick
<1>2. ASSUME NEW g PROVE Solves(g) <=> AddsUp(g, f, SUBSET S)
  <2>1. \A s \in SUBSET S : s # {} => f[Pick(s)] = h[Pick(s)].amount
    BY DEF Pick
  <2> QED  BY <2>1 DEF AddsUp
<1>3. AddsUp(SumsOver(f, S), f, SUBSET S)
  BY SumsExist
<1>4. PICK g : g = (CHOOSE e : Solves(e)) /\ Solves(g)
  <2> HIDE DEF Solves
  <2> QED  BY <1>2, <1>3
<1>5. AddsUp(g, f, SUBSET S)
  <2> HIDE DEF Solves
  <2> QED  BY <1>2, <1>4
<1>6. PICK e : e = SumsOver(f, S)
  OBVIOUS
<1>7. g[S] = e[S]
  BY <1>3, <1>5, <1>6, SumsAgree
<1> QED
  <2> HIDE DEF Solves
  <2> QED  BY <1>1, <1>4, <1>6, <1>7, SumUnfolded

LEMMA TableSums ==
  /\ \A S : Owed(S) = RowSum(bill, S)
  /\ \A S : Received(S) = RowSum(money, S)
  BY Zenon DEF Owed, Received, Total, RowSum

(* Entries that are added up in two parts.                                 *)
LEMMA SumParts ==
  ASSUME NEW D, IsFiniteSet(D), \A e \in D : e.amount \in Int,
         NEW A \in SUBSET D, NEW B \in SUBSET D, A \cap B = {}
  PROVE  Sum(A \cup B) = Sum(A) + Sum(B) /\ Sum(A) \in Int /\ Sum(B) \in Int
<1>1. PICK f : f = [e \in D |-> e.amount]
  OBVIOUS
<1>2. f \in [D -> Int]
  BY <1>1
<1>3. IsFiniteSet(A) /\ IsFiniteSet(B) /\ A \cup B \in SUBSET D /\ IsFiniteSet(A \cup B)
  BY FS_Subset
<1>4. /\ SumFunctionOnSet(f, A \cup B) = SumFunctionOnSet(f, A) + SumFunctionOnSet(f, B)
      /\ SumFunctionOnSet(f, A) \in Int /\ SumFunctionOnSet(f, B) \in Int
  BY <1>2, <1>3, SumSplit
<1>5. /\ Sum(A) = SumFunctionOnSet(f, A) /\ Sum(B) = SumFunctionOnSet(f, B)
      /\ Sum(A \cup B) = SumFunctionOnSet(f, A \cup B)
  BY <1>1, <1>3, SumIs
<1> QED  BY <1>4, <1>5

(* A new entry.                                                            *)
LEMMA SumOfOneMore ==
  ASSUME NEW A, IsFiniteSet(A), \A e \in A : e.amount \in Int, NEW x, x \notin A, x.amount \in Int
  PROVE  Sum(A \cup {x}) = x.amount + Sum(A) /\ Sum(A) \in Int
<1>1. PICK D : D = A \cup {x}
  OBVIOUS
<1>2. PICK f : f = [e \in D |-> e.amount]
  OBVIOUS
<1>3. f \in [D -> Int] /\ f[x] = x.amount
  BY <1>1, <1>2
<1>4. IsFiniteSet(D) /\ A \in SUBSET D /\ x \in D \ A
  BY <1>1, FS_AddElement
<1>5. SumFunctionOnSet(f, A \cup {x}) = f[x] + SumFunctionOnSet(f, A) /\ SumFunctionOnSet(f, A) \in Int
  BY <1>3, <1>4, SumAdded, SumType
<1>6. Sum(A) = SumFunctionOnSet(f, A) /\ Sum(D) = SumFunctionOnSet(f, D)
  BY <1>2, <1>4, SumIs
<1> QED  BY <1>1, <1>3, <1>5, <1>6

(* Entries none of which is a debit.                                       *)
LEMMA SumOfDebts ==
  ASSUME NEW A, IsFiniteSet(A), \A e \in A : e.amount \in Int /\ e.amount <= 0
  PROVE  Sum(A) \in Int /\ Sum(A) <= 0
<1>1. PICK f : f = [e \in A |-> e.amount]
  OBVIOUS
<1>2. f \in [A -> Int] /\ \A e \in A : f[e] <= 0
  BY <1>1
<1>3. SumFunctionOnSet(f, A) \in Int /\ SumFunctionOnSet(f, A) <= 0
  <2>1. SumFunctionOnSet(f, A) \in Int
    BY <1>2, SumType
  <2>2. SumFunctionOnSet(f, A) <= 0
    BY <1>2, SumOfLosses
  <2> QED  BY <2>1, <2>2
<1>4. Sum(A) = SumFunctionOnSet(f, A)
  BY <1>1, SumIs
<1> QED  BY <1>3, <1>4

LEMMA SumOfNone == Sum({}) = 0
<1>1. IsFiniteSet({})
  BY FS_EmptySet
<1>2. PICK D : D = {}
  OBVIOUS
<1>3. PICK f : f = [e \in D |-> e.amount]
  OBVIOUS
<1>4. Sum(D) = SumFunctionOnSet(f, D)
  BY <1>1, <1>2, <1>3, SumIs
<1>5. SumFunctionOnSet(f, D) = 0
  BY <1>1, <1>2, SumPicked
<1> QED  BY <1>2, <1>4, <1>5

(* Rows with the same amounts.                                             *)
LEMMA RowSumSame ==
  ASSUME NEW S, IsFiniteSet(S), NEW h, NEW g, \A r \in S : g[r].amount = h[r].amount
  PROVE  RowSum(g, S) = RowSum(h, S)
<1>1. PICK f : f = [r \in S |-> h[r].amount]
  OBVIOUS
<1>2. f = [r \in S |-> g[r].amount]
  BY <1>1
<1>3. \A T \in SUBSET S : IsFiniteSet(T) => RowSum(h, T) = SumFunctionOnSet(f, T)
  BY <1>1, RowSumIs
<1>4. \A T \in SUBSET S : IsFiniteSet(T) => RowSum(g, T) = SumFunctionOnSet(f, T)
  BY <1>2, RowSumIs
<1> QED  BY <1>3, <1>4

(* Rows in two parts.                                                      *)
LEMMA RowSumParts ==
  ASSUME NEW D, IsFiniteSet(D), NEW h, \A r \in D : h[r].amount \in Int,
         NEW A \in SUBSET D, NEW B \in SUBSET D, A \cap B = {}
  PROVE  RowSum(h, A \cup B) = RowSum(h, A) + RowSum(h, B) /\ RowSum(h, A) \in Int /\ RowSum(h, B) \in Int
<1>1. PICK f : f = [r \in D |-> h[r].amount]
  OBVIOUS
<1>2. f \in [D -> Int]
  BY <1>1
<1>3. IsFiniteSet(A) /\ IsFiniteSet(B) /\ A \cup B \in SUBSET D /\ IsFiniteSet(A \cup B)
  BY FS_Subset
<1>4. /\ SumFunctionOnSet(f, A \cup B) = SumFunctionOnSet(f, A) + SumFunctionOnSet(f, B)
      /\ SumFunctionOnSet(f, A) \in Int /\ SumFunctionOnSet(f, B) \in Int
  BY <1>2, <1>3, SumSplit
<1>5. \A S \in SUBSET D : IsFiniteSet(S) => RowSum(h, S) = SumFunctionOnSet(f, S)
  BY <1>1, RowSumIs
<1> QED  BY <1>3, <1>4, <1>5

(* A row that comes in: g is h but for x.                                  *)
LEMMA RowSumMore ==
  ASSUME NEW S, IsFiniteSet(S), NEW h, NEW g, NEW x, x \notin S,
         \A r \in S : g[r].amount = h[r].amount /\ h[r].amount \in Int, g[x].amount \in Int
  PROVE  RowSum(g, S \cup {x}) = g[x].amount + RowSum(h, S) /\ RowSum(h, S) \in Int
<1>1. PICK D : D = S \cup {x}
  OBVIOUS
<1>2. PICK f : f = [r \in D |-> g[r].amount]
  OBVIOUS
<1>3. f \in [D -> Int] /\ f[x] = g[x].amount
  BY <1>1, <1>2
<1>4. IsFiniteSet(D) /\ S \in SUBSET D /\ x \in D \ S
  BY <1>1, FS_AddElement
<1>5. SumFunctionOnSet(f, S \cup {x}) = f[x] + SumFunctionOnSet(f, S) /\ SumFunctionOnSet(f, S) \in Int
  BY <1>3, <1>4, SumAdded, SumType
<1>6. RowSum(g, S) = SumFunctionOnSet(f, S) /\ RowSum(g, D) = SumFunctionOnSet(f, D)
  <2>1. \A T \in SUBSET D : IsFiniteSet(T) => RowSum(g, T) = SumFunctionOnSet(f, T)
    BY <1>2, RowSumIs
  <2> QED  BY <1>4, <2>1
<1>7. RowSum(g, S) = RowSum(h, S)
  BY RowSumSame
<1> QED  BY <1>1, <1>3, <1>5, <1>6, <1>7

(* Rows alone.                                                             *)
LEMMA RowSumType ==
  ASSUME NEW D, IsFiniteSet(D), NEW h, \A r \in D : h[r].amount \in Int, NEW S \in SUBSET D
  PROVE  RowSum(h, S) \in Int
<1>1. {} \in SUBSET D /\ S \cap {} = {}
  OBVIOUS
<1> QED  BY <1>1, RowSumParts

-----------------------------------------------------------------------------
(* The rows of which there are finitely many, by what they count for.      *)

Existing  == {b \in Bills : bill[b] # NoRow}
Known     == {m \in Moneys : money[m] # NoRow}
OpenBills == {b \in Existing : ~bill[b].voided}
Arrived   == {m \in Known : money[m].done}
Later     == {b \in OpenBills : bill[b].due > today}
Ahead     == {m \in Arrived : money[m].bill = NoRow \/ bill[money[m].bill].due > today}

(* The sign of an entry and what it says of its row.                       *)
EntriesSay ==
  \A e \in entries :
    /\ e.amount \in Int
    /\ e.type # "charge" => e.amount <= 0
    /\ e.type = "credit" => e.of \in Existing /\ bill[e.of].voided /\ e.on \in Dates
    /\ e.type = "payment" => e.of \in Arrived

(* The ledger adds up to what is owed less what was received.              *)
BooksAgree ==
  /\ IsFiniteSet(entries) /\ IsFiniteSet(Existing) /\ IsFiniteSet(Known)
  /\ EntriesSay
  /\ \A m \in Known : money[m].bill \in Existing \cup {NoRow}
  /\ Sum(entries) = RowSum(bill, OpenBills) - RowSum(money, Arrived)

(* Something was written that is dated before the period.                  *)
Back == report.from # NoRow /\ \E i \in DOMAIN during : \E d \in during[i] : d < report.from

Before == IF report.from = NoRow THEN 0 ELSE BalanceBeforeDate(report.from)

(* The figures that are read agree with what the others will be.           *)
OpeningTied ==
  report.kind = "lease" /\ ~Back =>
    /\ "opening" \notin report.unread => report.sum["opening"] = Before
    /\ "entries" \notin report.unread =>
         IF report.sum["last"] = NoRow THEN report.sum["activity"] = 0
         ELSE report.sum["activity"] \in Int /\ report.sum["last"] = Before + report.sum["activity"]

Listed == InRange(report.from, report.to)

LeaseTied ==
  report.kind = "lease" =>
    /\ "balance" \notin report.unread => report.sum["balance"] = Sum(entries)
    /\ "due" \notin report.unread =>
         report.sum["due"] = Sum(entries) - RowSum(bill, Later) + RowSum(money, Ahead)

Movement(s) == s["charged"] - s["collected"] - s["credits"]

PortfolioTied ==
  report.kind = "portfolio" =>
    /\ "properties" \notin report.unread =>
         /\ report.sum["charged"] = KindOf(Listed, "charge")
         /\ report.sum["collected"] = Absolute(KindOf(Listed, "payment"))
         /\ Movement(report.sum) = Sum(Listed)
    /\ "units" \notin report.unread =>
         /\ report.sum["unitCharged"] = KindOf(Listed, "charge")
         /\ report.sum["unitCollected"] = Absolute(KindOf(Listed, "payment"))

AsRead ==
  Reading => /\ since = {}
             /\ OpeningTied
             /\ during = << >> => LeaseTied /\ PortfolioTied

(* What ReportAddsUp says of the report, once it is all read.              *)
AddsUpWhole == report.kind = "lease" /\ ~Back => report.sum["opening"] + report.sum["activity"] = Ending(report.sum)

LeaseAgrees ==
  report.kind = "lease" /\ during = << >> =>
    /\ report.to = NoRow => Ending(report.sum) = report.sum["balance"]
    /\ since = {} => report.sum["due"] = report.sum["balance"] - RowSum(bill, Later) + RowSum(money, Ahead)

PortfolioAgrees ==
  report.kind = "portfolio" /\ during = << >> =>
    /\ report.sum["charged"] = report.sum["unitCharged"]
    /\ report.sum["collected"] = report.sum["unitCollected"]
    /\ since = {} => Movement(report.sum) = Sum(Listed)

AsShown == Shown => AddsUpWhole /\ LeaseAgrees /\ PortfolioAgrees

-----------------------------------------------------------------------------
(* The statement.  A write is seen by the dates it carries; how sums are   *)
(* worked out is of no account to it.                                      *)

StatementTyped ==
  /\ today \in Dates
  /\ bill \in [Bills -> Bill \cup {NoRow}]
  /\ money \in [Moneys -> Money \cup {NoRow}]
  /\ report # NoRow =>
       /\ report = [kind |-> report.kind, from |-> report.from, to |-> report.to,
                    unread |-> report.unread, sum |-> report.sum]
       /\ report.sum = [s \in Sums |-> report.sum[s]]
       /\ report.from \in Dates \cup {NoRow}
       /\ report.to \in Dates \cup {NoRow}
       /\ report.kind = "lease" /\ NoRow \notin {report.from, report.to} => report.from <= report.to

(* An entry is booked with its row.                                        *)
RowsExist ==
  \A e \in entries :
    /\ e.type \in {"charge", "payment", "credit"}
    /\ e.type = "charge"  => e.of \in Bills /\ bill[e.of] # NoRow
    /\ e.type = "payment" => e.of \in Moneys /\ money[e.of] # NoRow

(* No write was dated in the period of the report or before.               *)
Undisturbed ==
  /\ report # NoRow
  /\ report.kind \in {"lease", "statement"}
  /\ during = << >>
  /\ \A d \in since : report.to # NoRow /\ d > report.to

(* Its entries, once read, are those that would be read again.             *)
FiguresHold ==
  Undisturbed /\ "entries" \notin report.unread =>
    /\ report.sum["activity"] = Sum(InRange(report.from, report.to))
    /\ report.sum["last"] = IF InRange(report.from, report.to) = {} THEN NoRow
                            ELSE Sum(InRange(NoRow, report.to))

Reported == during \in Seq(SUBSET Dates) /\ FiguresHold /\ AsRead /\ AsShown

StatementInv == StatementTyped /\ RowsExist /\ Reported

LEMMA DateFacts ==
  ASSUME StatementTyped
  PROVE  /\ \A d \in Dates : d \in Int /\ d # NoRow
         /\ \A b \in Bills : bill[b] # NoRow => bill[b] \in Bill /\ bill[b].due \in Dates
         /\ \A m \in Moneys : money[m] # NoRow => money[m] \in Money /\ money[m].date \in Dates
<1>1. \A d \in Dates : d \in Int /\ d # NoRow
  BY StatementBounds DEF Dates
<1>2. \A b \in Bills : bill[b] # NoRow => bill[b] \in Bill /\ bill[b].due \in Dates
  BY DEF StatementTyped, Bill
<1>3. \A m \in Moneys : money[m] # NoRow => money[m] \in Money /\ money[m].date \in Dates
  BY DEF StatementTyped, Money
<1> QED  BY <1>1, <1>2, <1>3

(* A step that keeps the dates of the entries of a period, and dates what  *)
(* it adds after it, leaves the period as it is.                           *)
LEMMA PeriodStays ==
  ASSUME NEW from, NEW to, entries \subseteq entries',
         \A e \in entries : \/ EffectiveDate(e)' = EffectiveDate(e)
                            \/ to # NoRow /\ ~(EffectiveDate(e) <= to) /\ ~(EffectiveDate(e)' <= to),
         \A e \in entries' \ entries : to # NoRow /\ ~(EffectiveDate(e)' <= to)
  PROVE  InRange(from, to)' = InRange(from, to)
<1>1. ASSUME NEW e \in entries
      PROVE  e \in InRange(from, to)' <=> e \in InRange(from, to)
  BY <1>1 DEF InRange
<1>2. ASSUME NEW e \in entries' \ entries
      PROVE  e \notin InRange(from, to)'
  BY <1>2 DEF InRange
<1>3. InRange(from, to)' \subseteq entries' /\ InRange(from, to) \subseteq entries
  BY DEF InRange
<1> QED  BY <1>1, <1>2, <1>3

(* So the figures of the report that is shown stay right.                  *)
LEMMA FiguresStay ==
  ASSUME StatementInv, UNCHANGED report,
         Undisturbed' => Undisturbed,
         Undisturbed' => InRange(report.from, report.to)' = InRange(report.from, report.to)
                         /\ InRange(NoRow, report.to)' = InRange(NoRow, report.to)
  PROVE  FiguresHold'
<1> SUFFICES ASSUME Undisturbed', "entries" \notin report.unread
             PROVE  /\ report.sum["activity"] = Sum(InRange(report.from, report.to)')
                    /\ report.sum["last"] = IF InRange(report.from, report.to)' = {} THEN NoRow
                                            ELSE Sum(InRange(NoRow, report.to)')
  BY DEF FiguresHold
<1> QED  BY DEF StatementInv, Reported, FiguresHold

(* A write that does not end the report's being undisturbed was dated      *)
(* after its period, and made when the report was shown.                   *)
LEMMA DisturbedBy ==
  ASSUME NEW days, Touches(days), UNCHANGED report, Undisturbed'
  PROVE  Undisturbed /\ report.unread = {} /\ \A d \in days : report.to # NoRow /\ d > report.to
<1>1. ~Reading
  BY StatementBounds DEF Touches, Undisturbed
<1>2. report # NoRow /\ report.unread = {}
  BY <1>1 DEF Reading, Undisturbed
<1>3. since' = since \cup days /\ during' = during
  BY <1>1, <1>2 DEF Touches, Shown
<1> QED  BY <1>2, <1>3 DEF Undisturbed

(* A write dated in the period or after it leaves what was before it.      *)
LEMMA BeforeStays ==
  ASSUME UNCHANGED report, NEW days, entries \subseteq entries',
         \A e \in entries : \/ EffectiveDate(e)' = EffectiveDate(e)
                            \/ EffectiveDate(e) \in days /\ EffectiveDate(e)' \in days,
         \A e \in entries' \ entries : EffectiveDate(e)' \in days,
         report.from # NoRow => \A d \in days : ~(d < report.from)
  PROVE  Before' = Before
<1>1. CASE report.from = NoRow
  BY <1>1 DEF Before
<1>2. CASE report.from # NoRow
  <2>1. PICK from : from = report.from
    OBVIOUS
  <2>2. \A d \in days : ~(d < from)
    BY <1>2, <2>1
  <2>3. {e \in entries : EffectiveDate(e) < from} = {e \in entries' : EffectiveDate(e)' < from}
    BY <2>2
  <2> QED  BY <1>2, <2>1, <2>3 DEF Before, BalanceBeforeDate
<1> QED  BY <1>1, <1>2

(* One of the writes, seen from the report.                                *)
LEMMA WriteStays ==
  ASSUME StatementInv, StatementTyped', RowsExist', UNCHANGED report,
         NEW days \in SUBSET Dates, days # {}, Touches(days),
         entries \subseteq entries',
         \A e \in entries : \/ EffectiveDate(e)' = EffectiveDate(e)
                            \/ EffectiveDate(e) \in days /\ EffectiveDate(e)' \in days,
         \A e \in entries' \ entries : EffectiveDate(e)' \in days
  PROVE  Reported'
<1>1. Undisturbed' => Undisturbed /\ \A d \in days : report.to # NoRow /\ d > report.to
  BY DisturbedBy
<1>2. ASSUME Undisturbed', NEW from
      PROVE  InRange(from, report.to)' = InRange(from, report.to)
  <2>1. PICK to : to = report.to
    OBVIOUS
  <2>2. to' = report.to'
    BY <2>1
  <2>3. \A d \in days : to # NoRow /\ ~(d <= to)
    <3>1. report.to \in Dates \cup {NoRow}
      BY <1>1, <1>2 DEF StatementInv, StatementTyped, Undisturbed
    <3> QED  BY <1>1, <1>2, <2>1, <3>1, DateFacts DEF StatementInv
  <2>4. InRange(from, to)' = InRange(from, to)
    BY <2>3, PeriodStays
  <2> QED  BY <2>1, <2>4
<1>3. Undisturbed' => InRange(report.from, report.to)' = InRange(report.from, report.to)
  <2>1. PICK from : from = report.from
    OBVIOUS
  <2> QED  BY <1>2, <2>1
<1>4. FiguresHold'
  BY <1>1, <1>2, <1>3, FiguresStay
<1>5. during \in Seq(SUBSET Dates) /\ during' \in Seq(SUBSET Dates)
  BY DEF StatementInv, Reported, Touches
<1>6. CASE Reading
  <2>1. during' = Append(during, days) /\ since' = since /\ during' # << >>
    BY <1>5, <1>6 DEF Touches, Reading, Shown
  <2>2. ~Back' => ~Back /\ (report.from # NoRow => \A d \in days : ~(d < report.from))
    <3>1. /\ DOMAIN during' = DOMAIN during \cup {Len(during) + 1} /\ during'[Len(during) + 1] = days
          /\ \A i \in DOMAIN during : during'[i] = during[i]
      BY <1>5, <2>1
    <3> QED  BY <3>1 DEF Back
  <2>3. ~Back' => ~Back /\ Before' = Before
    BY <2>2, BeforeStays
  <2>4. OpeningTied => OpeningTied'
    BY <2>3 DEF OpeningTied
  <2>5. AsRead'
    BY <1>6, <2>1, <2>4 DEF AsRead, StatementInv, Reported, Reading
  <2>6. ~Shown'
    BY <1>6 DEF Reading, Shown
  <2> QED  BY <1>4, <1>5, <2>5, <2>6 DEF Reported, AsShown
<1>7. CASE Shown
  <2>1. during' = during /\ since' # {} /\ ~Reading'
    BY <1>7 DEF Touches, Reading, Shown
  <2>2. AsShown'
    BY <1>7, <2>1 DEF StatementInv, Reported, AsShown, AddsUpWhole, LeaseAgrees, PortfolioAgrees, Back
  <2> QED  BY <1>4, <1>5, <2>1, <2>2 DEF Reported, AsRead
<1>8. CASE report = NoRow
  BY <1>4, <1>5, <1>8 DEF Reported, AsRead, AsShown, Reading, Shown
<1> QED  BY <1>6, <1>7, <1>8 DEF Reading, Shown

LEMMA CreateBillStep ==
  ASSUME StatementInv, NEW b \in Bills, CreateBill(b)
  PROVE  StatementInv'
<1>1. PICK due \in Dates, amount \in BillAmounts :
        /\ bill[b] = NoRow
        /\ bill' = [bill EXCEPT ![b] = [due |-> due, amount |-> amount, voided |-> FALSE]]
        /\ Book([type |-> "charge", of |-> b, amount |-> amount, on |-> today])
        /\ Touches({due})
        /\ UNCHANGED <<today, money, report>>
  BY DEF CreateBill
<1> DEFINE new == [type |-> "charge", of |-> b, amount |-> amount, on |-> today]
<1>2. /\ [due |-> due, amount |-> amount, voided |-> FALSE] \in Bill
      /\ new.type = "charge" /\ new.of = b
  BY DEF Bill
<1>3. /\ bill' \in [Bills -> Bill \cup {NoRow}]
      /\ bill'[b] # NoRow /\ bill'[b].due = due
      /\ \A c \in Bills : c # b => bill'[c] = bill[c]
  BY <1>1, <1>2, NoRowIsNoRecord DEF StatementInv, StatementTyped
<1>4. StatementTyped'
  BY <1>1, <1>3 DEF StatementInv, StatementTyped
<1>5. entries' = entries \cup {new}
  BY <1>1 DEF Book
<1> HIDE DEF new
<1>6. RowsExist'
  BY <1>1, <1>2, <1>3, <1>5 DEF StatementInv, RowsExist
<1>7. \A e \in entries : EffectiveDate(e)' = EffectiveDate(e)
  BY <1>1, <1>3 DEF StatementInv, RowsExist, EffectiveDate
<1>8. \A e \in entries' \ entries : EffectiveDate(e)' \in {due}
  BY <1>2, <1>3, <1>5 DEF EffectiveDate
<1>9. Reported'
  BY <1>1, <1>4, <1>5, <1>6, <1>7, <1>8, WriteStays
<1> QED  BY <1>4, <1>6, <1>9 DEF StatementInv

LEMMA UpdateChargeStep ==
  ASSUME StatementInv, NEW b \in Bills, UpdateCharge(b)
  PROVE  StatementInv'
<1>1. PICK due \in Dates :
        /\ bill[b] # NoRow
        /\ bill' = [bill EXCEPT ![b].due = due]
        /\ Touches({due, bill[b].due})
        /\ UNCHANGED <<today, money, entries, report>>
  BY DEF UpdateCharge
<1>2. bill[b] \in Bill /\ bill[b].due \in Dates
  BY <1>1, DateFacts DEF StatementInv
<1>3. [bill[b] EXCEPT !.due = due] \in Bill /\ [bill[b] EXCEPT !.due = due].due = due
  BY <1>2 DEF Bill
<1>4. /\ bill' \in [Bills -> Bill \cup {NoRow}]
      /\ bill'[b] # NoRow /\ bill'[b].due = due
      /\ \A c \in Bills : c # b => bill'[c] = bill[c]
  BY <1>1, <1>3, NoRowIsNoRecord DEF StatementInv, StatementTyped
<1>5. StatementTyped'
  BY <1>1, <1>4 DEF StatementInv, StatementTyped
<1>6. RowsExist'
  BY <1>1, <1>4 DEF StatementInv, RowsExist
<1>7. \A e \in entries : \/ EffectiveDate(e)' = EffectiveDate(e)
                         \/ EffectiveDate(e) \in {due, bill[b].due} /\ EffectiveDate(e)' \in {due, bill[b].due}
  <2>1. ASSUME NEW e \in entries, e.type = "charge"
        PROVE  \/ EffectiveDate(e)' = EffectiveDate(e)
               \/ EffectiveDate(e) \in {due, bill[b].due} /\ EffectiveDate(e)' \in {due, bill[b].due}
    <3>1. EffectiveDate(e) = bill[e.of].due /\ EffectiveDate(e)' = bill'[e.of].due /\ e.of \in Bills
      BY <2>1 DEF EffectiveDate, StatementInv, RowsExist
    <3> QED  BY <1>4, <3>1
  <2>2. ASSUME NEW e \in entries, e.type # "charge"
        PROVE  EffectiveDate(e)' = EffectiveDate(e)
    BY <1>1, <2>2 DEF EffectiveDate, StatementInv, RowsExist
  <2> QED  BY <2>1, <2>2
<1>8. {due, bill[b].due} \in SUBSET Dates
  BY <1>2
<1>9. Reported'
  <2>1. PICK days : days = {due, bill[b].due}
    OBVIOUS
  <2> QED  BY <1>1, <1>5, <1>6, <1>7, <1>8, <2>1, WriteStays
<1> QED  BY <1>5, <1>6, <1>9 DEF StatementInv

LEMMA VoidChargeStep ==
  ASSUME StatementInv, NEW b \in Bills, VoidCharge(b)
  PROVE  StatementInv'
<1>1. /\ bill[b] # NoRow
      /\ bill' = [bill EXCEPT ![b].voided = TRUE]
      /\ Book([type |-> "credit", of |-> b, amount |-> -bill[b].amount, on |-> today])
      /\ Touches({today})
      /\ UNCHANGED <<today, money, report>>
  BY DEF VoidCharge
<1>2. PICK new : /\ new.type = "credit" /\ new.on = today
                 /\ entries' = entries \cup {new}
  BY <1>1 DEF Book
<1>3. bill[b] \in Bill
  BY <1>1, DateFacts DEF StatementInv
<1>4. [bill[b] EXCEPT !.voided = TRUE] \in Bill /\ [bill[b] EXCEPT !.voided = TRUE].due = bill[b].due
  BY <1>3 DEF Bill
<1>5. /\ bill' \in [Bills -> Bill \cup {NoRow}]
      /\ bill'[b] # NoRow /\ bill'[b].due = bill[b].due
      /\ \A c \in Bills : c # b => bill'[c] = bill[c]
  BY <1>1, <1>4, NoRowIsNoRecord DEF StatementInv, StatementTyped
<1>6. StatementTyped'
  BY <1>1, <1>5 DEF StatementInv, StatementTyped
<1>7. RowsExist'
  BY <1>1, <1>2, <1>5 DEF StatementInv, RowsExist
<1>8. \A e \in entries : EffectiveDate(e)' = EffectiveDate(e)
  BY <1>1, <1>5 DEF StatementInv, RowsExist, EffectiveDate
<1>9. \A e \in entries' \ entries : EffectiveDate(e)' \in {today}
  BY <1>2 DEF EffectiveDate
<1>10. Reported'
  <2>1. PICK days : days = {today}
    OBVIOUS
  <2>2. days \in SUBSET Dates
    BY <2>1 DEF StatementInv, StatementTyped
  <2> QED  BY <1>1, <1>2, <1>6, <1>7, <1>8, <1>9, <2>1, <2>2, WriteStays
<1> QED  BY <1>6, <1>7, <1>10 DEF StatementInv

(* Both ways in which money is booked.                                     *)
LEMMA MoneyStep ==
  ASSUME StatementInv, NEW m \in Moneys, NEW date \in Dates, NEW row \in Money, row.date = date,
         money[m] # NoRow => money[m].date = date,
         money' = [money EXCEPT ![m] = row],
         NEW new, new.type = "payment", new.of = m, entries' = entries \cup {new},
         Touches({date}),
         UNCHANGED <<today, bill, report>>
  PROVE  StatementInv'
<1>1. /\ money' \in [Moneys -> Money \cup {NoRow}]
      /\ money'[m] # NoRow /\ money'[m].date = date
      /\ \A n \in Moneys : n # m => money'[n] = money[n]
  BY NoRowIsNoRecord DEF StatementInv, StatementTyped
<1>2. StatementTyped'
  BY <1>1 DEF StatementInv, StatementTyped
<1>3. RowsExist'
  BY <1>1 DEF StatementInv, RowsExist
<1>4. \A e \in entries : EffectiveDate(e)' = EffectiveDate(e)
  BY <1>1 DEF StatementInv, RowsExist, EffectiveDate
<1>5. \A e \in entries' \ entries : EffectiveDate(e)' \in {date}
  BY <1>1 DEF EffectiveDate
<1>6. Reported'
  BY <1>2, <1>3, <1>4, <1>5, WriteStays
<1> QED  BY <1>2, <1>3, <1>6 DEF StatementInv

LEMMA RecordManualPaymentStep ==
  ASSUME StatementInv, NEW m \in Moneys, RecordManualPayment(m)
  PROVE  StatementInv'
<1>1. PICK date \in Dates, amount \in MoneyAmounts, b \in Bills \cup {NoRow} :
        /\ money[m] = NoRow
        /\ money' = [money EXCEPT ![m] = [date |-> date, amount |-> amount, bill |-> b, done |-> TRUE]]
        /\ Book([type |-> "payment", of |-> m, amount |-> -amount, on |-> today])
        /\ Touches({date})
        /\ UNCHANGED <<today, bill, report>>
  BY DEF RecordManualPayment
<1>2. PICK row \in Money : row = [date |-> date, amount |-> amount, bill |-> b, done |-> TRUE]
  BY DEF Money
<1>3. PICK new : new.type = "payment" /\ new.of = m /\ entries' = entries \cup {new}
  BY <1>1 DEF Book
<1> QED  BY <1>1, <1>2, <1>3, MoneyStep

LEMMA DebitSucceedsStep ==
  ASSUME StatementInv, NEW m \in Moneys, DebitSucceeds(m)
  PROVE  StatementInv'
<1>1. money[m] \in Money /\ money[m].date \in Dates /\ money[m] # NoRow
  BY DateFacts DEF StatementInv, DebitSucceeds
<1>2. PICK row : row = [money[m] EXCEPT !.done = TRUE]
  OBVIOUS
<1>6. row \in Money /\ row.date = money[m].date
  BY <1>1, <1>2 DEF Money
<1>3. PICK date \in Dates : date = money[m].date
  BY <1>1
<1>4. money' = [money EXCEPT ![m] = row]
  BY <1>2 DEF DebitSucceeds
<1>5. PICK new : new.type = "payment" /\ new.of = m /\ entries' = entries \cup {new}
  BY DEF DebitSucceeds, Book
<1> QED  BY <1>1, <1>3, <1>4, <1>5, <1>6, MoneyStep DEF DebitSucceeds

-----------------------------------------------------------------------------
(* The ledger adds up to the rows, whatever is written.                    *)

LEMMA RowFacts ==
  ASSUME StatementTyped
  PROVE  /\ \A b \in Existing : bill[b].amount \in Int /\ bill[b].amount > 0 /\ bill[b].voided \in BOOLEAN
         /\ \A m \in Known : money[m].amount \in Int /\ money[m].amount > 0 /\ money[m].done \in BOOLEAN
<1>1. \A b \in Existing : bill[b] \in Bill
  BY DEF StatementTyped, Existing
<1>2. \A m \in Known : money[m] \in Money
  BY DEF StatementTyped, Known
<1> QED  BY <1>1, <1>2, StatementBounds DEF Bill, Money

(* The sums are numbers.                                                   *)
LEMMA SumsAreNumbers ==
  ASSUME StatementTyped, BooksAgree
  PROVE  /\ \A S \in SUBSET Existing : IsFiniteSet(S) /\ RowSum(bill, S) \in Int
         /\ \A S \in SUBSET Known : IsFiniteSet(S) /\ RowSum(money, S) \in Int
<1>1. IsFiniteSet(Existing) /\ IsFiniteSet(Known)
  BY DEF BooksAgree
<1>2. ASSUME NEW S \in SUBSET Existing PROVE RowSum(bill, S) \in Int
  <2>1. PICK h, D : h = bill /\ D = Existing
    OBVIOUS
  <2>2. \A b \in D : h[b].amount \in Int
    BY <2>1, RowFacts
  <2> QED  BY <1>1, <2>1, <2>2, RowSumType
<1>3. ASSUME NEW S \in SUBSET Known PROVE RowSum(money, S) \in Int
  <2>1. PICK h, D : h = money /\ D = Known
    OBVIOUS
  <2>2. \A m \in D : h[m].amount \in Int
    BY <2>1, RowFacts
  <2> QED  BY <1>1, <2>1, <2>2, RowSumType
<1> QED  BY <1>1, <1>2, <1>3, FS_Subset

(* An entry is booked.                                                     *)
LEMMA BookedSum ==
  ASSUME BooksAgree, NEW new, new \notin entries, new.amount \in Int, entries' = entries \cup {new}
  PROVE  Sum(entries') = new.amount + Sum(entries) /\ Sum(entries) \in Int
<1>1. PICK A : A = entries
  OBVIOUS
<1>2. IsFiniteSet(A) /\ \A e \in A : e.amount \in Int
  BY <1>1 DEF BooksAgree, EntriesSay
<1>3. Sum(A \cup {new}) = new.amount + Sum(A) /\ Sum(A) \in Int
  BY <1>1, <1>2, SumOfOneMore
<1> QED  BY <1>1, <1>3

(* Entries are in two parts.                                               *)
LEMMA EntryParts ==
  ASSUME BooksAgree, NEW S \in SUBSET entries, NEW T \in SUBSET entries, S \cap T = {}
  PROVE  Sum(S \cup T) = Sum(S) + Sum(T) /\ Sum(S) \in Int /\ Sum(T) \in Int
<1>1. PICK D : D = entries
  OBVIOUS
<1>2. IsFiniteSet(D) /\ \A e \in D : e.amount \in Int
  BY <1>1 DEF BooksAgree, EntriesSay
<1>3. S \in SUBSET D /\ T \in SUBSET D
  BY <1>1
<1> QED  BY <1>2, <1>3, SumParts

LEMMA CreateBillBooks ==
  ASSUME StatementInv, BooksAgree, NEW b \in Bills, CreateBill(b)
  PROVE  BooksAgree'
<1>1. PICK due \in Dates, amount \in BillAmounts :
        /\ bill[b] = NoRow
        /\ bill' = [bill EXCEPT ![b] = [due |-> due, amount |-> amount, voided |-> FALSE]]
        /\ Book([type |-> "charge", of |-> b, amount |-> amount, on |-> today])
        /\ UNCHANGED <<today, money, report>>
  BY DEF CreateBill
<1>2. PICK new : new.type = "charge" /\ new.of = b /\ new.amount = amount /\ entries' = entries \cup {new}
  BY <1>1 DEF Book
<1>3. /\ bill'[b] # NoRow /\ bill'[b].amount = amount /\ bill'[b].voided = FALSE
      /\ \A c \in Bills : c # b => bill'[c] = bill[c]
      /\ amount \in Int
  <2>1. PICK row : row = [due |-> due, amount |-> amount, voided |-> FALSE]
    OBVIOUS
  <2>2. row \in Bill /\ row.amount = amount /\ row.voided = FALSE
    BY <2>1 DEF Bill
  <2>3. bill' = [bill EXCEPT ![b] = row] /\ row # NoRow
    BY <1>1, <2>1, <2>2, NoRowIsNoRecord
  <2>4. amount \in Int
    BY StatementBounds
  <2> QED  BY <2>2, <2>3, <2>4 DEF StatementInv, StatementTyped
<1>4. new \notin entries
  BY <1>1, <1>2 DEF StatementInv, RowsExist
<1>5. Existing' = Existing \cup {b} /\ b \notin Existing /\ Known' = Known
  BY <1>1, <1>3 DEF Existing, Known
<1>6. OpenBills' = OpenBills \cup {b} /\ Arrived' = Arrived /\ b \notin OpenBills
  BY <1>1, <1>3, <1>5 DEF OpenBills, Arrived, Existing
<1>7. IsFiniteSet(entries') /\ IsFiniteSet(Existing') /\ IsFiniteSet(Known') /\ IsFiniteSet(OpenBills)
  BY <1>2, <1>5, FS_AddElement, FS_Subset DEF BooksAgree, OpenBills
<1>8. EntriesSay'
  BY <1>1, <1>2, <1>3, <1>5, <1>6 DEF BooksAgree, EntriesSay, Existing
<1>9. \A m \in Known' : money'[m].bill \in Existing' \cup {NoRow}
  BY <1>1, <1>5 DEF BooksAgree
<1>10. Sum(entries') = amount + Sum(entries) /\ Sum(entries) \in Int
  <2>1. new.amount = amount /\ new.amount \in Int
    BY <1>2, <1>3
  <2>2. Sum(entries') = new.amount + Sum(entries) /\ Sum(entries) \in Int
    BY <1>2, <1>4, <2>1, BookedSum
  <2> QED  BY <2>1, <2>2
<1>11. RowSum(bill', OpenBills') = amount + RowSum(bill, OpenBills) /\ RowSum(bill, OpenBills) \in Int
  <2>1. \A c \in OpenBills : bill'[c].amount = bill[c].amount /\ bill[c].amount \in Int
    BY <1>3, <1>6, RowFacts DEF StatementInv, OpenBills, Existing
  <2>2. PICK h, g, S : h = bill /\ g = bill' /\ S = OpenBills
    OBVIOUS
  <2>3. RowSum(g, S \cup {b}) = g[b].amount + RowSum(h, S) /\ RowSum(h, S) \in Int
    BY <1>3, <1>6, <1>7, <2>1, <2>2, RowSumMore
  <2> QED  BY <1>3, <1>6, <2>2, <2>3
<1>12. RowSum(money', Arrived') = RowSum(money, Arrived) /\ RowSum(money, Arrived) \in Int
  BY <1>1, <1>6, SumsAreNumbers DEF StatementInv, Arrived
<1> QED  BY <1>3, <1>7, <1>8, <1>9, <1>10, <1>11, <1>12 DEF BooksAgree

LEMMA UpdateChargeBooks ==
  ASSUME StatementInv, BooksAgree, NEW b \in Bills, UpdateCharge(b)
  PROVE  BooksAgree'
<1>1. PICK due \in Dates :
        /\ bill[b] # NoRow
        /\ bill' = [bill EXCEPT ![b].due = due]
        /\ UNCHANGED <<today, money, entries, report>>
  BY DEF UpdateCharge
<1>2. /\ bill'[b] # NoRow /\ bill'[b].amount = bill[b].amount /\ bill'[b].voided = bill[b].voided
      /\ \A c \in Bills : c # b => bill'[c] = bill[c]
  <2>1. bill[b] \in Bill
    BY <1>1, DateFacts DEF StatementInv
  <2>2. PICK row : row = [bill[b] EXCEPT !.due = due]
    OBVIOUS
  <2>3. row \in Bill /\ row.amount = bill[b].amount /\ row.voided = bill[b].voided
    BY <2>1, <2>2 DEF Bill
  <2>4. bill' = [bill EXCEPT ![b] = row] /\ row # NoRow
    BY <1>1, <2>2, <2>3, NoRowIsNoRecord
  <2> QED  BY <2>3, <2>4 DEF StatementInv, StatementTyped
<1>3. Existing' = Existing /\ Known' = Known /\ OpenBills' = OpenBills /\ Arrived' = Arrived
  BY <1>1, <1>2 DEF Existing, Known, OpenBills, Arrived
<1>4. EntriesSay'
  BY <1>1, <1>2, <1>3 DEF BooksAgree, EntriesSay, Existing
<1>5. RowSum(bill', OpenBills') = RowSum(bill, OpenBills)
  <2>1. PICK h, g, S : h = bill /\ g = bill' /\ S = OpenBills
    OBVIOUS
  <2>2. \A c \in S : g[c].amount = h[c].amount
    BY <1>2, <2>1 DEF OpenBills, Existing
  <2>3. IsFiniteSet(S)
    BY <2>1, SumsAreNumbers DEF StatementInv, OpenBills
  <2> QED  BY <1>3, <2>1, <2>2, <2>3, RowSumSame
<1> QED  BY <1>1, <1>3, <1>4, <1>5 DEF BooksAgree

LEMMA VoidChargeBooks ==
  ASSUME StatementInv, BooksAgree, NEW b \in Bills, VoidCharge(b)
  PROVE  BooksAgree'
<1>1. /\ bill[b] # NoRow /\ ~bill[b].voided
      /\ bill' = [bill EXCEPT ![b].voided = TRUE]
      /\ Book([type |-> "credit", of |-> b, amount |-> -bill[b].amount, on |-> today])
      /\ UNCHANGED <<today, money, report>>
  BY DEF VoidCharge
<1>2. PICK new : /\ new.type = "credit" /\ new.of = b /\ new.amount = -bill[b].amount
                 /\ new.on = today
                 /\ entries' = entries \cup {new}
  BY <1>1 DEF Book
<1>3. /\ bill'[b] # NoRow /\ bill'[b].amount = bill[b].amount /\ bill'[b].voided
      /\ \A c \in Bills : c # b => bill'[c] = bill[c]
  <2>1. bill[b] \in Bill
    BY <1>1, DateFacts DEF StatementInv
  <2>2. PICK row : row = [bill[b] EXCEPT !.voided = TRUE]
    OBVIOUS
  <2>3. row \in Bill /\ row.amount = bill[b].amount /\ row.voided
    BY <2>1, <2>2 DEF Bill
  <2>4. bill' = [bill EXCEPT ![b] = row] /\ row # NoRow
    BY <1>1, <2>2, <2>3, NoRowIsNoRecord
  <2> QED  BY <2>3, <2>4 DEF StatementInv, StatementTyped
<1>4. new \notin entries
  BY <1>1, <1>2 DEF BooksAgree, EntriesSay
<1>5. bill[b].amount \in Int /\ bill[b].amount > 0
  BY <1>1, RowFacts DEF StatementInv, Existing
<1>6. Existing' = Existing /\ Known' = Known /\ Arrived' = Arrived
  BY <1>1, <1>3 DEF Existing, Known, Arrived
<1>7. OpenBills = OpenBills' \cup {b} /\ b \notin OpenBills'
  BY <1>1, <1>3, <1>6 DEF OpenBills, Existing
<1>8. IsFiniteSet(OpenBills') /\ IsFiniteSet(entries')
  <2>1. IsFiniteSet(OpenBills)
    BY SumsAreNumbers DEF StatementInv, OpenBills
  <2> QED  BY <1>2, <1>7, <2>1, FS_Subset, FS_AddElement DEF BooksAgree
<1>9. EntriesSay'
  <2>1. today \in Dates
    BY DEF StatementInv, StatementTyped
  <2> QED  BY <1>1, <1>2, <1>3, <1>5, <1>6, <2>1 DEF BooksAgree, EntriesSay, Existing
<1>10. Sum(entries') = -bill[b].amount + Sum(entries) /\ Sum(entries) \in Int
  <2>1. new.amount = -bill[b].amount /\ new.amount \in Int
    BY <1>2, <1>5
  <2>2. Sum(entries') = new.amount + Sum(entries) /\ Sum(entries) \in Int
    BY <1>2, <1>4, <2>1, BookedSum
  <2> QED  BY <2>1, <2>2
<1>11. RowSum(bill, OpenBills) = bill[b].amount + RowSum(bill', OpenBills') /\ RowSum(bill', OpenBills') \in Int
  <2>1. PICK h, g, S : h = bill' /\ g = bill /\ S = OpenBills'
    OBVIOUS
  <2>2. \A c \in S : g[c].amount = h[c].amount /\ h[c].amount \in Int
    BY <1>3, <1>6, <1>7, <2>1, RowFacts DEF StatementInv, OpenBills, Existing
  <2>3. RowSum(g, S \cup {b}) = g[b].amount + RowSum(h, S) /\ RowSum(h, S) \in Int
    BY <1>5, <1>7, <1>8, <2>1, <2>2, RowSumMore
  <2> QED  BY <1>7, <2>1, <2>3
<1>12. RowSum(money', Arrived') = RowSum(money, Arrived) /\ RowSum(money, Arrived) \in Int
  BY <1>1, <1>6, SumsAreNumbers DEF StatementInv, Arrived
<1> QED  BY <1>1, <1>5, <1>6, <1>8, <1>9, <1>10, <1>11, <1>12 DEF BooksAgree

(* Both ways in which money is booked.                                     *)
LEMMA MoneyBooks ==
  ASSUME StatementInv, BooksAgree, NEW m \in Moneys, NEW row \in Money, row.done,
         m \notin Arrived, row.bill \in Existing \cup {NoRow},
         money' = [money EXCEPT ![m] = row],
         NEW new, new.type = "payment", new.of = m, new.amount = -row.amount,
         entries' = entries \cup {new}, UNCHANGED bill
  PROVE  BooksAgree'
<1>1. /\ money'[m] = row /\ money'[m] # NoRow
      /\ \A n \in Moneys : n # m => money'[n] = money[n]
  BY NoRowIsNoRecord DEF StatementInv, StatementTyped
<1>2. row.amount \in Int /\ row.amount > 0
  BY StatementBounds DEF Money
<1>3. new \notin entries
  BY DEF BooksAgree, EntriesSay
<1>4. Existing' = Existing /\ OpenBills' = OpenBills /\ Known' = Known \cup {m}
  BY <1>1 DEF Existing, OpenBills, Known
<1>5. Arrived' = Arrived \cup {m}
  BY <1>1, <1>4 DEF Arrived, Known
<1>6. IsFiniteSet(entries') /\ IsFiniteSet(Known')
  BY <1>4, FS_AddElement DEF BooksAgree
<1>7. EntriesSay'
  BY <1>2, <1>4, <1>5 DEF BooksAgree, EntriesSay
<1>8. \A n \in Known' : money'[n].bill \in Existing' \cup {NoRow}
  BY <1>1, <1>4 DEF BooksAgree, Known
<1>9. Sum(entries') = -row.amount + Sum(entries) /\ Sum(entries) \in Int
  <2>1. new.amount = -row.amount /\ new.amount \in Int
    BY <1>2
  <2>2. Sum(entries') = new.amount + Sum(entries) /\ Sum(entries) \in Int
    BY <1>3, <2>1, BookedSum
  <2> QED  BY <2>1, <2>2
<1>10. RowSum(money', Arrived') = row.amount + RowSum(money, Arrived) /\ RowSum(money, Arrived) \in Int
  <2>1. PICK h, g, S : h = money /\ g = money' /\ S = Arrived
    OBVIOUS
  <2>2. \A n \in S : g[n].amount = h[n].amount /\ h[n].amount \in Int
    BY <1>1, <2>1, RowFacts DEF StatementInv, Arrived, Known
  <2>3. IsFiniteSet(S)
    BY <2>1, SumsAreNumbers DEF StatementInv, Arrived
  <2>4. m \notin S /\ g[m].amount = row.amount /\ g[m].amount \in Int
    BY <1>1, <1>2, <2>1
  <2>5. RowSum(g, S \cup {m}) = g[m].amount + RowSum(h, S) /\ RowSum(h, S) \in Int
    BY <2>2, <2>3, <2>4, RowSumMore
  <2> QED  BY <1>5, <2>1, <2>4, <2>5
<1>11. RowSum(bill', OpenBills') = RowSum(bill, OpenBills) /\ RowSum(bill, OpenBills) \in Int
  BY <1>4, SumsAreNumbers DEF StatementInv, OpenBills
<1> QED  BY <1>2, <1>4, <1>6, <1>7, <1>8, <1>9, <1>10, <1>11 DEF BooksAgree

LEMMA RecordManualPaymentBooks ==
  ASSUME StatementInv, BooksAgree, NEW m \in Moneys, RecordManualPayment(m)
  PROVE  BooksAgree'
<1>1. PICK date \in Dates, amount \in MoneyAmounts, b \in Bills \cup {NoRow} :
        /\ money[m] = NoRow
        /\ b # NoRow => bill[b] # NoRow
        /\ money' = [money EXCEPT ![m] = [date |-> date, amount |-> amount, bill |-> b, done |-> TRUE]]
        /\ Book([type |-> "payment", of |-> m, amount |-> -amount, on |-> today])
        /\ UNCHANGED <<today, bill, report>>
  BY DEF RecordManualPayment
<1>2. PICK row \in Money : row = [date |-> date, amount |-> amount, bill |-> b, done |-> TRUE]
  BY DEF Money
<1>3. PICK new : new.type = "payment" /\ new.of = m /\ new.amount = -row.amount /\ entries' = entries \cup {new}
  BY <1>1, <1>2 DEF Book
<1>4. row.done /\ m \notin Arrived /\ row.bill \in Existing \cup {NoRow}
  BY <1>1, <1>2 DEF Arrived, Known, Existing
<1> QED  BY <1>1, <1>2, <1>3, <1>4, MoneyBooks

LEMMA DebitSucceedsBooks ==
  ASSUME StatementInv, BooksAgree, NEW m \in Moneys, DebitSucceeds(m)
  PROVE  BooksAgree'
<1>1. money[m] \in Money /\ m \in Known /\ ~money[m].done
  BY DateFacts DEF StatementInv, DebitSucceeds, Known
<1>2. PICK row : row = [money[m] EXCEPT !.done = TRUE]
  OBVIOUS
<1>3. row \in Money /\ row.done /\ row.amount = money[m].amount /\ row.bill = money[m].bill
  BY <1>1, <1>2 DEF Money
<1>4. money' = [money EXCEPT ![m] = row] /\ UNCHANGED bill
  BY <1>2 DEF DebitSucceeds
<1>5. PICK new : new.type = "payment" /\ new.of = m /\ new.amount = -row.amount /\ entries' = entries \cup {new}
  BY <1>3 DEF DebitSucceeds, Book
<1>6. m \notin Arrived /\ row.bill \in Existing \cup {NoRow}
  BY <1>1, <1>3 DEF Arrived, BooksAgree
<1> QED  BY <1>3, <1>4, <1>5, <1>6, MoneyBooks

(* A debit that is started is not booked.                                  *)
LEMMA DebitIsStarted ==
  ASSUME StatementInv, NEW m \in Moneys, StartDebit(m)
  PROVE  /\ UNCHANGED <<today, bill, entries, report, during, since>>
         /\ money' \in [Moneys -> Money \cup {NoRow}]
         /\ money[m] = NoRow /\ money'[m] # NoRow /\ ~money'[m].done
         /\ money'[m].bill \in Existing \cup {NoRow}
         /\ \A n \in Moneys : n # m => money'[n] = money[n]
<1>1. PICK b \in Bills \cup {NoRow}, amount \in MoneyAmounts :
        /\ money[m] = NoRow
        /\ b # NoRow => bill[b] # NoRow
        /\ money' = [money EXCEPT ![m] = [date |-> today, amount |-> amount, bill |-> b, done |-> FALSE]]
        /\ UNCHANGED <<today, bill, entries, report, during, since>>
  BY DEF StartDebit
<1>2. PICK row : row = [date |-> today, amount |-> amount, bill |-> b, done |-> FALSE]
  OBVIOUS
<1>3. row \in Money /\ row # NoRow /\ ~row.done /\ row.bill = b
  <2>1. row \in Money
    BY <1>2 DEF Money, StatementInv, StatementTyped
  <2> QED  BY <1>2, <2>1, NoRowIsNoRecord
<1>4. money' = [money EXCEPT ![m] = row] /\ money[m] = NoRow
  BY <1>1, <1>2
<1>5. b \in Existing \cup {NoRow}
  BY <1>1 DEF Existing
<1> QED  BY <1>1, <1>3, <1>4, <1>5 DEF StatementInv, StatementTyped

LEMMA StartDebitBooks ==
  ASSUME StatementInv, BooksAgree, NEW m \in Moneys, StartDebit(m)
  PROVE  /\ BooksAgree'
         /\ Arrived' = Arrived
         /\ \A S \in SUBSET Arrived : RowSum(money', S) = RowSum(money, S)
<1>1. Existing' = Existing /\ OpenBills' = OpenBills /\ Known' = Known \cup {m}
  BY DebitIsStarted DEF Existing, OpenBills, Known
<1>2. Arrived' = Arrived /\ m \notin Arrived
  BY <1>1, DebitIsStarted DEF Arrived, Known
<1>3. \A S \in SUBSET Arrived : RowSum(money', S) = RowSum(money, S)
  <2> TAKE S \in SUBSET Arrived
  <2>1. IsFiniteSet(S)
    BY SumsAreNumbers DEF StatementInv, Arrived
  <2>2. PICK h, g : h = money /\ g = money'
    OBVIOUS
  <2>3. \A n \in S : g[n].amount = h[n].amount
    BY <1>2, <2>2, DebitIsStarted DEF Arrived, Known
  <2> QED  BY <2>1, <2>2, <2>3, RowSumSame
<1>4. EntriesSay'
  BY <1>1, <1>2, DebitIsStarted DEF BooksAgree, EntriesSay
<1>5. \A n \in Known' : money'[n].bill \in Existing' \cup {NoRow}
  BY <1>1, DebitIsStarted DEF BooksAgree, Known
<1>6. IsFiniteSet(Known')
  BY <1>1, FS_AddElement DEF BooksAgree
<1>7. RowSum(money', Arrived') = RowSum(money, Arrived)
  BY <1>2, <1>3
<1> QED  BY <1>1, <1>2, <1>3, <1>4, <1>5, <1>6, <1>7, DebitIsStarted DEF BooksAgree

-----------------------------------------------------------------------------
(* What the figures of a report have to do with each other when they are   *)
(* of one moment.                                                          *)

LEMMA EffectiveDates ==
  ASSUME StatementTyped, RowsExist, BooksAgree
  PROVE  \A e \in entries : EffectiveDate(e) \in Int
<1> TAKE e \in entries
<1>1. e.type \in {"charge", "payment", "credit"}
  BY DEF RowsExist
<1>2. CASE e.type = "charge"
  BY <1>2, DateFacts DEF EffectiveDate, RowsExist
<1>3. CASE e.type = "payment"
  BY <1>3, DateFacts DEF EffectiveDate, RowsExist
<1>4. CASE e.type = "credit"
  BY <1>4, DateFacts DEF EffectiveDate, BooksAgree, EntriesSay
<1> QED  BY <1>1, <1>2, <1>3, <1>4

(* What was before a period and what is in it make what it ends with.      *)
LEMMA OpeningAndActivity ==
  ASSUME StatementTyped, RowsExist, BooksAgree, report # NoRow, report.kind = "lease"
  PROVE  /\ Before \in Int /\ Sum(Listed) \in Int
         /\ Sum(InRange(NoRow, report.to)) = Before + Sum(Listed)
         /\ report.to = NoRow => InRange(NoRow, report.to) = entries
<1>1. PICK from, to : from = report.from /\ to = report.to
  OBVIOUS
<1>2. /\ from \in Dates \cup {NoRow} /\ to \in Dates \cup {NoRow}
      /\ NoRow \notin {from, to} => from <= to
  BY <1>1 DEF StatementTyped
<1>3. InRange(NoRow, NoRow) = entries
  BY DEF InRange
<1> DEFINE earlier == {e \in entries : from # NoRow /\ EffectiveDate(e) < from}
<1>4. InRange(NoRow, to) = earlier \cup InRange(from, to) /\ earlier \cap InRange(from, to) = {}
  BY <1>2, EffectiveDates, DateFacts DEF InRange
<1>5. earlier \in SUBSET entries /\ InRange(from, to) \in SUBSET entries
  BY DEF InRange
<1>6. Before = Sum(earlier)
  <2>1. CASE from = NoRow
    <3>1. earlier = {}
      BY <2>1
    <3> HIDE DEF earlier
    <3> QED  BY <1>1, <2>1, <3>1, SumOfNone DEF Before
  <2>2. CASE from # NoRow
    <3>1. earlier = {e \in entries : EffectiveDate(e) < from}
      BY <2>2
    <3> HIDE DEF earlier
    <3> QED  BY <1>1, <2>2, <3>1 DEF Before, BalanceBeforeDate
  <2> QED  BY <2>1, <2>2
<1>7. Listed = InRange(from, to)
  BY <1>1 DEF Listed
<1> HIDE DEF earlier
<1>8. PICK A, B : A = earlier /\ B = InRange(from, to)
  OBVIOUS
<1>9. Sum(A \cup B) = Sum(A) + Sum(B) /\ Sum(A) \in Int /\ Sum(B) \in Int
  BY <1>4, <1>5, <1>8, EntryParts
<1> QED  BY <1>1, <1>3, <1>4, <1>6, <1>7, <1>8, <1>9

(* What is due is the balance without what falls due later, and before     *)
(* what was paid ahead or for no charge.                                   *)
LEMMA DueAndBalance ==
  ASSUME StatementTyped, BooksAgree
  PROVE  AmountDueNow = Sum(entries) - RowSum(bill, Later) + RowSum(money, Ahead)
<1> DEFINE due  == {b \in DueBy(today) : ~bill[b].voided}
           paid == UNION {PaidOn(b) : b \in DueBy(today)}
<1>1. today \in Int /\ \A b \in Existing : bill[b].due \in Int /\ b \in Bills /\ b # NoRow
  <2>1. \A b \in Existing : bill[b].due \in Dates /\ b \in Bills
    BY DateFacts DEF Existing
  <2> QED  BY <2>1, DateFacts, StatementBounds DEF StatementTyped
<1>2. OpenBills = due \cup Later /\ due \cap Later = {}
  BY <1>1 DEF OpenBills, Existing, DueBy, Later
<1>3. \A m \in Moneys : m \in Arrived <=> Completed(m)
  BY DEF Arrived, Known, Completed
<1>4. Arrived = paid \cup Ahead /\ paid \cap Ahead = {}
  <2>1. \A m : m \in paid <=> /\ m \in Arrived /\ money[m].bill \in Existing
                             /\ bill[money[m].bill].due <= today
    BY <1>3 DEF PaidOn, DueBy, Existing, Arrived, Known
  <2>2. \A m \in Arrived : money[m].bill \in Existing \/ money[m].bill = NoRow
    BY DEF BooksAgree, Arrived
  <2>3. \A m : m \in Ahead <=> m \in Arrived /\ ~(money[m].bill \in Existing /\ bill[money[m].bill].due <= today)
    BY <1>1, <2>2 DEF Ahead
  <2> QED  BY <2>1, <2>3
<1>5. OpenBills \in SUBSET Existing /\ Arrived \in SUBSET Known
  BY DEF OpenBills, Arrived
<1> HIDE DEF due, paid
<1>6. RowSum(bill, OpenBills) = RowSum(bill, due) + RowSum(bill, Later)
      /\ RowSum(bill, due) \in Int /\ RowSum(bill, Later) \in Int
  <2>1. PICK D, A, B, h : D = Existing /\ A = due /\ B = Later /\ h = bill
    OBVIOUS
  <2>2. IsFiniteSet(D) /\ A \in SUBSET D /\ B \in SUBSET D /\ A \cap B = {} /\ OpenBills = A \cup B
    BY <1>2, <1>5, <2>1 DEF BooksAgree
  <2>3. \A b \in D : h[b].amount \in Int
    BY <2>1, RowFacts
  <2>4. RowSum(h, A \cup B) = RowSum(h, A) + RowSum(h, B) /\ RowSum(h, A) \in Int /\ RowSum(h, B) \in Int
    BY <2>2, <2>3, RowSumParts
  <2> QED  BY <2>1, <2>2, <2>4
<1>7. RowSum(money, Arrived) = RowSum(money, paid) + RowSum(money, Ahead)
      /\ RowSum(money, paid) \in Int /\ RowSum(money, Ahead) \in Int
  <2>1. PICK D, A, B, h : D = Known /\ A = paid /\ B = Ahead /\ h = money
    OBVIOUS
  <2>2. IsFiniteSet(D) /\ A \in SUBSET D /\ B \in SUBSET D /\ A \cap B = {} /\ Arrived = A \cup B
    BY <1>4, <1>5, <2>1 DEF BooksAgree
  <2>3. \A m \in D : h[m].amount \in Int
    BY <2>1, RowFacts
  <2>4. RowSum(h, A \cup B) = RowSum(h, A) + RowSum(h, B) /\ RowSum(h, A) \in Int /\ RowSum(h, B) \in Int
    BY <2>2, <2>3, RowSumParts
  <2> QED  BY <2>1, <2>2, <2>4
<1>8. AmountDueNow = RowSum(bill, due) - RowSum(money, paid)
  BY TableSums DEF AmountDueNow, due, paid
<1>9. Sum(entries) = RowSum(bill, OpenBills) - RowSum(money, Arrived)
  BY DEF BooksAgree
<1> QED  BY <1>6, <1>7, <1>8, <1>9

(* Charges, payments and credits make up the movement of a period.         *)
LEMMA KindsAddUp ==
  ASSUME RowsExist, BooksAgree, NEW part \in SUBSET entries
  PROVE  Sum(part) = KindOf(part, "charge") - Absolute(KindOf(part, "payment")) - Absolute(KindOf(part, "credit"))
<1> DEFINE Of(type) == {e \in part : e.type = type}
<1>1. IsFiniteSet(entries) /\ \A e \in entries : e.amount \in Int /\ (e.type # "charge" => e.amount <= 0)
  BY DEF BooksAgree, EntriesSay
<1>2. part = Of("charge") \cup (Of("payment") \cup Of("credit"))
  BY DEF RowsExist
<1>3. /\ Of("charge") \cap (Of("payment") \cup Of("credit")) = {}
      /\ Of("payment") \cap Of("credit") = {}
  OBVIOUS
<1>4. \A type \in {"payment", "credit"} : KindOf(part, type) \in Int /\ KindOf(part, type) <= 0
  <2> TAKE type \in {"payment", "credit"}
  <2>1. IsFiniteSet(Of(type)) /\ \A e \in Of(type) : e.amount \in Int /\ e.amount <= 0
    BY <1>1, FS_Subset
  <2> HIDE DEF Of
  <2>2. Sum(Of(type)) \in Int /\ Sum(Of(type)) <= 0
    BY <2>1, SumOfDebts
  <2> QED  BY <2>2 DEF KindOf, Of
<1>5. \A type : Of(type) \in SUBSET entries
  OBVIOUS
<1> HIDE DEF Of
<1>6. PICK A, B, C : A = Of("charge") /\ B = Of("payment") /\ C = Of("credit")
  OBVIOUS
<1>7. /\ A \in SUBSET entries /\ B \in SUBSET entries /\ C \in SUBSET entries /\ B \cup C \in SUBSET entries
      /\ part = A \cup (B \cup C) /\ A \cap (B \cup C) = {} /\ B \cap C = {}
  BY <1>2, <1>3, <1>5, <1>6
<1>8. Sum(A \cup (B \cup C)) = Sum(A) + Sum(B \cup C) /\ Sum(A) \in Int
  <2>1. PICK D \in SUBSET entries : D = B \cup C
    BY <1>7
  <2>2. Sum(A \cup D) = Sum(A) + Sum(D) /\ Sum(A) \in Int
    BY <1>7, <2>1, EntryParts
  <2> QED  BY <2>1, <2>2
<1>9. Sum(B \cup C) = Sum(B) + Sum(C)
  BY <1>7, EntryParts
<1>10. /\ KindOf(part, "charge") = Sum(A)
       /\ KindOf(part, "payment") = Sum(B)
       /\ KindOf(part, "credit") = Sum(C)
  BY <1>6 DEF KindOf, Of
<1>11. /\ Absolute(KindOf(part, "payment")) = -Sum(B)
       /\ Absolute(KindOf(part, "credit")) = -Sum(C)
       /\ Sum(B) \in Int /\ Sum(C) \in Int
  BY <1>4, <1>10 DEF Absolute
<1>12. Sum(part) = Sum(A) + (Sum(B) + Sum(C))
  BY <1>7, <1>8, <1>9
<1> QED  BY <1>8, <1>10, <1>11, <1>12

LEMMA StartDebitStep ==
  ASSUME StatementInv, BooksAgree, NEW m \in Moneys, StartDebit(m)
  PROVE  StatementInv'
<1>1. UNCHANGED <<today, bill, entries, report, during, since>>
  BY DebitIsStarted
<1>2. StatementTyped' /\ RowsExist'
  BY <1>1, DebitIsStarted DEF StatementInv, StatementTyped, RowsExist
<1>3. \A e \in entries : EffectiveDate(e)' = EffectiveDate(e)
  BY <1>1, DebitIsStarted DEF StatementInv, RowsExist, EffectiveDate
<1>4. Listed' = Listed /\ InRange(NoRow, report.to)' = InRange(NoRow, report.to)
      /\ InRange(report.from, report.to)' = InRange(report.from, report.to)
  BY <1>1, <1>3 DEF Listed, InRange
<1>5. Undisturbed' => Undisturbed
  BY <1>1 DEF Undisturbed
<1>6. FiguresHold'
  BY <1>1, <1>4, <1>5, FiguresStay
<1>7. Before' = Before
  <2>1. PICK from : from = report.from
    OBVIOUS
  <2>2. {e \in entries : EffectiveDate(e) < from} = {e \in entries' : EffectiveDate(e)' < from}
    BY <1>1, <1>3
  <2> QED  BY <1>1, <2>1, <2>2 DEF Before, BalanceBeforeDate
<1>8. Later' = Later /\ Ahead' = Ahead
  <2>1. Arrived' = Arrived
    BY StartDebitBooks
  <2>2. \A n \in Arrived : money'[n] = money[n]
    BY DebitIsStarted DEF Arrived, Known
  <2> QED  BY <1>1, <2>1, <2>2 DEF Later, Ahead, OpenBills, Existing
<1>9. RowSum(money', Ahead') = RowSum(money, Ahead) /\ RowSum(bill', Later') = RowSum(bill, Later)
  BY <1>1, <1>8, StartDebitBooks DEF Ahead
<1>10. AsRead'
  <2>1. OpeningTied => OpeningTied'
    BY <1>1, <1>7 DEF OpeningTied, Back
  <2>2. LeaseTied => LeaseTied'
    BY <1>1, <1>9 DEF LeaseTied
  <2>3. PortfolioTied => PortfolioTied'
    BY <1>1, <1>4 DEF PortfolioTied, KindOf
  <2> QED  BY <1>1, <2>1, <2>2, <2>3 DEF StatementInv, Reported, AsRead, Reading
<1>11. AsShown'
  BY <1>1, <1>4, <1>9 DEF StatementInv, Reported, AsShown, Shown, AddsUpWhole, LeaseAgrees, PortfolioAgrees, Back
<1> QED  BY <1>1, <1>2, <1>6, <1>10, <1>11 DEF StatementInv, Reported

LEMMA TomorrowStep ==
  ASSUME StatementInv, Tomorrow
  PROVE  StatementInv'
<1>1. today' \in Dates /\ Touches({today'}) /\ UNCHANGED <<bill, money, entries, report>>
  BY StatementBounds DEF Tomorrow, StatementInv, StatementTyped, Dates, books
<1>2. StatementTyped' /\ RowsExist'
  BY <1>1 DEF StatementInv, StatementTyped, RowsExist
<1>3. PICK days : days = {today'}
  OBVIOUS
<1>4. \A e \in entries : EffectiveDate(e)' = EffectiveDate(e)
  BY <1>1 DEF EffectiveDate
<1>5. days \in SUBSET Dates /\ days # {}
  BY <1>1, <1>3
<1> QED  BY <1>1, <1>2, <1>3, <1>4, <1>5, WriteStays DEF StatementInv

LEMMA AskReportStep ==
  ASSUME StatementInv, AskReport
  PROVE  StatementInv'
<1>1. PICK what \in Kinds, from \in Froms, to \in Tos :
        /\ what = "lease" /\ NoRow \notin {from, to} => from <= to
        /\ report' = [kind |-> what, from |-> from, to |-> to, unread |-> QueriesOf(what),
                      sum |-> [s \in Sums |-> 0]]
        /\ during' = << >> /\ since' = {}
        /\ UNCHANGED <<today, bill, money, entries>>
  BY DEF AskReport, books
<1>2. StatementTyped'
  <2>1. from \in Dates \cup {NoRow} /\ to \in Dates \cup {NoRow}
    BY StatementBounds DEF Dates
  <2>2. report' # NoRow =>
          /\ report' = [kind |-> report'.kind, from |-> report'.from, to |-> report'.to,
                        unread |-> report'.unread, sum |-> report'.sum]
          /\ report'.sum = [s \in Sums |-> report'.sum[s]]
    BY <1>1
  <2>3. report'.kind = what /\ report'.from = from /\ report'.to = to
    BY <1>1
  <2> QED  BY <1>1, <2>1, <2>2, <2>3 DEF StatementInv, StatementTyped
<1>3. RowsExist'
  BY <1>1 DEF StatementInv, RowsExist
<1>4. report'.kind = what /\ report'.unread = QueriesOf(what)
  BY <1>1
<1>5. /\ "entries" \in QueriesOf("lease") /\ "opening" \in QueriesOf("lease")
      /\ "balance" \in QueriesOf("lease") /\ "due" \in QueriesOf("lease")
      /\ "entries" \in QueriesOf("statement")
      /\ "properties" \in QueriesOf("portfolio") /\ "units" \in QueriesOf("portfolio")
  BY DEF QueriesOf
<1>6. FiguresHold' /\ ~Shown'
  BY <1>4, <1>5 DEF FiguresHold, Undisturbed, Shown, Kinds
<1>7. AsRead'
  BY <1>1, <1>4, <1>5 DEF AsRead, OpeningTied, LeaseTied, PortfolioTied
<1> QED  BY <1>1, <1>2, <1>3, <1>6, <1>7 DEF StatementInv, Reported, AsShown

Queries == UNION {QueriesOf(k) : k \in Kinds}

LEMMA QueryNames == Queries = {"entries", "opening", "balance", "due", "properties", "units"}
<1>1. /\ QueriesOf("lease") = {"entries", "opening", "balance", "due"}
      /\ QueriesOf("statement") = {"entries"}
      /\ QueriesOf("portfolio") = {"properties", "units"}
  BY DEF QueriesOf
<1>2. Queries = QueriesOf("lease") \cup QueriesOf("statement") \cup QueriesOf("portfolio")
  BY DEF Queries, Kinds
<1> QED  BY <1>1, <1>2

(* The figures a query answers.                                            *)
FiguresOf(query) ==
  CASE query = "entries"    -> {"activity", "last"}
    [] query = "properties" -> {"charged", "collected", "credits"}
    [] query = "units"      -> {"unitCharged", "unitCollected"}
    [] OTHER                -> {query}

LEMMA AnswerFacts ==
  ASSUME StatementTyped, report # NoRow, NEW query \in Queries, NEW answer, answer = AnswerOf(report, query)
  PROVE  /\ answer = [s \in Sums |-> answer[s]]
         /\ \A s \in Sums \ FiguresOf(query) : answer[s] = report.sum[s]
         /\ query = "entries" =>
              /\ answer["activity"] = Sum(Listed)
              /\ answer["last"] = IF Listed = {} THEN NoRow ELSE Sum(InRange(NoRow, report.to))
         /\ query = "opening" => answer["opening"] = Before
         /\ query = "balance" => answer["balance"] = Sum(entries)
         /\ query = "due" => answer["due"] = AmountDueNow
         /\ query = "properties" =>
              /\ answer["charged"] = KindOf(Listed, "charge")
              /\ answer["collected"] = Absolute(KindOf(Listed, "payment"))
              /\ answer["credits"] = Absolute(KindOf(Listed, "credit"))
         /\ query = "units" =>
              /\ answer["unitCharged"] = KindOf(Listed, "charge")
              /\ answer["unitCollected"] = Absolute(KindOf(Listed, "payment"))
<1>1. report.sum = [s \in Sums |-> report.sum[s]]
  BY DEF StatementTyped
<1>2. CASE query = "entries"
  BY <1>1, <1>2 DEF AnswerOf, FindByLeaseId, FiguresOf, Listed, Sums
<1>3. CASE query = "opening"
  BY <1>1, <1>3 DEF AnswerOf, FiguresOf, Sums, Before
<1>4. CASE query = "balance"
  BY <1>1, <1>4 DEF AnswerOf, FiguresOf, Sums, CurrentBalance
<1>5. CASE query = "due"
  BY <1>1, <1>5 DEF AnswerOf, FiguresOf, Sums
<1>6. CASE query = "properties"
  BY <1>1, <1>6 DEF AnswerOf, FiguresOf, Sums, Listed
<1>7. CASE query = "units"
  BY <1>1, <1>7 DEF AnswerOf, FiguresOf, Sums, Listed
<1> QED  BY <1>2, <1>3, <1>4, <1>5, <1>6, <1>7, QueryNames

(* Once all are read, the figures agree.                                   *)
Tied == OpeningTied /\ (during = << >> => LeaseTied /\ PortfolioTied)

LEMMA TiedAgree ==
  StatementTyped /\ RowsExist /\ BooksAgree /\ FiguresHold /\ Shown /\ since = {} /\ Tied
    => AddsUpWhole /\ LeaseAgrees /\ PortfolioAgrees
<1> SUFFICES ASSUME StatementTyped, RowsExist, BooksAgree, FiguresHold, Shown, since = {}, Tied
             PROVE  AddsUpWhole /\ LeaseAgrees /\ PortfolioAgrees
  OBVIOUS
<1>1. report # NoRow /\ \A query : query \notin report.unread
  BY DEF Shown
<1>2. ASSUME report.kind = "lease", ~Back
      PROVE  report.sum["opening"] + report.sum["activity"] = Ending(report.sum)
  <2>1. Before \in Int /\ report.sum["opening"] = Before
    BY <1>1, <1>2, OpeningAndActivity DEF Tied, OpeningTied
  <2>2. IF report.sum["last"] = NoRow THEN report.sum["activity"] = 0
        ELSE report.sum["activity"] \in Int /\ report.sum["last"] = Before + report.sum["activity"]
    BY <1>1, <1>2 DEF Tied, OpeningTied
  <2> QED  BY <2>1, <2>2 DEF Ending
<1>3. ASSUME report.kind = "lease", during = << >>
      PROVE  /\ report.to = NoRow => Ending(report.sum) = report.sum["balance"]
             /\ report.sum["due"] = report.sum["balance"] - RowSum(bill, Later) + RowSum(money, Ahead)
  <2>1. report.sum["balance"] = Sum(entries)
        /\ report.sum["due"] = Sum(entries) - RowSum(bill, Later) + RowSum(money, Ahead)
    BY <1>1, <1>3 DEF Tied, LeaseTied
  <2>2. ASSUME report.to = NoRow PROVE Ending(report.sum) = Sum(entries)
    <3>1. Undisturbed
      BY <1>1, <1>3 DEF Undisturbed
    <3>2. report.sum["last"] = IF Listed = {} THEN NoRow ELSE Sum(InRange(NoRow, report.to))
      BY <1>1, <3>1 DEF FiguresHold, Listed
    <3>3. /\ Before \in Int /\ Sum(Listed) \in Int
          /\ Sum(entries) = Before + Sum(Listed)
          /\ Sum(InRange(NoRow, report.to)) = Sum(entries)
      BY <1>1, <1>3, <2>2, OpeningAndActivity
    <3>4. ~Back
      BY <1>3 DEF Back
    <3>5. report.sum["opening"] = Before
      BY <1>1, <1>3, <3>4 DEF Tied, OpeningTied
    <3>6. CASE Listed = {}
      BY <3>2, <3>3, <3>5, <3>6, SumOfNone DEF Ending
    <3>7. CASE Listed # {}
      <4>1. report.sum["last"] = Sum(entries) /\ Sum(entries) # NoRow
        BY <3>2, <3>3, <3>7, StatementBounds
      <4> QED  BY <4>1 DEF Ending
    <3> QED  BY <3>6, <3>7
  <2> QED  BY <2>1, <2>2
<1>4. PortfolioAgrees
  BY <1>1 DEF Tied, PortfolioTied, PortfolioAgrees
<1> QED  BY <1>2, <1>3, <1>4 DEF AddsUpWhole, LeaseAgrees

LEMMA ReadStep ==
  ASSUME StatementInv, BooksAgree, NEW query \in Queries, Read(query)
  PROVE  StatementInv'
<1>1. /\ Reading /\ report # NoRow /\ query \in report.unread
      /\ report' = [report EXCEPT !.unread = @ \ {query}, !.sum = AnswerOf(report, query)]
      /\ UNCHANGED <<today, bill, money, entries, during, since>>
  BY DEF Read, Reading, books
<1>2. PICK answer : answer = AnswerOf(report, query)
  OBVIOUS
<1>3. /\ report'.kind = report.kind /\ report'.from = report.from /\ report'.to = report.to
      /\ report'.unread = report.unread \ {query} /\ report'.sum = answer
      /\ report' = [kind |-> report'.kind, from |-> report'.from, to |-> report'.to,
                    unread |-> report'.unread, sum |-> report'.sum]
  BY <1>1, <1>2 DEF StatementInv, StatementTyped
<1>4. report'.sum = [s \in Sums |-> report'.sum[s]]
      /\ \A s \in Sums \ FiguresOf(query) : answer[s] = report.sum[s]
  BY <1>1, <1>2, <1>3, AnswerFacts DEF StatementInv
<1>5. StatementTyped' /\ RowsExist'
  <2>1. RowsExist'
    BY <1>1 DEF StatementInv, RowsExist
  <2>2. StatementTyped'
    BY <1>1, <1>3, <1>4 DEF StatementInv, StatementTyped
  <2> QED  BY <2>1, <2>2
<1>6. /\ Listed' = Listed /\ InRange(NoRow, report.to)' = InRange(NoRow, report.to)
      /\ InRange(report.from, report.to)' = Listed
  BY <1>1, <1>3 DEF Listed, InRange, EffectiveDate
<1>7. Before' = Before
  BY <1>1, <1>3 DEF Before, BalanceBeforeDate, EffectiveDate
<1>8. BooksAgree'
  BY <1>1 DEF BooksAgree, EntriesSay, Existing, Known, OpenBills, Arrived
<1>9. Later' = Later /\ Ahead' = Ahead /\ Back' = Back
  BY <1>1, <1>3 DEF Later, Ahead, OpenBills, Arrived, Existing, Known, Back
<1>10. since = {} /\ OpeningTied /\ (during = << >> => LeaseTied /\ PortfolioTied)
  BY <1>1 DEF StatementInv, Reported, AsRead
<1>11. ASSUME query # "entries"
       PROVE  answer["activity"] = report.sum["activity"] /\ answer["last"] = report.sum["last"]
  BY <1>4, <1>11, QueryNames DEF FiguresOf, Sums
<1>12. FiguresHold'
  <2> SUFFICES ASSUME Undisturbed', "entries" \notin report'.unread
               PROVE  /\ answer["activity"] = Sum(Listed)
                      /\ answer["last"] = IF Listed = {} THEN NoRow ELSE Sum(InRange(NoRow, report.to))
    BY <1>3, <1>6 DEF FiguresHold, Listed
  <2>1. Undisturbed
    BY <1>1, <1>3 DEF Undisturbed
  <2>2. CASE query = "entries"
    BY <1>1, <1>2, <2>2, AnswerFacts DEF StatementInv
  <2>3. CASE query # "entries"
    <3>1. "entries" \notin report.unread
      BY <1>3, <2>3
    <3> QED  BY <1>11, <2>1, <2>3, <3>1 DEF StatementInv, Reported, FiguresHold, Listed
  <2> QED  BY <2>2, <2>3
<1>13. OpeningTied'
  <2> SUFFICES ASSUME report.kind = "lease", ~Back
               PROVE  /\ "opening" \notin report'.unread => answer["opening"] = Before
                      /\ "entries" \notin report'.unread =>
                           IF answer["last"] = NoRow THEN answer["activity"] = 0
                           ELSE answer["activity"] \in Int /\ answer["last"] = Before + answer["activity"]
    BY <1>3, <1>7, <1>9 DEF OpeningTied
  <2>1. CASE query = "entries"
    <3>1. /\ answer["activity"] = Sum(Listed)
          /\ answer["last"] = IF Listed = {} THEN NoRow ELSE Sum(InRange(NoRow, report.to))
          /\ answer["opening"] = report.sum["opening"]
      <4>1. answer["opening"] = report.sum["opening"]
        BY <1>4, <2>1 DEF FiguresOf, Sums
      <4> QED  BY <1>1, <1>2, <2>1, <4>1, AnswerFacts DEF StatementInv
    <3>2. /\ Before \in Int /\ Sum(Listed) \in Int
          /\ Sum(InRange(NoRow, report.to)) = Before + Sum(Listed)
      BY <1>1, OpeningAndActivity DEF StatementInv
    <3>3. "opening" \notin report'.unread => answer["opening"] = Before
      BY <1>3, <1>10, <2>1, <3>1 DEF OpeningTied
    <3>4. CASE Listed = {}
      BY <3>1, <3>3, <3>4, SumOfNone
    <3>5. CASE Listed # {}
      BY <3>1, <3>2, <3>3, <3>5, StatementBounds
    <3> QED  BY <3>4, <3>5
  <2>2. CASE query = "opening"
    <3>1. answer["opening"] = Before
      BY <1>1, <1>2, <2>2, AnswerFacts DEF StatementInv
    <3> QED  BY <1>3, <1>10, <1>11, <2>2, <3>1 DEF OpeningTied
  <2>3. CASE query \notin {"entries", "opening"}
    <3>1. answer["opening"] = report.sum["opening"]
      BY <1>4, <2>3, QueryNames DEF FiguresOf, Sums
    <3> QED  BY <1>3, <1>10, <1>11, <2>3, <3>1 DEF OpeningTied
  <2> QED  BY <2>1, <2>2, <2>3
<1>14. ASSUME during = << >> PROVE LeaseTied'
  <2> SUFFICES ASSUME report.kind = "lease"
               PROVE  /\ "balance" \notin report'.unread => answer["balance"] = Sum(entries)
                      /\ "due" \notin report'.unread =>
                           answer["due"] = Sum(entries) - RowSum(bill, Later) + RowSum(money, Ahead)
    BY <1>1, <1>3, <1>9 DEF LeaseTied
  <2>1. ASSUME "balance" \notin report'.unread PROVE answer["balance"] = Sum(entries)
    <3>1. CASE query = "balance"
      BY <1>1, <1>2, <3>1, AnswerFacts DEF StatementInv
    <3>2. CASE query # "balance"
      <4>1. answer["balance"] = report.sum["balance"]
        BY <1>4, <3>2, QueryNames DEF FiguresOf, Sums
      <4> QED  BY <1>3, <1>10, <1>14, <2>1, <3>2, <4>1 DEF LeaseTied
    <3> QED  BY <3>1, <3>2
  <2>2. ASSUME "due" \notin report'.unread
        PROVE  answer["due"] = Sum(entries) - RowSum(bill, Later) + RowSum(money, Ahead)
    <3>1. CASE query = "due"
      BY <1>1, <1>2, <3>1, AnswerFacts, DueAndBalance DEF StatementInv
    <3>2. CASE query # "due"
      <4>1. answer["due"] = report.sum["due"]
        BY <1>4, <3>2, QueryNames DEF FiguresOf, Sums
      <4> QED  BY <1>3, <1>10, <1>14, <2>2, <3>2, <4>1 DEF LeaseTied
    <3> QED  BY <3>1, <3>2
  <2> QED  BY <2>1, <2>2
<1>15. ASSUME during = << >> PROVE PortfolioTied'
  <2> SUFFICES ASSUME report.kind = "portfolio"
               PROVE  /\ "properties" \notin report'.unread =>
                           /\ answer["charged"] = KindOf(Listed, "charge")
                           /\ answer["collected"] = Absolute(KindOf(Listed, "payment"))
                           /\ Movement(answer) = Sum(Listed)
                      /\ "units" \notin report'.unread =>
                           /\ answer["unitCharged"] = KindOf(Listed, "charge")
                           /\ answer["unitCollected"] = Absolute(KindOf(Listed, "payment"))
    BY <1>3, <1>6 DEF PortfolioTied, KindOf
  <2>1. ASSUME "properties" \notin report'.unread
        PROVE  /\ answer["charged"] = KindOf(Listed, "charge")
               /\ answer["collected"] = Absolute(KindOf(Listed, "payment"))
               /\ Movement(answer) = Sum(Listed)
    <3>1. CASE query = "properties"
      <4>1. /\ answer["charged"] = KindOf(Listed, "charge")
            /\ answer["collected"] = Absolute(KindOf(Listed, "payment"))
            /\ answer["credits"] = Absolute(KindOf(Listed, "credit"))
        BY <1>1, <1>2, <3>1, AnswerFacts DEF StatementInv
      <4>2. PICK part \in SUBSET entries : part = Listed
        BY DEF Listed, InRange
      <4>3. Sum(part) = KindOf(part, "charge") - Absolute(KindOf(part, "payment")) - Absolute(KindOf(part, "credit"))
        BY KindsAddUp DEF StatementInv
      <4> QED  BY <4>1, <4>2, <4>3 DEF Movement
    <3>2. CASE query # "properties"
      <4>1. /\ answer["charged"] = report.sum["charged"]
            /\ answer["collected"] = report.sum["collected"]
            /\ answer["credits"] = report.sum["credits"]
        BY <1>4, <3>2, QueryNames DEF FiguresOf, Sums
      <4> QED  BY <1>3, <1>10, <1>15, <2>1, <3>2, <4>1 DEF PortfolioTied, Movement
    <3> QED  BY <3>1, <3>2
  <2>2. ASSUME "units" \notin report'.unread
        PROVE  /\ answer["unitCharged"] = KindOf(Listed, "charge")
               /\ answer["unitCollected"] = Absolute(KindOf(Listed, "payment"))
    <3>1. CASE query = "units"
      BY <1>1, <1>2, <3>1, AnswerFacts DEF StatementInv
    <3>2. CASE query # "units"
      <4>1. /\ answer["unitCharged"] = report.sum["unitCharged"]
            /\ answer["unitCollected"] = report.sum["unitCollected"]
        BY <1>4, <3>2, QueryNames DEF FiguresOf, Sums
      <4> QED  BY <1>3, <1>10, <1>15, <2>2, <3>2, <4>1 DEF PortfolioTied
    <3> QED  BY <3>1, <3>2
  <2> QED  BY <2>1, <2>2
<1>16. since' = {} /\ Tied' /\ during' = during
  BY <1>1, <1>10, <1>13, <1>14, <1>15 DEF Tied
<1>17. Shown' => AddsUpWhole' /\ LeaseAgrees' /\ PortfolioAgrees'
  <2>1. StatementTyped' /\ RowsExist' /\ BooksAgree' /\ FiguresHold' /\ Shown' /\ (since = {})' /\ Tied'
          => AddsUpWhole' /\ LeaseAgrees' /\ PortfolioAgrees'
    BY TiedAgree, PTL
  <2> QED  BY <1>5, <1>8, <1>12, <1>16, <2>1
<1>18. AsRead' /\ AsShown'
  BY <1>16, <1>17 DEF AsRead, AsShown, Tied
<1> QED  BY <1>1, <1>5, <1>12, <1>18 DEF StatementInv, Reported

LEMMA StatementStep ==
  ASSUME StatementInv, BooksAgree, [StatementNext]_statementVars
  PROVE  StatementInv' /\ BooksAgree'
<1>1. CASE UNCHANGED statementVars
  <2>1. UNCHANGED <<today, bill, money, entries, report, during, since>>
    BY <1>1 DEF statementVars, books
  <2>2. StatementTyped' /\ RowsExist' /\ FiguresHold'
    BY <2>1 DEF StatementInv, StatementTyped, RowsExist, Reported, FiguresHold, Undisturbed, InRange, EffectiveDate
  <2>3. Listed' = Listed /\ Before' = Before /\ Later' = Later /\ Ahead' = Ahead /\ Back' = Back
    BY <2>1 DEF Listed, InRange, EffectiveDate, Before, BalanceBeforeDate, Later, Ahead, OpenBills, Arrived,
                Existing, Known, Back
  <2>4. AsRead'
    BY <2>1, <2>3 DEF StatementInv, Reported, AsRead, Reading, OpeningTied, LeaseTied, PortfolioTied, KindOf
  <2>5. AsShown'
    BY <2>1, <2>3 DEF StatementInv, Reported, AsShown, Shown, AddsUpWhole, LeaseAgrees, PortfolioAgrees
  <2>6. BooksAgree'
    BY <2>1 DEF BooksAgree, EntriesSay, Existing, Known, OpenBills, Arrived
  <2> QED  BY <2>1, <2>2, <2>4, <2>5, <2>6 DEF StatementInv, Reported
<1>2. ASSUME NEW b \in Bills, CreateBill(b) \/ UpdateCharge(b) \/ VoidCharge(b)
      PROVE  StatementInv' /\ BooksAgree'
  BY <1>2, CreateBillStep, UpdateChargeStep, VoidChargeStep, CreateBillBooks, UpdateChargeBooks, VoidChargeBooks
<1>3. ASSUME NEW m \in Moneys, RecordManualPayment(m) \/ StartDebit(m) \/ DebitSucceeds(m)
      PROVE  StatementInv' /\ BooksAgree'
  BY <1>3, RecordManualPaymentStep, StartDebitStep, DebitSucceedsStep, RecordManualPaymentBooks,
     StartDebitBooks, DebitSucceedsBooks
<1>4. ASSUME Tomorrow \/ AskReport \/ \E query \in Queries : Read(query)
      PROVE  BooksAgree'
  <2>1. UNCHANGED <<bill, money, entries>>
    BY <1>4 DEF Tomorrow, AskReport, Read, books
  <2> QED  BY <2>1 DEF BooksAgree, EntriesSay, Existing, Known, OpenBills, Arrived
<1>5. CASE Tomorrow \/ AskReport
  BY <1>4, <1>5, TomorrowStep, AskReportStep
<1>6. ASSUME NEW query \in Queries, Read(query)
      PROVE  StatementInv' /\ BooksAgree'
  BY <1>4, <1>6, ReadStep
<1> QED  BY <1>1, <1>2, <1>3, <1>5, <1>6 DEF StatementNext, Queries

LEMMA StatementStarts ==
  ASSUME StatementInit
  PROVE  StatementInv /\ BooksAgree
<1>1. 1 \in Dates
  BY StatementBounds DEF Dates
<1>2. report = NoRow /\ during = << >>
  BY DEF StatementInit
<1>3. StatementInv
  BY <1>1, <1>2 DEF StatementInit, StatementInv, StatementTyped, RowsExist, Reported, FiguresHold, Undisturbed,
                    AsRead, AsShown, Reading, Shown
<1>4. Existing = {} /\ Known = {} /\ OpenBills = {} /\ Arrived = {} /\ entries = {}
  BY DEF StatementInit, Existing, Known, OpenBills, Arrived
<1>5. IsFiniteSet({}) /\ Sum({}) = 0
  BY FS_EmptySet, SumOfNone
<1>6. \A h : RowSum(h, {}) = 0
  <2> TAKE h
  <2>1. PICK D : D = {}
    OBVIOUS
  <2>2. PICK f : f = [r \in D |-> h[r].amount]
    OBVIOUS
  <2>3. \A S \in SUBSET D : IsFiniteSet(S) => RowSum(h, S) = SumFunctionOnSet(f, S)
    BY <2>2, RowSumIs
  <2>4. SumFunctionOnSet(f, {}) = 0
    BY <1>5, SumPicked
  <2> QED  BY <1>5, <2>1, <2>3, <2>4
<1>7. RowSum(bill, {}) = 0 /\ RowSum(money, {}) = 0
  BY <1>6
<1> QED  BY <1>3, <1>4, <1>5, <1>7 DEF BooksAgree, EntriesSay

(* The figures of a report agree, which is what the inductive invariant    *)
(* says of them.                                                           *)
LEMMA FiguresAgree ==
  ASSUME StatementInv, BooksAgree
  PROVE  ReportAddsUp
<1> SUFFICES ASSUME Shown PROVE ReportAddsUp
  BY DEF ReportAddsUp
<1>1. AddsUpWhole /\ LeaseAgrees /\ PortfolioAgrees
  BY DEF StatementInv, Reported, AsShown
<1> DEFINE later == {b \in Bills : bill[b] # NoRow /\ bill[b].due > today}
           open  == {b \in later : ~bill[b].voided}
           ahead == {m \in Moneys : Completed(m) /\ money[m].bill \in later \cup {NoRow}}
<1>2. open = Later
  BY DEF Later, OpenBills, Existing
<1>3. ahead = Ahead
  <2>1. \A m \in Arrived : money[m].bill \in Existing \/ money[m].bill = NoRow
    BY DEF BooksAgree, Arrived
  <2>2. \A m : m \in ahead <=> m \in Arrived /\ money[m].bill \in later \cup {NoRow}
    BY DEF Arrived, Known, Completed
  <2>3. NoRow \notin Existing
    BY StatementBounds DEF Existing
  <2>4. \A m : m \in Ahead <=> m \in Arrived /\ money[m].bill \in later \cup {NoRow}
    BY <2>1, <2>3 DEF Ahead, Existing
  <2> QED  BY <2>2, <2>4
<1>4. Owed(open) = RowSum(bill, Later) /\ Received(ahead) = RowSum(money, Ahead)
  BY <1>2, <1>3, TableSums
<1>5. Sum(InRange(report.from, report.to)) = Sum(Listed)
  BY DEF Listed
<1> HIDE DEF open, ahead
<1>6. report.kind = "lease" /\ ~(report.from # NoRow /\ \E i \in DOMAIN during : \E d \in during[i] : d < report.from)
        => report.sum["opening"] + report.sum["activity"] = Ending(report.sum)
  BY <1>1 DEF AddsUpWhole, Back
<1>7. report.kind = "lease" /\ during = << >>
        => /\ report.to = NoRow => Ending(report.sum) = report.sum["balance"]
           /\ since = {} => report.sum["due"] = report.sum["balance"] - Owed(open) + Received(ahead)
  BY <1>1, <1>4 DEF LeaseAgrees
<1>8. report.kind = "portfolio" /\ during = << >>
        => /\ report.sum["charged"] = report.sum["unitCharged"] /\ report.sum["collected"] = report.sum["unitCollected"]
           /\ since = {} => report.sum["charged"] - report.sum["collected"] - report.sum["credits"]
                             = Sum(InRange(report.from, report.to))
  BY <1>1, <1>5 DEF PortfolioAgrees, Movement
<1> QED  BY <1>6, <1>7, <1>8 DEF ReportAddsUp, open, ahead

THEOREM StatementInvariant == Spec => [](StatementInv /\ BooksAgree)
<1>1. Init => StatementInv /\ BooksAgree
  BY StatementStarts DEF Init
<1>2. [Next]_vars => [StatementNext]_statementVars
  BY DEF Next, vars
<1>3. StatementInv /\ BooksAgree /\ [Next]_vars => StatementInv' /\ BooksAgree'
  BY <1>2, StatementStep
<1> QED  BY <1>1, <1>3, PTL DEF Spec

(* What a report shows agrees with itself: opening and activity make the   *)
(* ending unless something dated before the period was written while it    *)
(* was read; the balance, what is due and the totals of the portfolio      *)
(* agree when nothing was written meanwhile.  For any charges, payments,   *)
(* dates and any number of writes (findByLeaseId, getBalanceBeforeDate,    *)
(* getCurrentBalance, getAmountDueNow, the portfolio summary).             *)
THEOREM ReportsAddUp == Spec => []ReportAddsUp
  BY StatementInvariant, FiguresAgree, PTL

(* What was shown or exported of a period is what a new query would give,  *)
(* as long as nothing was written while it was read or is written with a   *)
(* date in the period or before, for any charges, payments and dates       *)
(* (findByLeaseId, the exported statement).                                *)
THEOREM StatementsStand == Spec => []IssuedStays
<1>1. StatementInv => IssuedStays
  <2> SUFFICES ASSUME StatementInv, Undisturbed, report.unread = {}
               PROVE  \A s \in {"activity", "last"} : FindByLeaseId(report)[s] = report.sum[s]
    BY DEF IssuedStays, Undisturbed, Shown
  <2>1. /\ report.sum["activity"] = Sum(InRange(report.from, report.to))
        /\ report.sum["last"] = IF InRange(report.from, report.to) = {} THEN NoRow
                                ELSE Sum(InRange(NoRow, report.to))
    BY DEF StatementInv, Reported, FiguresHold
  <2>2. report.sum = [s \in Sums |-> report.sum[s]] /\ {"activity", "last"} \subseteq Sums
    BY DEF StatementInv, StatementTyped, Undisturbed, Sums
  <2>3. /\ FindByLeaseId(report)["activity"] = Sum(InRange(report.from, report.to))
        /\ FindByLeaseId(report)["last"] = IF InRange(report.from, report.to) = {} THEN NoRow
                                           ELSE Sum(InRange(NoRow, report.to))
    BY <2>2 DEF FindByLeaseId
  <2> QED  BY <2>1, <2>3
<1> QED  BY <1>1, StatementInvariant, PTL

-----------------------------------------------------------------------------
(* The rent plan.                                                          *)

Whole(s) ==
  s = [step |-> s.step, lease |-> s.lease, listed |-> s.listed, plan |-> s.plan, due |-> s.due,
       end |-> s.end, ends |-> s.ends, sweep |-> s.sweep, said |-> s.said]

PlanShape ==
  /\ page = [p \in Pages |-> page[p]]
  /\ waits = [p \in Pages |-> waits[p]]
  /\ charge = [r \in DOMAIN charge |-> charge[r]]
  /\ lease = [l \in Leases |-> lease[l]]
  /\ \A l \in Leases : lease[l] = [status |-> lease[l].status, start |-> lease[l].start, end |-> lease[l].end]
                       /\ lease[l].start \in Nat
  /\ blur \in {"none", "lost", "blind"}

(* A request is about a lease; a void, about one of its charges.           *)
IsVoid(q)    == q = [op |-> "void", lease |-> q.lease, row |-> q.row] /\ q.row \in RowsOf(q.lease)
IsCharge(q)  == q = [op |-> "charge", lease |-> q.lease, item |-> q.item]
IsMade(l)    == l \in Leases /\ lease[l].status # "none"

(* A page is about a lease that was made, and has listed charges of it; it *)
(* waits for requests of its lease, and only where it sends some.          *)
Sound(s) ==
  /\ Whole(s) /\ s.end \in Nat /\ s.due \in 0 .. LastDueDay
  /\ s.step # "away" => IsMade(s.lease)
  /\ s.step \in Editing => s.listed \subseteq RowsOf(s.lease)

WaitsWell(s, Q) ==
  \A q \in Q : /\ q.lease = s.lease
              /\ \/ s.step = "void" /\ IsVoid(q)
                 \/ s.step = "post" /\ IsCharge(q)

PlanBase ==
  /\ PlanShape
  /\ \A p \in Pages : Sound(page[p]) /\ WaitsWell(page[p], waits[p])
  /\ \A r \in DOMAIN charge : IsMade(r.lease)
  /\ \A q \in strays : IsMade(q.lease) /\ (IsVoid(q) \/ IsCharge(q))
  /\ \A l \in swept : l \in Leases /\ lease[l].status = "ended"

-----------------------------------------------------------------------------
(* What the operators do.                                                  *)

LEMMA ShowFacts ==
  ASSUME PlanShape, NEW p \in Pages, NEW s, Show(p, s)
  PROVE  page' = [q \in Pages |-> page'[q]] /\ page'[p] = s /\ \A q \in Pages : q # p => page'[q] = page[q]
  BY DEF PlanShape, Show

LEMMA BlankFacts ==
  ASSUME NEW l
  PROVE  /\ Whole(Blank(l)) /\ Blank(l).step = "away" /\ Blank(l).lease = l /\ Blank(l).listed = {}
         /\ Blank(l).plan = {} /\ Blank(l).due = 0 /\ Blank(l).end = 0 /\ Blank(l).said = "nothing"
         /\ Blank(l).ends = FALSE /\ Blank(l).sweep = FALSE
  BY DEF Blank, Whole

FormOf(f, s, said) ==
  /\ Whole(f) /\ f.step = "form" /\ f.lease = s.lease /\ f.listed = s.listed /\ f.plan = {} /\ f.due = 0
  /\ said \in {"success", "exists"} => f.end = s.end
  /\ said \notin {"success", "exists"} => f.end = 0
  /\ f.said = said /\ f.sweep = FALSE

LEMMA FormFacts ==
  ASSUME NEW s, NEW said
  PROVE  FormOf(Form(s, said), s, said)
<1>1. PICK end : end = IF said \in {"success", "exists"} THEN s.end ELSE 0
  OBVIOUS
<1>2. PICK f : f = [Blank(s.lease) EXCEPT !.step = "form", !.listed = s.listed, !.said = said, !.end = end]
  OBVIOUS
<1>3. f = Form(s, said)
  BY <1>1, <1>2 DEF Form
<1>4. /\ Whole(f) /\ f.step = "form" /\ f.lease = s.lease /\ f.listed = s.listed /\ f.plan = {} /\ f.due = 0
      /\ f.end = end /\ f.said = said /\ f.sweep = FALSE
  BY <1>2 DEF Blank, Whole
<1>5. FormOf(f, s, said)
  BY <1>1, <1>4 DEF FormOf
<1> QED  BY <1>3, <1>5

LEMMA NothingFacts ==
  Whole(Nothing) /\ Nothing.step = "away" /\ Nothing.plan = {} /\ Nothing.end = 0 /\ Nothing.due = 0
  BY BlankFacts DEF Nothing

LEMMA TickedFacts ==
  ASSUME NEW s, Whole(s)
  PROVE  /\ Whole(Ticked(s)) /\ Ticked(s).step = s.step /\ Ticked(s).lease = s.lease /\ Ticked(s).listed = s.listed
         /\ Ticked(s).due = s.due /\ Ticked(s).end = s.end /\ Ticked(s).ends = s.ends /\ Ticked(s).sweep = s.sweep
         /\ Ticked(s).said = s.said
         /\ Ticked(s).plan = IF s.due = 1 THEN Missing(s.lease, s.end, Shift, s.listed) ELSE {}
<1>1. PICK plan : plan = IF s.due = 1 THEN Missing(s.lease, s.end, Shift, s.listed) ELSE {}
  OBVIOUS
<1>2. Ticked(s) = [s EXCEPT !.plan = plan]
  BY <1>1 DEF Ticked
<1> QED  BY <1>1, <1>2 DEF Whole

(* A page of which some fields are set.                                    *)
LEMMA StepFacts ==
  ASSUME NEW s, Whole(s), NEW step, NEW t, t = [s EXCEPT !.step = step]
  PROVE  /\ Whole(t) /\ t.step = step /\ t.lease = s.lease /\ t.listed = s.listed /\ t.plan = s.plan
         /\ t.due = s.due /\ t.end = s.end /\ t.ends = s.ends /\ t.sweep = s.sweep /\ t.said = s.said
  BY DEF Whole

LEMMA AddFacts ==
  ASSUME PlanShape, NEW l, NEW items, Add(New(l, items))
  PROVE  /\ charge' = [r \in DOMAIN charge' |-> charge'[r]]
         /\ DOMAIN charge' = DOMAIN charge \cup New(l, items)
         /\ \A r \in New(l, items) : r.lease = l /\ r.item \in items
         /\ \A i \in items : \E r \in New(l, items) : r.item = i
         /\ \A r, s \in New(l, items) : r.item = s.item => r = s
         /\ \A r \in DOMAIN charge : r \notin New(l, items) => charge'[r] = charge[r]
<1> DEFINE row(i) == [lease |-> l, item |-> i, copy |-> 1 + Cardinality({r \in RowsOf(l) : r.item = i})]
<1>1. New(l, items) = {row(i) : i \in items}
  BY DEF New
<1>2. \A i \in items : row(i).lease = l /\ row(i).item = i
  OBVIOUS
<1> HIDE DEF row
<1>3. charge' = [r \in DOMAIN charge \cup New(l, items) |-> IF r \in New(l, items) THEN "due" ELSE charge[r]]
  BY DEF Add
<1> QED  BY <1>1, <1>2, <1>3

LEMMA AddGrows ==
  ASSUME PlanShape, NEW l, NEW items, Add(New(l, items))
  PROVE  /\ charge' = [r \in DOMAIN charge' |-> charge'[r]] /\ DOMAIN charge \subseteq DOMAIN charge'
         /\ \A r \in DOMAIN charge' \ DOMAIN charge : r.lease = l /\ r.item \in items
<1>1. PICK N : N = New(l, items)
  OBVIOUS
<1>2. /\ charge' = [r \in DOMAIN charge' |-> charge'[r]] /\ DOMAIN charge' = DOMAIN charge \cup N
      /\ \A r \in N : r.lease = l /\ r.item \in items
  BY <1>1, AddFacts
<1> QED  BY <1>2

LEMMA VoidFacts ==
  ASSUME NEW R, Void(R)
  PROVE  /\ charge' = [r \in DOMAIN charge' |-> charge'[r]] /\ DOMAIN charge' = DOMAIN charge
         /\ \A r \in DOMAIN charge : charge'[r] = IF r \in R THEN "voided" ELSE charge[r]
  BY DEF Void

Open(r) == charge[r] \in {"due", "pending"}

(* A request that reaches the server, or does not.                         *)
LEMMA ReachFacts ==
  ASSUME PlanShape, NEW q, IsVoid(q) \/ IsCharge(q), NEW answer, Reach(q, answer)
  PROVE  /\ charge' = [r \in DOMAIN charge' |-> charge'[r]]
         /\ DOMAIN charge \subseteq DOMAIN charge'
         /\ blur' \in {"none", "lost", "blind"}
         /\ blur' = "none" => blur = "none"
         /\ blur' # "blind" => blur # "blind"
         /\ q.op = "void" => DOMAIN charge' = DOMAIN charge
         /\ \A r \in DOMAIN charge' \ DOMAIN charge : q.op = "charge" /\ r.lease = q.lease /\ r.item = q.item
         /\ \A r, s \in DOMAIN charge' \ DOMAIN charge : r = s
         /\ q.op = "charge" /\ answer = "yes" => \E r \in DOMAIN charge' : r.lease = q.lease /\ r.item = q.item
         /\ \A r \in DOMAIN charge' : Open(r)' =>
              \/ q.op = "charge" /\ r.lease = q.lease /\ lease[q.lease].status = "live"
              \/ /\ r \in DOMAIN charge /\ Open(r)
                 /\ q.op = "void" /\ q.row = r => blur' # "none"
<1> USE DEF Open
<1>0. q.op \in {"void", "charge"} /\ (q.op = "void" <=> IsVoid(q))
  BY DEF IsVoid, IsCharge
<1>b. blur \in {"none", "lost", "blind"}
  BY DEF PlanShape
<1>m. Miss => blur' \in {"lost", "blind"} /\ (blur' # "blind" => blur # "blind")
  BY <1>b DEF Miss
<1>1. CASE Accepted(q) /\ Accept(q) /\ UNCHANGED blur
  <2>1. CASE q.op = "void"
    <3>1. charge[q.row] = "due" /\ Void({q.row})
      BY <1>1, <2>1 DEF Accepted, Accept
    <3> QED  BY <1>1, <1>b, <2>1, <3>1, VoidFacts
  <2>2. CASE q.op = "charge"
    <3>1. lease[q.lease].status = "live" /\ Add(New(q.lease, {q.item}))
      BY <1>1, <2>2 DEF Accepted, Accept
    <3>2. /\ charge' = [r \in DOMAIN charge' |-> charge'[r]]
          /\ DOMAIN charge' = DOMAIN charge \cup New(q.lease, {q.item})
          /\ \A r \in New(q.lease, {q.item}) : r.lease = q.lease /\ r.item = q.item
          /\ \E r \in New(q.lease, {q.item}) : r.item = q.item
          /\ \A r, s \in New(q.lease, {q.item}) : r = s
          /\ \A r \in DOMAIN charge : r \notin New(q.lease, {q.item}) => charge'[r] = charge[r]
      <4>1. /\ charge' = [r \in DOMAIN charge' |-> charge'[r]]
            /\ DOMAIN charge' = DOMAIN charge \cup New(q.lease, {q.item})
            /\ \A r \in New(q.lease, {q.item}) : r.lease = q.lease /\ r.item \in {q.item}
            /\ \A i \in {q.item} : \E r \in New(q.lease, {q.item}) : r.item = i
            /\ \A r, s \in New(q.lease, {q.item}) : r.item = s.item => r = s
            /\ \A r \in DOMAIN charge : r \notin New(q.lease, {q.item}) => charge'[r] = charge[r]
        <5>1. PICK l, items : l = q.lease /\ items = {q.item}
          OBVIOUS
        <5> QED  BY <3>1, <5>1, AddFacts
      <4> QED  BY <4>1
    <3>3. \A r \in DOMAIN charge' \ DOMAIN charge : r.lease = q.lease /\ r.item = q.item
      BY <3>2
    <3>4. \A r, s \in DOMAIN charge' \ DOMAIN charge : r = s
      BY <3>2
    <3>5. \E r \in DOMAIN charge' : r.lease = q.lease /\ r.item = q.item
      BY <3>2
    <3>6. \A r \in DOMAIN charge' : charge'[r] \in {"due", "pending"} =>
            \/ r.lease = q.lease
            \/ r \in DOMAIN charge /\ charge[r] \in {"due", "pending"}
      BY <3>2
    <3>7. /\ charge' = [r \in DOMAIN charge' |-> charge'[r]] /\ DOMAIN charge \subseteq DOMAIN charge'
      BY <3>2
    <3> QED  BY <1>1, <1>b, <2>2, <3>1, <3>3, <3>4, <3>5, <3>6, <3>7
  <2> QED  BY <1>0, <2>1, <2>2
<1>2. CASE ~Accepted(q) /\ UNCHANGED charge /\ answer = "no"
           /\ IF q.op = "void" /\ charge[q.row] = "pending" THEN Miss ELSE UNCHANGED blur
  <2>1. q.op = "void" /\ charge[q.row] \in {"due", "pending"} => blur' # "none"
    BY <1>2, <1>m DEF Accepted
  <2>2. blur' \in {"none", "lost", "blind"} /\ (blur' = "none" => blur = "none") /\ (blur' # "blind" => blur # "blind")
    BY <1>2, <1>b, <1>m
  <2>3. charge = [r \in DOMAIN charge |-> charge[r]]
    BY DEF PlanShape
  <2> QED  BY <1>2, <2>1, <2>2, <2>3
<1>3. CASE answer = "no" /\ Miss /\ UNCHANGED charge
  <2>3. charge = [r \in DOMAIN charge |-> charge[r]]
    BY DEF PlanShape
  <2> QED  BY <1>3, <1>b, <1>m, <2>3
<1> QED  BY <1>1, <1>2, <1>3 DEF Reach

-----------------------------------------------------------------------------
(* PlanBase is kept.                                                       *)

(* What is sound stays so while charges and leases are only added.         *)
Grows ==
  /\ DOMAIN charge \subseteq DOMAIN charge'
  /\ \A l \in Leases : lease[l].status # "none" => lease'[l].status # "none"

LEMMA SoundStays ==
  ASSUME Grows, NEW s, Sound(s)
  PROVE  Sound(s)'
<1>1. RowsOf(s.lease) \subseteq RowsOf(s.lease)'
  BY DEF Grows, RowsOf
<1> QED  BY <1>1 DEF Sound, IsMade, Grows, Editing

LEMMA WaitsStay ==
  ASSUME Grows, NEW s, NEW Q, WaitsWell(s, Q)
  PROVE  WaitsWell(s, Q)'
<1>1. \A l : RowsOf(l) \subseteq RowsOf(l)'
  BY DEF Grows, RowsOf
<1> QED  BY <1>1 DEF WaitsWell, IsVoid, IsCharge

LEMMA BaseChange ==
  ASSUME PlanBase, PlanShape', Grows,
         \A r \in DOMAIN charge' \ DOMAIN charge : IsMade(r.lease)',
         \A q \in strays' : q \in strays \/ \E p \in Pages : q \in waits[p],
         \A l \in swept' : l \in Leases /\ lease'[l].status = "ended",
         \A p \in Pages : \/ page'[p] = page[p] /\ waits'[p] = waits[p]
                          \/ Sound(page[p])' /\ WaitsWell(page[p], waits[p])'
  PROVE  PlanBase'
<1>1. \A l : IsMade(l) => IsMade(l)'
  BY DEF Grows, IsMade
<1>2. \A l : RowsOf(l) \subseteq RowsOf(l)'
  BY DEF Grows, RowsOf
<1>3. ASSUME NEW p \in Pages
      PROVE  Sound(page[p])' /\ WaitsWell(page[p], waits[p])'
  <2>1. CASE page'[p] = page[p] /\ waits'[p] = waits[p]
    <3>1. PICK s, Q : s = page[p] /\ Q = waits[p]
      OBVIOUS
    <3>2. Sound(s) /\ WaitsWell(s, Q)
      BY <3>1 DEF PlanBase
    <3>3. Sound(s)' /\ WaitsWell(s, Q)'
      BY <3>2, SoundStays, WaitsStay
    <3>4. page'[p] = s /\ waits'[p] = Q
      BY <2>1, <3>1
    <3> QED  BY <3>3, <3>4
  <2> QED  BY <2>1
<1>4. ASSUME NEW q \in strays'
      PROVE  IsMade(q.lease)' /\ (IsVoid(q)' \/ IsCharge(q)')
  <2>1. IsMade(q.lease) /\ (IsVoid(q) \/ IsCharge(q))
    <3>1. CASE q \in strays
      BY <3>1 DEF PlanBase
    <3>2. CASE \E p \in Pages : q \in waits[p]
      BY <3>2 DEF PlanBase, WaitsWell, Sound
    <3> QED  BY <1>4, <3>1, <3>2
  <2> QED  BY <1>1, <1>2, <2>1 DEF IsVoid, IsCharge
<1>5. \A r \in DOMAIN charge' : IsMade(r.lease)'
  BY <1>1 DEF PlanBase
<1> QED  BY <1>3, <1>4, <1>5 DEF PlanBase

(* Nobody waits outside of the two steps that send requests.               *)
LEMMA IdleFacts ==
  ASSUME PlanBase, NEW p \in Pages, page[p].step \notin {"void", "post"}
  PROVE  waits[p] = {}
  BY DEF PlanBase, WaitsWell

(* A page moves, and nothing else happens but that it may see badly.       *)
LEMMA MoveBase ==
  ASSUME PlanBase, NEW p \in Pages, NEW s, Show(p, s), Sound(s),
         UNCHANGED <<lease, charge, waits, strays, swept>>, blur' \in {"none", "lost", "blind"},
         \/ page[p].step \notin {"void", "post"}
         \/ s.step = page[p].step /\ s.lease = page[p].lease
  PROVE  PlanBase'
<1>1. Grows
  BY DEF Grows
<1>2. page' = [q \in Pages |-> page'[q]] /\ page'[p] = s /\ \A q \in Pages : q # p => page'[q] = page[q]
  BY ShowFacts DEF PlanBase
<1>3. PlanShape'
  BY <1>2 DEF PlanBase, PlanShape
<1>4. Sound(s)'
  BY <1>1, SoundStays
<1>5. PICK Q : Q = waits[p]
  OBVIOUS
<1>6. WaitsWell(s, Q)'
  <2>1. CASE page[p].step \notin {"void", "post"}
    BY <1>5, <2>1, IdleFacts DEF WaitsWell
  <2>2. CASE s.step = page[p].step /\ s.lease = page[p].lease
    <3>1. WaitsWell(s, Q)
      BY <1>5, <2>2 DEF PlanBase, WaitsWell
    <3> QED  BY <1>1, <3>1, WaitsStay
  <2> QED  BY <2>1, <2>2
<1>7. Sound(page[p])' /\ WaitsWell(page[p], waits[p])'
  BY <1>2, <1>4, <1>5, <1>6
<1>8. \A l \in swept' : l \in Leases /\ lease'[l].status = "ended"
  BY DEF PlanBase
<1> QED  BY <1>1, <1>2, <1>3, <1>7, <1>8, BaseChange

(* The pages that move on or back.                                         *)
LEMMA MoveActs ==
  ASSUME PlanBase, NEW p \in Pages,
         ListUnit(p) \/ Choose(p) \/ OpenEdit(p) \/ Refetch(p) \/ Save(p) \/ TerminateSkip(p)
  PROVE  PlanBase'
<1>0. Sound(page[p]) /\ blur \in {"none", "lost", "blind"}
  BY DEF PlanBase, PlanShape
<1>d. Decides(p) => blur' \in {"none", "lost", "blind"}
  BY <1>0 DEF Decides
<1>1. CASE ListUnit(p) \/ Choose(p)
  <2>1. PICK step \in {"ask", "batch", "clear", "done"} : Show(p, [page[p] EXCEPT !.step = step])
    BY <1>1 DEF ListUnit, Choose
  <2>2. page[p].step \in {"list", "ask"} /\ UNCHANGED <<lease, charge, waits, strays, swept, blur>>
    BY <1>1 DEF ListUnit, Choose
  <2>3. PICK t : t = [page[p] EXCEPT !.step = step]
    OBVIOUS
  <2>4. Sound(t)
    BY <1>0, <2>2, <2>3, StepFacts DEF Sound, Editing
  <2> QED  BY <1>0, <2>1, <2>2, <2>3, <2>4, MoveBase
<1>2. CASE OpenEdit(p)
  <2>1. PICK l \in Leases : /\ page[p].step = "away" /\ lease[l].status # "none"
                            /\ Show(p, [Blank(l) EXCEPT !.step = "form"])
                            /\ UNCHANGED <<lease, charge, waits, strays, swept, blur>>
    BY <1>2 DEF OpenEdit
  <2>2. PICK t : t = [Blank(l) EXCEPT !.step = "form"]
    OBVIOUS
  <2>3. /\ Whole(t) /\ t.step = "form" /\ t.lease = l /\ t.listed = {} /\ t.due = 0 /\ t.end = 0
    <3>1. PICK b : b = Blank(l)
      OBVIOUS
    <3>2. /\ Whole(b) /\ b.lease = l /\ b.listed = {} /\ b.due = 0 /\ b.end = 0
      BY <3>1, BlankFacts
    <3>3. t = [b EXCEPT !.step = "form"]
      BY <2>2, <3>1
    <3> QED  BY <3>2, <3>3, StepFacts
  <2>4. Sound(t)
    BY <2>1, <2>3, RentPlanBounds DEF Sound, IsMade
  <2> QED  BY <1>0, <2>1, <2>2, <2>4, MoveBase
<1>3. CASE Refetch(p)
  <2>1. /\ page[p].step \in Editing
        /\ Show(p, [page[p] EXCEPT !.listed = RowsOf(page[p].lease)])
        /\ UNCHANGED <<lease, charge, waits, strays, swept, blur>>
    BY <1>3 DEF Refetch
  <2>2. PICK t : t = [page[p] EXCEPT !.listed = RowsOf(page[p].lease)]
    OBVIOUS
  <2>3. /\ Whole(t) /\ t.step = page[p].step /\ t.lease = page[p].lease /\ t.listed = RowsOf(page[p].lease)
        /\ t.due = page[p].due /\ t.end = page[p].end
    BY <1>0, <2>2 DEF Sound, Whole
  <2>4. Sound(t)
    BY <1>0, <2>3 DEF Sound
  <2> QED  BY <1>0, <2>1, <2>2, <2>3, <2>4, MoveBase
<1>4. CASE Save(p)
  <2>0. PICK e \in NewEnds, ends \in BOOLEAN, add \in {0, 1} : \E t :
          /\ t = [page[p] EXCEPT !.due = add, !.end = e, !.ends = ends, !.sweep = FALSE, !.said = "nothing"]
          /\ page[p].step = "form"
          /\ \/ Show(p, [t EXCEPT !.step = "sure"])
             \/ Show(p, Ticked([t EXCEPT !.step = "save"]))
          /\ Decides(p)
          /\ UNCHANGED <<lease, charge, waits, strays, swept>>
    BY <1>4 DEF Save
  <2>1. PICK t :
          /\ t = [page[p] EXCEPT !.due = add, !.end = e, !.ends = ends, !.sweep = FALSE, !.said = "nothing"]
          /\ page[p].step = "form"
          /\ \/ Show(p, [t EXCEPT !.step = "sure"])
             \/ Show(p, Ticked([t EXCEPT !.step = "save"]))
          /\ Decides(p)
          /\ UNCHANGED <<lease, charge, waits, strays, swept>>
    BY <2>0
  <2>2. /\ Whole(t) /\ t.step = "form" /\ t.lease = page[p].lease /\ t.listed = page[p].listed
        /\ t.due = add /\ t.end = e
    BY <1>0, <2>1 DEF Sound, Whole
  <2>3. e \in Nat /\ add \in 0 .. LastDueDay
    BY RentPlanBounds
  <2>4. PICK u, w : u = [t EXCEPT !.step = "sure"] /\ w = [t EXCEPT !.step = "save"]
    OBVIOUS
  <2>a. \A x \in {u, w} : /\ Whole(x) /\ x.step \in {"sure", "save"} /\ x.lease = page[p].lease
                          /\ x.listed = page[p].listed /\ x.due = add /\ x.end = e
    BY <2>2, <2>4, StepFacts
  <2>5. Sound(u) /\ Sound(w)
    BY <1>0, <2>1, <2>3, <2>a DEF Sound, Editing
  <2>6. PICK v : v = Ticked(w)
    OBVIOUS
  <2>7. Sound(v)
    BY <2>5, <2>6, TickedFacts DEF Sound
  <2> QED  BY <1>0, <1>d, <2>1, <2>4, <2>5, <2>6, <2>7, MoveBase
<1>5. CASE TerminateSkip(p)
  <2>1. /\ page[p].step = "sure"
        /\ \/ Show(p, Ticked([page[p] EXCEPT !.step = "save"])) /\ Decides(p)
           \/ Show(p, Form(page[p], "nothing")) /\ UNCHANGED blur
        /\ UNCHANGED <<lease, charge, waits, strays, swept>>
    BY <1>5 DEF TerminateSkip
  <2>2. PICK w : w = [page[p] EXCEPT !.step = "save"]
    OBVIOUS
  <2>3. Sound(w)
    BY <1>0, <2>1, <2>2, StepFacts DEF Sound, Editing
  <2>4. PICK v, f : v = Ticked(w) /\ f = Form(page[p], "nothing")
    OBVIOUS
  <2>5. Sound(v)
    BY <2>3, <2>4, TickedFacts DEF Sound
  <2>a. /\ Whole(f) /\ f.step = "form" /\ f.lease = page[p].lease /\ f.listed = page[p].listed
        /\ f.due = 0 /\ f.end = 0
    <3>1. FormOf(f, page[p], "nothing")
      BY <2>4, FormFacts
    <3> QED  BY <3>1 DEF FormOf
  <2>6. Sound(f)
    BY <1>0, <2>1, <2>a, RentPlanBounds DEF Sound, Editing
  <2> QED  BY <1>0, <1>d, <2>1, <2>2, <2>4, <2>5, <2>6, MoveBase
<1> QED  BY <1>1, <1>2, <1>3, <1>4, <1>5

(* The steps of a page that add charges or leases, or send requests.       *)
LEMMA CreateBase ==
  ASSUME PlanBase, NEW p \in Pages, CreateLease(p)
  PROVE  PlanBase'
<1>1. PICK l \in Leases, s \in Starts, e \in Ends, due \in DueDays, extras \in Extras :
        /\ page[p].step = "away"
        /\ lease[l].status = "none"
        /\ lease'  = [lease EXCEPT ![l] = [status |-> "live", start |-> s, end |-> e]]
        /\ \/ UNCHANGED page
           \/ Show(p, [Blank(l) EXCEPT !.step = "list", !.due = due, !.end = e,
                                       !.plan = Schedule(s, e, due, extras)])
        /\ UNCHANGED <<charge, waits, strays, swept, blur>>
  BY DEF CreateLease
<1>2. /\ lease' = [k \in Leases |-> lease'[k]] /\ \A k \in Leases : k # l => lease'[k] = lease[k]
      /\ lease'[l] = [status |-> "live", start |-> s, end |-> e]
  BY <1>1 DEF PlanBase, PlanShape
<1>3. Grows
  BY <1>1, <1>2 DEF Grows
<1>4. s \in Nat /\ e \in Nat /\ due \in 0 .. LastDueDay
  BY RentPlanBounds
<1>5. PICK t : t = [Blank(l) EXCEPT !.step = "list", !.due = due, !.end = e, !.plan = Schedule(s, e, due, extras)]
  OBVIOUS
<1>6. Whole(t) /\ t.step = "list" /\ t.lease = l /\ t.due = due /\ t.end = e
  <2>1. PICK plan : plan = Schedule(s, e, due, extras)
    OBVIOUS
  <2> QED  BY <1>5, <2>1 DEF Blank, Whole
<1>7. Sound(t)'
  BY <1>2, <1>4, <1>6 DEF Sound, IsMade, Editing
<1>8. waits[p] = {}
  BY <1>1, IdleFacts
<1>9. page' = [q \in Pages |-> page'[q]] /\ \A q \in Pages : q # p => page'[q] = page[q]
  BY <1>1, ShowFacts DEF PlanBase, PlanShape
<1>10. page'[p] = page[p] \/ (Sound(page[p])' /\ WaitsWell(page[p], waits[p])')
  <2>1. CASE UNCHANGED page
    BY <2>1
  <2>2. CASE Show(p, t)
    <3>1. page'[p] = t
      BY <2>2, ShowFacts DEF PlanBase
    <3> QED  BY <1>1, <1>7, <1>8, <3>1 DEF WaitsWell
  <2> QED  BY <1>1, <1>5, <2>1, <2>2
<1>11. PlanShape'
  <2>1. lease'[l].start = s /\ lease'[l] = [status |-> lease'[l].status, start |-> lease'[l].start, end |-> lease'[l].end]
    BY <1>2
  <2> QED  BY <1>1, <1>2, <1>4, <1>9, <2>1 DEF PlanBase, PlanShape
<1>12. \A k \in swept' : k \in Leases /\ lease'[k].status = "ended"
  BY <1>1, <1>2 DEF PlanBase
<1> QED  BY <1>1, <1>3, <1>9, <1>10, <1>11, <1>12, BaseChange

LEMMA ClearBase ==
  ASSUME PlanBase, NEW p \in Pages, ClearUnit(p)
  PROVE  PlanBase'
<1>1. PICK step \in {"batch", "done"} :
        /\ page[p].step = "clear"
        /\ UNCHANGED charge \/ \E R : Void(R)
        /\ \/ Show(p, [page[p] EXCEPT !.step = step])
           \/ Show(p, [page[p] EXCEPT !.step = step, !.plan = {}, !.said = "warning"])
        /\ UNCHANGED <<lease, waits, strays, swept, blur>>
  BY DEF ClearUnit
<1>2. charge' = [r \in DOMAIN charge' |-> charge'[r]] /\ DOMAIN charge' = DOMAIN charge
  BY <1>1, VoidFacts DEF PlanBase, PlanShape
<1>3. Grows
  BY <1>1, <1>2 DEF Grows
<1>4. PICK t : /\ Show(p, t)
               /\ t \in {[page[p] EXCEPT !.step = step], [page[p] EXCEPT !.step = step, !.plan = {}, !.said = "warning"]}
  BY <1>1
<1>5. Whole(t) /\ t.step = step /\ t.lease = page[p].lease /\ t.due = page[p].due /\ t.end = page[p].end
  <2>1. PICK s : s = page[p]
    OBVIOUS
  <2>2. Whole(s)
    BY <2>1 DEF PlanBase, Sound
  <2>3. CASE t = [s EXCEPT !.step = step]
    BY <2>1, <2>2, <2>3 DEF Whole
  <2>4. CASE t = [s EXCEPT !.step = step, !.plan = {}, !.said = "warning"]
    BY <2>1, <2>2, <2>4 DEF Whole
  <2> QED  BY <1>4, <2>1, <2>3, <2>4
<1>6. Sound(t)
  BY <1>1, <1>5 DEF PlanBase, Sound, Editing
<1>7. page' = [q \in Pages |-> page'[q]] /\ page'[p] = t /\ \A q \in Pages : q # p => page'[q] = page[q]
  BY <1>4, ShowFacts DEF PlanBase
<1>8. Sound(page[p])' /\ WaitsWell(page[p], waits[p])'
  <2>1. waits[p] = {}
    BY <1>1, IdleFacts
  <2>2. Sound(t)'
    BY <1>3, <1>6, SoundStays
  <2> QED  BY <1>1, <1>7, <2>1, <2>2 DEF WaitsWell
<1>9. PlanShape'
  BY <1>1, <1>2, <1>7 DEF PlanBase, PlanShape
<1>10. \A k \in swept' : k \in Leases /\ lease'[k].status = "ended"
  BY <1>1 DEF PlanBase
<1> QED  BY <1>1, <1>2, <1>3, <1>7, <1>8, <1>9, <1>10, BaseChange

LEMMA BatchBase ==
  ASSUME PlanBase, NEW p \in Pages, Batch(p)
  PROVE  PlanBase'
<1>1. PICK said \in {"success", "warning"} :
        /\ page[p].step = "batch"
        /\ UNCHANGED charge \/ (lease[page[p].lease].status = "live" /\ Add(New(page[p].lease, page[p].plan)))
        /\ Show(p, [page[p] EXCEPT !.step = "done", !.plan = {}, !.said = said])
        /\ UNCHANGED <<lease, waits, strays, swept, blur>>
  BY DEF Batch
<1>2. PICK l, items : l = page[p].lease /\ items = page[p].plan
  OBVIOUS
<1>3. IsMade(l)
  BY <1>1, <1>2 DEF PlanBase, Sound
<1>4. /\ charge' = [r \in DOMAIN charge' |-> charge'[r]] /\ DOMAIN charge \subseteq DOMAIN charge'
      /\ \A r \in DOMAIN charge' \ DOMAIN charge : r.lease = l
  <2>1. CASE UNCHANGED charge
    BY <2>1 DEF PlanBase, PlanShape
  <2>2. CASE Add(New(l, items))
    <3>1. PlanShape
      BY DEF PlanBase
    <3> QED  BY <2>2, <3>1, AddGrows
  <2> QED  BY <1>1, <1>2, <2>1, <2>2
<1>5. Grows
  BY <1>1, <1>4 DEF Grows
<1>6. PICK t : t = [page[p] EXCEPT !.step = "done", !.plan = {}, !.said = said]
  OBVIOUS
<1>7. Whole(t) /\ t.step = "done" /\ t.lease = page[p].lease /\ t.due = page[p].due /\ t.end = page[p].end
  <2>1. PICK s : s = page[p]
    OBVIOUS
  <2>2. Whole(s)
    BY <2>1 DEF PlanBase, Sound
  <2>3. t = [s EXCEPT !.step = "done", !.plan = {}, !.said = said]
    BY <1>6, <2>1
  <2> QED  BY <2>1, <2>2, <2>3 DEF Whole
<1>8. Sound(t)
  BY <1>1, <1>7 DEF PlanBase, Sound, Editing
<1>9. page' = [q \in Pages |-> page'[q]] /\ page'[p] = t /\ \A q \in Pages : q # p => page'[q] = page[q]
  BY <1>1, <1>6, ShowFacts DEF PlanBase
<1>10. Sound(page[p])' /\ WaitsWell(page[p], waits[p])'
  <2>1. waits[p] = {}
    BY <1>1, IdleFacts
  <2>2. Sound(t)'
    BY <1>5, <1>8, SoundStays
  <2> QED  BY <1>1, <1>9, <2>1, <2>2 DEF WaitsWell
<1>11. PlanShape'
  BY <1>1, <1>4, <1>9 DEF PlanBase, PlanShape
<1>12. IsMade(l)' /\ \A k \in swept' : k \in Leases /\ lease'[k].status = "ended"
  BY <1>1, <1>3 DEF PlanBase, IsMade
<1> QED  BY <1>1, <1>4, <1>5, <1>9, <1>10, <1>11, <1>12, BaseChange

LEMMA TerminateVoidBase ==
  ASSUME PlanBase, NEW p \in Pages, TerminateVoid(p)
  PROVE  PlanBase'
<1>1. /\ page[p].step = "sure"
      /\ Show(p, Ticked([page[p] EXCEPT !.step = "void", !.sweep = TRUE]))
      /\ waits' = [waits EXCEPT ![p] = VoidsOf(p)]
      /\ Decides(p)
      /\ UNCHANGED <<lease, charge, strays, swept>>
  BY DEF TerminateVoid
<1>2. PICK w, t : w = [page[p] EXCEPT !.step = "void", !.sweep = TRUE] /\ t = Ticked(w)
  OBVIOUS
<1>3. /\ Whole(w) /\ w.step = "void" /\ w.lease = page[p].lease /\ w.listed = page[p].listed
      /\ w.due = page[p].due /\ w.end = page[p].end
  <2>1. PICK s : s = page[p]
    OBVIOUS
  <2>2. Whole(s)
    BY <2>1 DEF PlanBase, Sound
  <2>3. w = [s EXCEPT !.step = "void", !.sweep = TRUE]
    BY <1>2, <2>1
  <2> QED  BY <2>1, <2>2, <2>3 DEF Whole
<1>4. /\ Whole(t) /\ t.step = "void" /\ t.lease = page[p].lease /\ t.listed = page[p].listed
      /\ t.due = page[p].due /\ t.end = page[p].end
  BY <1>2, <1>3, TickedFacts
<1>5. Sound(t)
  BY <1>1, <1>4 DEF PlanBase, Sound, Editing
<1>6. Grows
  BY <1>1 DEF Grows
<1>7. page' = [q \in Pages |-> page'[q]] /\ page'[p] = t /\ \A q \in Pages : q # p => page'[q] = page[q]
  BY <1>1, <1>2, ShowFacts DEF PlanBase
<1>8. /\ waits' = [q \in Pages |-> waits'[q]] /\ waits'[p] = VoidsOf(p)
      /\ \A q \in Pages : q # p => waits'[q] = waits[q]
  BY <1>1 DEF PlanBase, PlanShape
<1>9. Sound(page[p])' /\ WaitsWell(page[p], waits[p])'
  <2>1. PICK Q : Q = VoidsOf(p)
    OBVIOUS
  <2>2. page[p].listed \subseteq RowsOf(page[p].lease)
    BY <1>1 DEF PlanBase, Sound, Editing
  <2>3. ASSUME NEW q \in Q
        PROVE  q.lease = t.lease /\ IsVoid(q)
    <3>1. PICK r \in page[p].listed : q = [op |-> "void", lease |-> page[p].lease, row |-> r]
      BY <2>1 DEF VoidsOf
    <3> QED  BY <1>4, <2>2, <3>1 DEF IsVoid
  <2>4. WaitsWell(t, Q)
    BY <1>4, <2>3 DEF WaitsWell
  <2>5. WaitsWell(t, Q)' /\ Sound(t)'
    BY <1>5, <1>6, <2>4, WaitsStay, SoundStays
  <2> QED  BY <1>7, <1>8, <2>1, <2>5
<1>10. PlanShape'
  BY <1>1, <1>7, <1>8 DEF PlanBase, PlanShape, Decides
<1>11. \A k \in swept' : k \in Leases /\ lease'[k].status = "ended"
  BY <1>1 DEF PlanBase
<1> QED  BY <1>1, <1>6, <1>7, <1>8, <1>9, <1>10, <1>11, BaseChange

(* What saving a lease does to the leases.                                 *)
LEMMA PutLease ==
  ASSUME PlanBase, NEW p \in Pages, page[p].step = "save",
         lease' = [lease EXCEPT ![page[p].lease].status = IF page[p].ends THEN "ended" ELSE "live",
                                ![page[p].lease].end    = page[p].end]
  PROVE  /\ lease' = [l \in Leases |-> lease'[l]]
         /\ \A l \in Leases : lease'[l] = [status |-> lease'[l].status, start |-> lease'[l].start,
                                           end |-> lease'[l].end]
         /\ \A l \in Leases : lease'[l].start = lease[l].start
         /\ \A l \in Leases : l # page[p].lease => lease'[l] = lease[l]
         /\ page[p].lease \in Leases
         /\ lease'[page[p].lease].status = IF page[p].ends THEN "ended" ELSE "live"
         /\ \A l \in Leases : lease[l].status # "none" => lease'[l].status # "none"
<1>1. PICK l \in Leases : l = page[p].lease
  BY DEF PlanBase, Sound, IsMade
<1>2. PICK status, end : status = (IF page[p].ends THEN "ended" ELSE "live") /\ end = page[p].end
  OBVIOUS
<1>3. lease' = [lease EXCEPT ![l].status = status, ![l].end = end]
  BY <1>1, <1>2
<1>4. /\ lease = [k \in Leases |-> lease[k]]
      /\ \A k \in Leases : lease[k] = [status |-> lease[k].status, start |-> lease[k].start, end |-> lease[k].end]
  BY DEF PlanBase, PlanShape
<1>5. /\ lease' = [k \in Leases |-> lease'[k]]
      /\ \A k \in Leases : k # l => lease'[k] = lease[k]
      /\ lease'[l] = [status |-> status, start |-> lease[l].start, end |-> end]
  BY <1>3, <1>4
<1>6. status \in {"ended", "live"} /\ status # "none"
  BY <1>2
<1>7. lease'[l].status = status /\ lease'[l].start = lease[l].start /\ lease'[l].end = end
  BY <1>5
<1> QED  BY <1>1, <1>2, <1>4, <1>5, <1>6, <1>7

LEMMA PutBase ==
  ASSUME PlanBase, NEW p \in Pages, Put(p)
  PROVE  PlanBase'
<1> DEFINE s == page[p]
<1>0. Sound(s) /\ Whole(s) /\ waits[p] = {} /\ s.step = "save"
  BY IdleFacts DEF Put, PlanBase, Sound
<1>1. /\ \/ UNCHANGED <<lease, swept>>
         \/ /\ lease' = [lease EXCEPT ![page[p].lease].status = IF page[p].ends THEN "ended" ELSE "live",
                                      ![page[p].lease].end    = page[p].end]
            /\ swept' = IF s.ends THEN IF s.sweep THEN swept \cup {s.lease} ELSE swept
                        ELSE swept \ {s.lease}
      /\ \/ \E said \in {"nothing", "exists"} : Show(p, Form(s, said)) /\ UNCHANGED waits
         \/ Show(p, Nothing) /\ UNCHANGED waits
         \/ /\ Show(p, [s EXCEPT !.step = "post", !.plan = {}])
            /\ waits' = [waits EXCEPT ![p] = [op : {"charge"}, lease : {s.lease}, item : s.plan]]
      /\ UNCHANGED <<charge, strays, blur>>
  BY DEF Put
<1>2. /\ lease' = [l \in Leases |-> lease'[l]]
      /\ \A l \in Leases : lease'[l] = [status |-> lease'[l].status, start |-> lease'[l].start,
                                        end |-> lease'[l].end]
      /\ \A l \in Leases : lease'[l].start \in Nat
      /\ \A l \in Leases : lease[l].status # "none" => lease'[l].status # "none"
      /\ \A l \in swept' : l \in Leases /\ lease'[l].status = "ended"
  <2>1. CASE UNCHANGED <<lease, swept>>
    BY <2>1 DEF PlanBase, PlanShape
  <2>2. CASE ~UNCHANGED <<lease, swept>>
    <3>1. PICK l \in Leases : l = page[p].lease
      BY <1>0 DEF Sound, IsMade
    <3>2. /\ lease' = [k \in Leases |-> lease'[k]]
          /\ \A k \in Leases : lease'[k] = [status |-> lease'[k].status, start |-> lease'[k].start,
                                            end |-> lease'[k].end]
          /\ \A k \in Leases : lease'[k].start = lease[k].start
          /\ \A k \in Leases : k # l => lease'[k] = lease[k]
          /\ lease'[l].status = IF page[p].ends THEN "ended" ELSE "live"
          /\ \A k \in Leases : lease[k].status # "none" => lease'[k].status # "none"
      BY <1>0, <1>1, <2>2, <3>1, PutLease
    <3>3. swept' \subseteq swept \cup {l} /\ (~page[p].ends => l \notin swept')
      BY <1>1, <2>2, <3>1
    <3>4. \A k \in swept : k \in Leases /\ lease[k].status = "ended"
      BY DEF PlanBase
    <3>5. \A k \in swept' : k \in Leases /\ lease'[k].status = "ended"
      BY <3>1, <3>2, <3>3, <3>4
    <3> QED  BY <3>2, <3>5 DEF PlanBase, PlanShape
  <2> QED  BY <2>1, <2>2
<1>3. Grows
  BY <1>1, <1>2 DEF Grows
<1>4. PICK t, Q :
        /\ Show(p, t) /\ waits' = [waits EXCEPT ![p] = Q]
        /\ \/ \E said \in {"nothing", "exists"} : t = Form(s, said) /\ Q = {}
           \/ t = Nothing /\ Q = {}
           \/ t = [s EXCEPT !.step = "post", !.plan = {}] /\ Q = [op : {"charge"}, lease : {s.lease}, item : s.plan]
  <2>1. UNCHANGED waits => waits' = [waits EXCEPT ![p] = {}]
    BY <1>0 DEF PlanBase, PlanShape
  <2> QED  BY <1>1, <2>1
<1>5. Sound(t) /\ WaitsWell(t, Q)
  <2>1. CASE \E said \in {"nothing", "exists"} : t = Form(s, said) /\ Q = {}
    <3>1. PICK said \in {"nothing", "exists"} : t = Form(s, said) /\ Q = {}
      BY <2>1
    <3>2. FormOf(t, s, said)
      BY <3>1, FormFacts
    <3>3. /\ Whole(t) /\ t.step = "form" /\ t.lease = s.lease /\ t.listed = s.listed /\ t.due = 0
          /\ t.end \in {s.end, 0}
      BY <3>2 DEF FormOf
    <3>4. 0 \in 0 .. LastDueDay
      BY RentPlanBounds
    <3> QED  BY <1>0, <3>1, <3>3, <3>4 DEF Sound, WaitsWell, Editing
  <2>2. CASE t = Nothing /\ Q = {}
    <3>1. 0 \in 0 .. LastDueDay
      BY RentPlanBounds
    <3> QED  BY <2>2, <3>1, NothingFacts DEF Sound, WaitsWell, Editing
  <2>3. CASE t = [s EXCEPT !.step = "post", !.plan = {}] /\ Q = [op : {"charge"}, lease : {s.lease}, item : s.plan]
    <3>1. PICK u : u = s
      OBVIOUS
    <3>2. Whole(u) /\ t = [u EXCEPT !.step = "post", !.plan = {}]
      BY <1>0, <2>3, <3>1
    <3>3. Whole(t) /\ t.step = "post" /\ t.lease = u.lease /\ t.listed = u.listed /\ t.due = u.due /\ t.end = u.end
      BY <3>2 DEF Whole
    <3>4. \A q \in Q : q.lease = t.lease /\ IsCharge(q)
      BY <2>3, <3>1, <3>3 DEF IsCharge
    <3> QED  BY <1>0, <3>1, <3>3, <3>4 DEF Sound, WaitsWell, Editing
  <2> QED  BY <1>4, <2>1, <2>2, <2>3
<1>6. page' = [q \in Pages |-> page'[q]] /\ page'[p] = t /\ \A q \in Pages : q # p => page'[q] = page[q]
  BY <1>4, ShowFacts DEF PlanBase
<1>7. waits' = [q \in Pages |-> waits'[q]] /\ waits'[p] = Q /\ \A q \in Pages : q # p => waits'[q] = waits[q]
  BY <1>4 DEF PlanBase, PlanShape
<1>8. Sound(page[p])' /\ WaitsWell(page[p], waits[p])'
  <2>1. Sound(t)' /\ WaitsWell(t, Q)'
    BY <1>3, <1>5, SoundStays, WaitsStay
  <2> QED  BY <1>6, <1>7, <2>1
<1>9. PlanShape'
  BY <1>1, <1>2, <1>6, <1>7 DEF PlanBase, PlanShape
<1> QED  BY <1>1, <1>2, <1>3, <1>6, <1>7, <1>8, <1>9, BaseChange

(* A page that hears an answer, in words.                                  *)
LEMMA AnswerBecomes ==
  ASSUME PlanBase, NEW p \in Pages, Answer(p)
  PROVE  \E q \in waits[p], answer \in {"yes", "no"} :
           /\ Reach(q, answer) /\ q.lease = page[p].lease /\ IsMade(q.lease)
           /\ \/ IsVoid(q) /\ page[p].step = "void"
              \/ IsCharge(q) /\ page[p].step = "post"
           /\ \/ /\ page' = page /\ waits' = [waits EXCEPT ![p] = waits[p] \ {q}] /\ strays' = strays
                 /\ answer = "yes"
              \/ /\ page[p].step = "void" /\ Show(p, [page[p] EXCEPT !.step = "save"])
                 /\ waits' = [waits EXCEPT ![p] = {}] /\ strays' = strays \cup (waits[p] \ {q})
              \/ /\ page[p].step = "post"
                 /\ \E said \in {"success", "warning"} :
                      /\ Show(p, Form(page[p], said))
                      /\ said = "success" => answer = "yes" /\ waits[p] \ {q} = {}
                 /\ waits' = [waits EXCEPT ![p] = {}] /\ strays' = strays \cup (waits[p] \ {q})
           /\ UNCHANGED <<lease, swept>>
<1>1. PICK q \in waits[p], answer \in {"yes", "no"} :
        /\ Reach(q, answer)
        /\ Show(p, After(page[p], answer, waits[p] \ {q}))
        /\ IF page[p].step = After(page[p], answer, waits[p] \ {q}).step
           THEN waits' = [waits EXCEPT ![p] = waits[p] \ {q}] /\ UNCHANGED strays
           ELSE waits' = [waits EXCEPT ![p] = {}] /\ strays' = strays \cup (waits[p] \ {q})
        /\ UNCHANGED <<lease, swept>>
  BY DEF Answer
<1>2. PICK s, left : s = page[p] /\ left = waits[p] \ {q}
  OBVIOUS
<1>3. /\ q.lease = s.lease /\ IsMade(q.lease) /\ Whole(s)
      /\ \/ IsVoid(q) /\ s.step = "void"
         \/ IsCharge(q) /\ s.step = "post"
  BY <1>2 DEF PlanBase, WaitsWell, Sound
<1>4. CASE left # {} /\ answer = "yes"
  <2>1. After(s, answer, left) = s
    BY <1>4 DEF After
  <2>2. page' = page
    BY <1>1, <1>2, <2>1 DEF Show, PlanBase, PlanShape
  <2>3. waits' = [waits EXCEPT ![p] = waits[p] \ {q}] /\ UNCHANGED strays
    BY <1>1, <1>2, <2>1
  <2> QED  BY <1>1, <1>2, <1>3, <1>4, <2>2, <2>3
<1>5. CASE ~(left # {} /\ answer = "yes") /\ s.step = "void"
  <2>1. After(s, answer, left) = [s EXCEPT !.step = "save"]
    BY <1>5 DEF After
  <2>2. [s EXCEPT !.step = "save"].step = "save"
    BY <1>3 DEF Whole
  <2>3. /\ Show(p, [page[p] EXCEPT !.step = "save"])
        /\ waits' = [waits EXCEPT ![p] = {}] /\ strays' = strays \cup (waits[p] \ {q})
    BY <1>1, <1>2, <1>5, <2>1, <2>2
  <2> QED  BY <1>1, <1>2, <1>3, <1>5, <2>3
<1>6. CASE ~(left # {} /\ answer = "yes") /\ s.step = "post"
  <2>1. PICK said \in {"success", "warning"} :
          said = IF answer = "yes" THEN "success" ELSE "warning"
    OBVIOUS
  <2>2. After(s, answer, left) = Form(s, said)
    BY <1>6, <2>1 DEF After
  <2>3. Form(s, said).step = "form"
    <3>1. PICK f : f = Form(s, said)
      OBVIOUS
    <3>2. FormOf(f, s, said)
      BY <3>1, FormFacts
    <3> QED  BY <3>1, <3>2 DEF FormOf
  <2>4. /\ Show(p, Form(page[p], said))
        /\ waits' = [waits EXCEPT ![p] = {}] /\ strays' = strays \cup (waits[p] \ {q})
    BY <1>1, <1>2, <1>6, <2>2, <2>3
  <2>5. said = "success" => answer = "yes" /\ waits[p] \ {q} = {}
    BY <1>2, <1>6, <2>1
  <2> QED  BY <1>1, <1>2, <1>3, <1>6, <2>4, <2>5
<1> QED  BY <1>3, <1>4, <1>5, <1>6

LEMMA ReachGrows ==
  ASSUME PlanBase, NEW q, IsVoid(q) \/ IsCharge(q), IsMade(q.lease), NEW answer, Reach(q, answer), UNCHANGED lease
  PROVE  /\ Grows
         /\ charge' = [r \in DOMAIN charge' |-> charge'[r]]
         /\ \A r \in DOMAIN charge' \ DOMAIN charge : IsMade(r.lease)'
         /\ blur' \in {"none", "lost", "blind"}
<1>1. PlanShape
  BY DEF PlanBase
<1>2. /\ charge' = [r \in DOMAIN charge' |-> charge'[r]]
      /\ DOMAIN charge \subseteq DOMAIN charge'
      /\ blur' \in {"none", "lost", "blind"}
      /\ \A r \in DOMAIN charge' \ DOMAIN charge : r.lease = q.lease
  BY <1>1, ReachFacts
<1> QED  BY <1>2 DEF Grows, IsMade

LEMMA AnswerBase ==
  ASSUME PlanBase, NEW p \in Pages, Answer(p)
  PROVE  PlanBase'
<1>1. PICK q \in waits[p], answer \in {"yes", "no"} :
           /\ Reach(q, answer) /\ q.lease = page[p].lease /\ IsMade(q.lease)
           /\ \/ IsVoid(q) /\ page[p].step = "void"
              \/ IsCharge(q) /\ page[p].step = "post"
           /\ \/ /\ page' = page /\ waits' = [waits EXCEPT ![p] = waits[p] \ {q}] /\ strays' = strays
                 /\ answer = "yes"
              \/ /\ page[p].step = "void" /\ Show(p, [page[p] EXCEPT !.step = "save"])
                 /\ waits' = [waits EXCEPT ![p] = {}] /\ strays' = strays \cup (waits[p] \ {q})
              \/ /\ page[p].step = "post"
                 /\ \E said \in {"success", "warning"} :
                      /\ Show(p, Form(page[p], said))
                      /\ said = "success" => answer = "yes" /\ waits[p] \ {q} = {}
                 /\ waits' = [waits EXCEPT ![p] = {}] /\ strays' = strays \cup (waits[p] \ {q})
           /\ UNCHANGED <<lease, swept>>
  BY AnswerBecomes
<1>2. /\ Grows
      /\ charge' = [r \in DOMAIN charge' |-> charge'[r]]
      /\ \A r \in DOMAIN charge' \ DOMAIN charge : IsMade(r.lease)'
      /\ blur' \in {"none", "lost", "blind"}
  BY <1>1, ReachGrows
<1>3. Sound(page[p]) /\ WaitsWell(page[p], waits[p]) /\ page = [r \in Pages |-> page[r]]
  BY DEF PlanBase, PlanShape
<1>4. PICK t, Q : /\ Show(p, t) /\ waits' = [waits EXCEPT ![p] = Q]
                  /\ \/ t = page[p] /\ Q = waits[p] \ {q}
                     \/ t = [page[p] EXCEPT !.step = "save"] /\ Q = {} /\ page[p].step = "void"
                     \/ \E said \in {"success", "warning"} : t = Form(page[p], said) /\ Q = {} /\ page[p].step = "post"
  BY <1>1, <1>3 DEF Show
<1>5. Sound(t) /\ WaitsWell(t, Q)
  <2>1. PICK s : s = page[p]
    OBVIOUS
  <2>2. CASE t = page[p] /\ Q = waits[p] \ {q}
    BY <1>3, <2>2 DEF WaitsWell
  <2>3. CASE t = [page[p] EXCEPT !.step = "save"] /\ Q = {} /\ page[p].step = "void"
    <3>1. Whole(s) /\ t = [s EXCEPT !.step = "save"]
      BY <1>3, <2>1, <2>3 DEF Sound
    <3>2. Whole(t) /\ t.step = "save" /\ t.lease = s.lease /\ t.listed = s.listed /\ t.due = s.due /\ t.end = s.end
      BY <3>1 DEF Whole
    <3> QED  BY <1>3, <2>1, <2>3, <3>2 DEF Sound, WaitsWell, Editing
  <2>4. CASE \E said \in {"success", "warning"} : t = Form(page[p], said) /\ Q = {} /\ page[p].step = "post"
    <3>1. PICK said \in {"success", "warning"} : t = Form(s, said) /\ Q = {} /\ s.step = "post"
      BY <2>1, <2>4
    <3>2. FormOf(t, s, said)
      BY <3>1, FormFacts
    <3>3. /\ Whole(t) /\ t.step = "form" /\ t.lease = s.lease /\ t.listed = s.listed /\ t.due = 0
          /\ t.end \in {s.end, 0}
      BY <3>2 DEF FormOf
    <3>4. 0 \in 0 .. LastDueDay
      BY RentPlanBounds
    <3> QED  BY <1>3, <2>1, <3>1, <3>3, <3>4 DEF Sound, WaitsWell, Editing
  <2> QED  BY <1>4, <2>2, <2>3, <2>4
<1>6. page' = [r \in Pages |-> page'[r]] /\ page'[p] = t /\ \A r \in Pages : r # p => page'[r] = page[r]
  BY <1>4, ShowFacts DEF PlanBase
<1>7. waits' = [r \in Pages |-> waits'[r]] /\ waits'[p] = Q /\ \A r \in Pages : r # p => waits'[r] = waits[r]
  BY <1>4 DEF PlanBase, PlanShape
<1>8. Sound(page[p])' /\ WaitsWell(page[p], waits[p])'
  <2>1. Sound(t)' /\ WaitsWell(t, Q)'
    BY <1>2, <1>5, SoundStays, WaitsStay
  <2> QED  BY <1>6, <1>7, <2>1
<1>9. PlanShape'
  BY <1>1, <1>2, <1>6, <1>7 DEF PlanBase, PlanShape
<1>10. \A k \in swept' : k \in Leases /\ lease'[k].status = "ended"
  BY <1>1 DEF PlanBase
<1>11. \A r \in strays' : r \in strays \/ \E o \in Pages : r \in waits[o]
  BY <1>1
<1> QED  BY <1>2, <1>6, <1>7, <1>8, <1>9, <1>10, <1>11, BaseChange

LEMMA LeaveBase ==
  ASSUME PlanBase, NEW p \in Pages, Leave(p)
  PROVE  PlanBase'
<1>1. /\ Show(p, Nothing) /\ waits' = [waits EXCEPT ![p] = {}] /\ strays' = strays \cup waits[p]
      /\ UNCHANGED <<lease, charge, swept, blur>>
  BY DEF Leave
<1>2. page' = [r \in Pages |-> page'[r]] /\ page'[p] = Nothing /\ \A r \in Pages : r # p => page'[r] = page[r]
  BY <1>1, ShowFacts DEF PlanBase
<1>3. waits' = [r \in Pages |-> waits'[r]] /\ waits'[p] = {} /\ \A r \in Pages : r # p => waits'[r] = waits[r]
  BY <1>1 DEF PlanBase, PlanShape
<1>4. 0 \in 0 .. LastDueDay
  BY RentPlanBounds
<1>5. Grows
  BY <1>1 DEF Grows
<1>6. PICK t : t = Nothing
  OBVIOUS
<1>7. Sound(t)
  BY <1>4, <1>6, NothingFacts DEF Sound, Editing
<1>8. Sound(page[p])' /\ WaitsWell(page[p], waits[p])'
  <2>1. Sound(t)'
    BY <1>5, <1>7, SoundStays
  <2>2. page'[p] = t
    BY <1>2, <1>6
  <2> QED  BY <1>3, <2>1, <2>2 DEF WaitsWell
<1>9. PlanShape'
  BY <1>1, <1>2, <1>3 DEF PlanBase, PlanShape
<1>10. \A k \in swept' : k \in Leases /\ lease'[k].status = "ended"
  BY <1>1 DEF PlanBase
<1> QED  BY <1>1, <1>2, <1>3, <1>5, <1>8, <1>9, <1>10, BaseChange

LEMMA StrayBase ==
  ASSUME PlanBase, Stray
  PROVE  PlanBase'
<1>1. PICK q \in strays, answer \in {"yes", "no"} :
        Reach(q, answer) /\ strays' = strays \ {q} /\ UNCHANGED <<lease, page, waits, swept>>
  BY DEF Stray
<1>2. IsMade(q.lease) /\ (IsVoid(q) \/ IsCharge(q))
  BY DEF PlanBase
<1>3. /\ Grows
      /\ charge' = [r \in DOMAIN charge' |-> charge'[r]]
      /\ \A r \in DOMAIN charge' \ DOMAIN charge : IsMade(r.lease)'
      /\ blur' \in {"none", "lost", "blind"}
  BY <1>1, <1>2, ReachGrows
<1>4. PlanShape'
  BY <1>1, <1>3 DEF PlanBase, PlanShape
<1>5. \A k \in swept' : k \in Leases /\ lease'[k].status = "ended"
  BY <1>1 DEF PlanBase
<1> QED  BY <1>1, <1>3, <1>4, <1>5, BaseChange

LEMMA MoneyBase ==
  ASSUME PlanBase, Pay \/ Settle
  PROVE  PlanBase'
<1>1. PICK r \in DOMAIN charge, s \in {"pending", "paid", "due"} :
        charge' = [charge EXCEPT ![r] = s] /\ UNCHANGED <<lease, page, waits, strays, swept, blur>>
  BY DEF Pay, Settle
<1>2. charge' = [k \in DOMAIN charge' |-> charge'[k]] /\ DOMAIN charge' = DOMAIN charge
  BY <1>1
<1>3. Grows
  BY <1>1, <1>2 DEF Grows
<1>4. PlanShape'
  BY <1>1, <1>2 DEF PlanBase, PlanShape
<1>5. \A k \in swept' : k \in Leases /\ lease'[k].status = "ended"
  BY <1>1 DEF PlanBase
<1> QED  BY <1>1, <1>2, <1>3, <1>4, <1>5, BaseChange

LEMMA PlanBaseStep ==
  ASSUME PlanBase, PlanNext
  PROVE  PlanBase'
<1>1. ASSUME NEW p \in Pages,
             \/ CreateLease(p) \/ ListUnit(p) \/ Choose(p) \/ ClearUnit(p) \/ Batch(p)
             \/ OpenEdit(p) \/ Refetch(p) \/ Save(p) \/ TerminateVoid(p) \/ TerminateSkip(p)
             \/ Put(p) \/ Answer(p) \/ Leave(p)
      PROVE  PlanBase'
  <2>1. CASE CreateLease(p) \/ ClearUnit(p) \/ Batch(p)
    BY <2>1, CreateBase, ClearBase, BatchBase
  <2>2. CASE ListUnit(p) \/ Choose(p) \/ OpenEdit(p) \/ Refetch(p) \/ Save(p) \/ TerminateSkip(p)
    BY <2>2, MoveActs
  <2>3. CASE TerminateVoid(p) \/ Put(p) \/ Answer(p) \/ Leave(p)
    BY <2>3, TerminateVoidBase, PutBase, AnswerBase, LeaveBase
  <2> QED  BY <1>1, <2>1, <2>2, <2>3
<1> QED  BY <1>1, StrayBase, MoneyBase DEF PlanNext

-----------------------------------------------------------------------------
(* What each step makes of its page; the other pages keep what they show.  *)

Others(p) == \A o \in Pages : o # p => page'[o] = page[o] /\ waits'[o] = waits[o]

Alike(t, s) == t.lease = s.lease /\ t.plan = s.plan /\ t.due = s.due /\ t.end = s.end
               /\ t.sweep = s.sweep /\ t.said = s.said

LEMMA ShownAlone ==
  ASSUME PlanBase, NEW p \in Pages, NEW t, Show(p, t), UNCHANGED waits
  PROVE  page'[p] = t /\ Others(p)
  BY ShowFacts DEF PlanBase, Others

LEMMA CreateBecomes ==
  ASSUME PlanBase, NEW p \in Pages, CreateLease(p)
  PROVE  /\ Others(p) /\ UNCHANGED <<charge, waits, strays, swept, blur>>
         /\ page[p].step = "away"
         /\ \E l \in Leases, s \in Starts, e \in Ends, due \in DueDays, extras \in Extras :
              /\ lease[l].status = "none" /\ lease'[l].start = s
              /\ \A k \in Leases : k # l => lease'[k] = lease[k]
              /\ \/ page'[p] = page[p]
                 \/ /\ page'[p].step = "list" /\ page'[p].lease = l /\ page'[p].due = due /\ page'[p].end = e
                    /\ page'[p].plan = Schedule(s, e, due, extras) /\ page'[p].said = "nothing"
<1>1. PICK l \in Leases, s \in Starts, e \in Ends, due \in DueDays, extras \in Extras :
        /\ page[p].step = "away"
        /\ lease[l].status = "none"
        /\ lease'  = [lease EXCEPT ![l] = [status |-> "live", start |-> s, end |-> e]]
        /\ \/ UNCHANGED page
           \/ Show(p, [Blank(l) EXCEPT !.step = "list", !.due = due, !.end = e,
                                       !.plan = Schedule(s, e, due, extras)])
        /\ UNCHANGED <<charge, waits, strays, swept, blur>>
  BY DEF CreateLease
<1>2. lease'[l].start = s /\ \A k \in Leases : k # l => lease'[k] = lease[k]
  BY <1>1 DEF PlanBase, PlanShape
<1>3. PICK plan, t : /\ plan = Schedule(s, e, due, extras)
                     /\ t = [Blank(l) EXCEPT !.step = "list", !.due = due, !.end = e, !.plan = plan]
  OBVIOUS
<1>4. t.step = "list" /\ t.lease = l /\ t.due = due /\ t.end = e /\ t.plan = plan /\ t.said = "nothing"
  BY <1>3 DEF Blank
<1>5. CASE UNCHANGED page
  BY <1>1, <1>2, <1>5 DEF Others
<1>6. CASE Show(p, t)
  <2>1. page'[p] = t /\ Others(p)
    BY <1>1, <1>6, ShownAlone
  <2> QED  BY <1>1, <1>2, <1>3, <1>4, <2>1
<1> QED  BY <1>1, <1>3, <1>5, <1>6

LEMMA ForwardBecomes ==
  ASSUME PlanBase, NEW p \in Pages, ListUnit(p) \/ Choose(p)
  PROVE  /\ Others(p) /\ UNCHANGED <<lease, charge, waits, strays, swept, blur>>
         /\ page[p].step \in {"list", "ask"} /\ page'[p].step \in {"ask", "batch", "clear", "done"}
         /\ Alike(page'[p], page[p])
<1>1. PICK step \in {"ask", "batch", "clear", "done"} : Show(p, [page[p] EXCEPT !.step = step])
  BY DEF ListUnit, Choose
<1>2. page[p].step \in {"list", "ask"} /\ UNCHANGED <<lease, charge, waits, strays, swept, blur>>
  BY DEF ListUnit, Choose
<1>3. PICK s, t : s = page[p] /\ t = [s EXCEPT !.step = step]
  OBVIOUS
<1>4. Whole(s)
  BY <1>3 DEF PlanBase, Sound
<1>5. t.step = step /\ Alike(t, s)
  BY <1>3, <1>4, StepFacts DEF Alike
<1>6. page'[p] = t /\ Others(p)
  BY <1>1, <1>2, <1>3, ShownAlone
<1> QED  BY <1>2, <1>3, <1>5, <1>6

LEMMA ClearBecomes ==
  ASSUME PlanBase, NEW p \in Pages, ClearUnit(p)
  PROVE  /\ Others(p) /\ UNCHANGED <<lease, waits, strays, swept, blur>>
         /\ page[p].step = "clear" /\ page'[p].lease = page[p].lease
         /\ \/ page'[p].step = "batch" /\ Alike(page'[p], page[p])
            \/ page'[p].step = "done" /\ page'[p].said = "warning"
         /\ DOMAIN charge' = DOMAIN charge
         /\ \A r \in DOMAIN charge : Open(r)' => Open(r)
<1>1. PICK R :
        /\ page[p].step = "clear"
        /\ UNCHANGED charge \/ Void(R)
        /\ \/ Show(p, [page[p] EXCEPT !.step = "batch"])
           \/ Show(p, [page[p] EXCEPT !.step = "done", !.plan = {}, !.said = "warning"])
        /\ UNCHANGED <<lease, waits, strays, swept, blur>>
  BY DEF ClearUnit
<1>2. DOMAIN charge' = DOMAIN charge /\ \A r \in DOMAIN charge : Open(r)' => Open(r)
  <2>1. CASE UNCHANGED charge
    BY <2>1 DEF Open
  <2>2. CASE Void(R)
    BY <2>2, VoidFacts DEF Open
  <2> QED  BY <1>1, <2>1, <2>2
<1>3. PICK s : s = page[p]
  OBVIOUS
<1>4. Whole(s)
  BY <1>3 DEF PlanBase, Sound
<1>5. CASE Show(p, [s EXCEPT !.step = "batch"])
  <2>1. PICK t : t = [s EXCEPT !.step = "batch"]
    OBVIOUS
  <2>2. t.step = "batch" /\ Alike(t, s) /\ t.lease = s.lease
    BY <1>4, <2>1, StepFacts DEF Alike
  <2>3. page'[p] = t /\ Others(p)
    BY <1>1, <1>5, <2>1, ShownAlone
  <2> QED  BY <1>1, <1>2, <1>3, <2>2, <2>3
<1>6. CASE Show(p, [s EXCEPT !.step = "done", !.plan = {}, !.said = "warning"])
  <2>1. PICK t : t = [s EXCEPT !.step = "done", !.plan = {}, !.said = "warning"]
    OBVIOUS
  <2>2. t.step = "done" /\ t.lease = s.lease /\ t.said = "warning"
    BY <1>4, <2>1 DEF Whole
  <2>3. page'[p] = t /\ Others(p)
    BY <1>1, <1>6, <2>1, ShownAlone
  <2> QED  BY <1>1, <1>2, <1>3, <2>2, <2>3
<1> QED  BY <1>1, <1>3, <1>5, <1>6

LEMMA BatchBecomes ==
  ASSUME PlanBase, NEW p \in Pages, Batch(p)
  PROVE  /\ Others(p) /\ UNCHANGED <<lease, waits, strays, swept, blur>>
         /\ page[p].step = "batch" /\ page'[p].step = "done"
         /\ page'[p].lease = page[p].lease /\ page'[p].due = page[p].due /\ page'[p].end = page[p].end
         /\ \/ UNCHANGED charge /\ page'[p].said = "warning"
            \/ lease[page[p].lease].status = "live" /\ Add(New(page[p].lease, page[p].plan))
<1>1. PICK said \in {"success", "warning"} :
        /\ page[p].step = "batch"
        /\ \/ UNCHANGED charge /\ said = "warning"
           \/ lease[page[p].lease].status = "live" /\ Add(New(page[p].lease, page[p].plan))
        /\ Show(p, [page[p] EXCEPT !.step = "done", !.plan = {}, !.said = said])
        /\ UNCHANGED <<lease, waits, strays, swept, blur>>
  BY DEF Batch
<1>2. PICK s, t : s = page[p] /\ t = [s EXCEPT !.step = "done", !.plan = {}, !.said = said]
  OBVIOUS
<1>3. Whole(s)
  BY <1>2 DEF PlanBase, Sound
<1>4. t.step = "done" /\ t.lease = s.lease /\ t.due = s.due /\ t.end = s.end /\ t.said = said
  BY <1>2, <1>3 DEF Whole
<1>5. page'[p] = t /\ Others(p)
  BY <1>1, <1>2, ShownAlone
<1> QED  BY <1>1, <1>2, <1>4, <1>5

LEMMA OpenBecomes ==
  ASSUME PlanBase, NEW p \in Pages, OpenEdit(p)
  PROVE  /\ Others(p) /\ UNCHANGED <<lease, charge, waits, strays, swept, blur>>
         /\ page[p].step = "away" /\ page'[p].step = "form" /\ page'[p].said = "nothing"
<1>1. PICK l \in Leases : /\ page[p].step = "away"
                          /\ Show(p, [Blank(l) EXCEPT !.step = "form"])
                          /\ UNCHANGED <<lease, charge, waits, strays, swept, blur>>
  BY DEF OpenEdit
<1>2. PICK t : t = [Blank(l) EXCEPT !.step = "form"]
  OBVIOUS
<1>3. t.step = "form" /\ t.said = "nothing"
  BY <1>2 DEF Blank
<1> QED  BY <1>1, <1>2, <1>3, ShownAlone

LEMMA RefetchBecomes ==
  ASSUME PlanBase, NEW p \in Pages, Refetch(p)
  PROVE  /\ Others(p) /\ UNCHANGED <<lease, charge, waits, strays, swept, blur>>
         /\ page'[p].step = page[p].step /\ Alike(page'[p], page[p])
<1>1. /\ Show(p, [page[p] EXCEPT !.listed = RowsOf(page[p].lease)])
      /\ UNCHANGED <<lease, charge, waits, strays, swept, blur>>
  BY DEF Refetch
<1>2. PICK s, t, R : s = page[p] /\ R = RowsOf(page[p].lease) /\ t = [s EXCEPT !.listed = R]
  OBVIOUS
<1>3. Whole(s)
  BY <1>2 DEF PlanBase, Sound
<1>4. t.step = s.step /\ Alike(t, s)
  BY <1>2, <1>3 DEF Whole, Alike
<1> QED  BY <1>1, <1>2, <1>4, ShownAlone

(* A page that decides: what it adds is missing from what it listed, and   *)
(* it listed what there is unless it sees badly.                           *)
LEMMA DecideBecomes ==
  ASSUME PlanBase, NEW p \in Pages, Save(p) \/ TerminateVoid(p) \/ TerminateSkip(p)
  PROVE  /\ Others(p) /\ UNCHANGED <<lease, charge, strays, swept>>
         /\ page[p].step \in {"form", "sure"} /\ page'[p].lease = page[p].lease
         /\ blur' # "blind" => blur # "blind"
         /\ blur' = "none" => blur = "none"
         /\ \/ page'[p].step = "sure" /\ ~page'[p].sweep /\ waits'[p] = waits[p]
            \/ page'[p].step = "form" /\ page'[p].said = "nothing" /\ waits'[p] = waits[p]
            \/ /\ \/ /\ page'[p].step = "save" /\ waits'[p] = waits[p]
                     /\ page'[p].sweep => page[p].sweep /\ page[p].step = "sure"
                  \/ page'[p].step = "void" /\ waits'[p] = VoidsOf(p)
               /\ blur' # "blind" => ~Blind(p)
               /\ page'[p].due = 1 =>
                    page'[p].plan = Missing(page[p].lease, page'[p].end, Shift, page[p].listed)
               /\ page'[p].due # 1 => page'[p].plan = {}
<1> DEFINE Decided(s, t) ==
      /\ t.due = 1 => t.plan = Missing(s.lease, t.end, Shift, s.listed)
      /\ t.due # 1 => t.plan = {}
<1>0. PICK s : s = page[p] /\ Whole(s)
  BY DEF PlanBase, Sound
<1>b. Decides(p) => (blur' # "blind" => blur # "blind" /\ ~Blind(p)) /\ (blur' = "none" => blur = "none")
  BY DEF Decides
<1>t. ASSUME NEW w, Whole(w), w.lease = s.lease, w.listed = s.listed, NEW t, t = Ticked(w)
      PROVE  t.step = w.step /\ t.lease = s.lease /\ t.sweep = w.sweep /\ Decided(s, t)
  BY <1>t, TickedFacts
<1> HIDE DEF Decided
<1>u. PlanShape
  BY DEF PlanBase
<1>1. CASE Save(p)
  <2>0. PICK e \in NewEnds, ends \in BOOLEAN, add \in {0, 1} : \E t :
          /\ t = [page[p] EXCEPT !.due = add, !.end = e, !.ends = ends, !.sweep = FALSE, !.said = "nothing"]
          /\ page[p].step = "form"
          /\ \/ Show(p, [t EXCEPT !.step = "sure"])
             \/ Show(p, Ticked([t EXCEPT !.step = "save"]))
          /\ Decides(p)
          /\ UNCHANGED <<lease, charge, waits, strays, swept>>
    BY <1>1 DEF Save
  <2>1. PICK t :
          /\ t = [s EXCEPT !.due = add, !.end = e, !.ends = ends, !.sweep = FALSE, !.said = "nothing"]
          /\ s.step = "form"
          /\ \/ Show(p, [t EXCEPT !.step = "sure"])
             \/ Show(p, Ticked([t EXCEPT !.step = "save"]))
          /\ Decides(p)
          /\ UNCHANGED <<lease, charge, waits, strays, swept>>
    BY <1>0, <2>0
  <2>2. Whole(t) /\ t.lease = s.lease /\ t.listed = s.listed /\ t.sweep = FALSE
    BY <1>0, <2>1 DEF Whole
  <2>3. PICK u, w, v : u = [t EXCEPT !.step = "sure"] /\ w = [t EXCEPT !.step = "save"] /\ v = Ticked(w)
    OBVIOUS
  <2>4. u.step = "sure" /\ u.lease = s.lease /\ u.sweep = FALSE
    BY <2>2, <2>3, StepFacts
  <2>5. Whole(w) /\ w.step = "save" /\ w.lease = s.lease /\ w.listed = s.listed /\ w.sweep = FALSE
    BY <2>2, <2>3, StepFacts
  <2>6. v.step = "save" /\ v.lease = s.lease /\ v.sweep = FALSE /\ Decided(s, v)
    BY <1>t, <2>3, <2>5
  <2>7. Others(p) /\ (page'[p] = u \/ page'[p] = v)
    BY <2>1, <2>3, ShownAlone
  <2> QED  BY <1>0, <1>b, <2>1, <2>4, <2>6, <2>7 DEF Decided
<1>2. CASE TerminateVoid(p)
  <2>1. /\ s.step = "sure"
        /\ Show(p, Ticked([s EXCEPT !.step = "void", !.sweep = TRUE]))
        /\ waits' = [waits EXCEPT ![p] = VoidsOf(p)]
        /\ Decides(p)
        /\ UNCHANGED <<lease, charge, strays, swept>>
    BY <1>0, <1>2 DEF TerminateVoid
  <2>2. PICK w, v : w = [s EXCEPT !.step = "void", !.sweep = TRUE] /\ v = Ticked(w)
    OBVIOUS
  <2>3. Whole(w) /\ w.step = "void" /\ w.lease = s.lease /\ w.listed = s.listed
    BY <1>0, <2>2 DEF Whole
  <2>4. v.step = "void" /\ v.lease = s.lease /\ Decided(s, v)
    BY <1>t, <2>2, <2>3
  <2>5. page'[p] = v /\ \A o \in Pages : o # p => page'[o] = page[o]
    BY <1>u, <2>1, <2>2, ShowFacts
  <2>6. waits'[p] = VoidsOf(p) /\ \A o \in Pages : o # p => waits'[o] = waits[o]
    BY <1>u, <2>1 DEF PlanShape
  <2>7. Others(p)
    BY <2>5, <2>6 DEF Others
  <2> QED  BY <1>0, <1>b, <2>1, <2>4, <2>5, <2>6, <2>7 DEF Decided
<1>3. CASE TerminateSkip(p)
  <2>1. /\ s.step = "sure"
        /\ \/ Show(p, Ticked([s EXCEPT !.step = "save"])) /\ Decides(p)
           \/ Show(p, Form(s, "nothing")) /\ UNCHANGED blur
        /\ UNCHANGED <<lease, charge, waits, strays, swept>>
    BY <1>0, <1>3 DEF TerminateSkip
  <2>2. PICK w, v, f : w = [s EXCEPT !.step = "save"] /\ v = Ticked(w) /\ f = Form(s, "nothing")
    OBVIOUS
  <2>3. Whole(w) /\ w.step = "save" /\ w.lease = s.lease /\ w.listed = s.listed /\ w.sweep = s.sweep
    BY <1>0, <2>2, StepFacts
  <2>4. v.step = "save" /\ v.lease = s.lease /\ v.sweep = s.sweep /\ Decided(s, v)
    BY <1>t, <2>2, <2>3
  <2>5. f.step = "form" /\ f.lease = s.lease /\ f.said = "nothing"
    <3>1. FormOf(f, s, "nothing")
      BY <2>2, FormFacts
    <3> QED  BY <3>1 DEF FormOf
  <2>6. CASE Show(p, v) /\ Decides(p)
    <3>1. page'[p] = v /\ Others(p)
      BY <2>1, <2>6, ShownAlone
    <3> QED  BY <1>0, <1>b, <2>1, <2>4, <2>6, <3>1 DEF Decided
  <2>7. CASE Show(p, f) /\ UNCHANGED blur
    <3>1. page'[p] = f /\ Others(p)
      BY <2>1, <2>7, ShownAlone
    <3> QED  BY <1>0, <2>1, <2>5, <2>7, <3>1
  <2> QED  BY <2>1, <2>2, <2>6, <2>7
<1> QED  BY <1>1, <1>2, <1>3

LEMMA PutBecomes ==
  ASSUME PlanBase, NEW p \in Pages, Put(p)
  PROVE  /\ Others(p) /\ UNCHANGED <<charge, strays, blur>>
         /\ page[p].step = "save" /\ waits[p] = {}
         /\ \A l \in Leases : lease'[l].start = lease[l].start
         /\ \A l \in swept' : l \in swept \/ (page[p].sweep /\ l = page[p].lease)
         /\ \/ FormOf(page'[p], page[p], "nothing") /\ waits'[p] = {}
            \/ page[p].due = 1 /\ page[p].plan = {} /\ FormOf(page'[p], page[p], "exists") /\ waits'[p] = {}
            \/ page'[p].step = "away" /\ waits'[p] = {}
            \/ /\ page'[p].step = "post" /\ page'[p].plan = {} /\ page[p].plan # {}
               /\ page'[p].lease = page[p].lease /\ page'[p].end = page[p].end
               /\ waits'[p] = [op : {"charge"}, lease : {page[p].lease}, item : page[p].plan]
<1>0. PICK s : s = page[p] /\ Whole(s) /\ s.step = "save" /\ waits[p] = {}
  BY IdleFacts DEF Put, PlanBase, Sound
<1>1. /\ \/ UNCHANGED <<lease, swept>>
         \/ /\ lease' = [lease EXCEPT ![page[p].lease].status = IF page[p].ends THEN "ended" ELSE "live",
                                      ![page[p].lease].end    = page[p].end]
            /\ swept' = IF s.ends THEN IF s.sweep THEN swept \cup {s.lease} ELSE swept
                        ELSE swept \ {s.lease}
      /\ \/ Show(p, Form(s, "nothing")) /\ UNCHANGED waits
         \/ s.due = 1 /\ s.plan = {} /\ Show(p, Form(s, "exists")) /\ UNCHANGED waits
         \/ Show(p, Nothing) /\ UNCHANGED waits
         \/ /\ s.plan # {} /\ Show(p, [s EXCEPT !.step = "post", !.plan = {}])
            /\ waits' = [waits EXCEPT ![p] = [op : {"charge"}, lease : {s.lease}, item : s.plan]]
      /\ UNCHANGED <<charge, strays, blur>>
  BY <1>0 DEF Put
<1>2. \A l \in Leases : lease'[l].start = lease[l].start
  <2>1. CASE UNCHANGED <<lease, swept>>
    BY <2>1
  <2>2. CASE ~UNCHANGED <<lease, swept>>
    BY <1>0, <1>1, <2>2, PutLease
  <2> QED  BY <2>1, <2>2
<1>3. \A l \in swept' : l \in swept \/ (s.sweep /\ l = s.lease)
  <2>1. PICK k : k = s.lease
    OBVIOUS
  <2>2. UNCHANGED swept \/ swept' = IF s.ends THEN IF s.sweep THEN swept \cup {k} ELSE swept
                                     ELSE swept \ {k}
    BY <1>1, <2>1
  <2>3. \/ swept' = swept \/ swept' = swept \ {k}
        \/ s.sweep /\ swept' = swept \cup {k}
    BY <2>2
  <2> QED  BY <2>1, <2>3
<1>4. CASE Show(p, Form(s, "nothing")) /\ UNCHANGED waits
  <2>1. PICK f : f = Form(s, "nothing")
    OBVIOUS
  <2>2. FormOf(f, s, "nothing")
    BY <2>1, FormFacts
  <2>3. page'[p] = f /\ Others(p)
    BY <1>4, <2>1, ShownAlone
  <2> QED  BY <1>0, <1>1, <1>2, <1>3, <1>4, <2>2, <2>3
<1>5. CASE s.due = 1 /\ s.plan = {} /\ Show(p, Form(s, "exists")) /\ UNCHANGED waits
  <2>1. PICK f : f = Form(s, "exists")
    OBVIOUS
  <2>2. FormOf(f, s, "exists")
    BY <2>1, FormFacts
  <2>3. page'[p] = f /\ Others(p)
    BY <1>5, <2>1, ShownAlone
  <2> QED  BY <1>0, <1>1, <1>2, <1>3, <1>5, <2>2, <2>3
<1>6. CASE Show(p, Nothing) /\ UNCHANGED waits
  <2>1. PICK t : t = Nothing
    OBVIOUS
  <2>2. page'[p] = t /\ Others(p)
    BY <1>6, <2>1, ShownAlone
  <2>3. t.step = "away"
    BY <2>1, NothingFacts
  <2> QED  BY <1>0, <1>1, <1>2, <1>3, <1>6, <2>2, <2>3
<1>7. CASE /\ s.plan # {} /\ Show(p, [s EXCEPT !.step = "post", !.plan = {}])
           /\ waits' = [waits EXCEPT ![p] = [op : {"charge"}, lease : {s.lease}, item : s.plan]]
  <2>1. PICK t, Q : /\ t = [s EXCEPT !.step = "post", !.plan = {}]
                    /\ Q = [op : {"charge"}, lease : {s.lease}, item : s.plan]
    OBVIOUS
  <2>2. t.step = "post" /\ t.plan = {} /\ t.lease = s.lease /\ t.end = s.end
    BY <1>0, <2>1 DEF Whole
  <2>u. PlanShape
    BY DEF PlanBase
  <2>3. page'[p] = t /\ \A o \in Pages : o # p => page'[o] = page[o]
    BY <1>7, <2>1, <2>u, ShowFacts
  <2>4. waits'[p] = Q /\ \A o \in Pages : o # p => waits'[o] = waits[o]
    BY <1>7, <2>1, <2>u DEF PlanShape
  <2>5. Others(p)
    BY <2>3, <2>4 DEF Others
  <2> QED  BY <1>0, <1>1, <1>2, <1>3, <1>7, <2>1, <2>2, <2>3, <2>4, <2>5
<1> QED  BY <1>1, <1>4, <1>5, <1>6, <1>7

LEMMA LeaveBecomes ==
  ASSUME PlanBase, NEW p \in Pages, Leave(p)
  PROVE  /\ Others(p) /\ UNCHANGED <<lease, charge, swept, blur>>
         /\ page'[p].step = "away" /\ page'[p].plan = {} /\ waits'[p] = {} /\ strays' = strays \cup waits[p]
<1>1. /\ Show(p, Nothing) /\ waits' = [waits EXCEPT ![p] = {}] /\ strays' = strays \cup waits[p]
      /\ UNCHANGED <<lease, charge, swept, blur>>
  BY DEF Leave
<1>2. PICK t : t = Nothing
  OBVIOUS
<1>3. t.step = "away" /\ t.plan = {}
  BY <1>2, NothingFacts
<1>4. page'[p] = t /\ \A o \in Pages : o # p => page'[o] = page[o]
  BY <1>1, <1>2, ShowFacts DEF PlanBase
<1>5. waits'[p] = {} /\ \A o \in Pages : o # p => waits'[o] = waits[o]
  BY <1>1 DEF PlanBase, PlanShape
<1> QED  BY <1>1, <1>3, <1>4, <1>5 DEF Others

LEMMA AnswerMakes ==
  ASSUME PlanBase, NEW p \in Pages, Answer(p)
  PROVE  \E q \in waits[p], answer \in {"yes", "no"} :
           /\ Others(p) /\ UNCHANGED <<lease, swept>>
           /\ Reach(q, answer) /\ q.lease = page[p].lease /\ IsMade(q.lease)
           /\ \/ /\ IsVoid(q) /\ page[p].step = "void"
                 /\ \/ page'[p] = page[p] /\ waits'[p] = waits[p] \ {q} /\ strays' = strays
                    \/ /\ page'[p].step = "save" /\ Alike(page'[p], page[p])
                       /\ waits'[p] = {} /\ strays' = strays \cup (waits[p] \ {q})
              \/ /\ IsCharge(q) /\ page[p].step = "post"
                 /\ \/ page'[p] = page[p] /\ waits'[p] = waits[p] \ {q} /\ strays' = strays /\ answer = "yes"
                    \/ /\ \E said \in {"success", "warning"} :
                            /\ FormOf(page'[p], page[p], said)
                            /\ said = "success" => answer = "yes" /\ waits[p] \ {q} = {}
                       /\ waits'[p] = {} /\ strays' = strays \cup (waits[p] \ {q})
<1>1. PICK q \in waits[p], answer \in {"yes", "no"} :
           /\ Reach(q, answer) /\ q.lease = page[p].lease /\ IsMade(q.lease)
           /\ \/ IsVoid(q) /\ page[p].step = "void"
              \/ IsCharge(q) /\ page[p].step = "post"
           /\ \/ /\ page' = page /\ waits' = [waits EXCEPT ![p] = waits[p] \ {q}] /\ strays' = strays
                 /\ answer = "yes"
              \/ /\ page[p].step = "void" /\ Show(p, [page[p] EXCEPT !.step = "save"])
                 /\ waits' = [waits EXCEPT ![p] = {}] /\ strays' = strays \cup (waits[p] \ {q})
              \/ /\ page[p].step = "post"
                 /\ \E said \in {"success", "warning"} :
                      /\ Show(p, Form(page[p], said))
                      /\ said = "success" => answer = "yes" /\ waits[p] \ {q} = {}
                 /\ waits' = [waits EXCEPT ![p] = {}] /\ strays' = strays \cup (waits[p] \ {q})
           /\ UNCHANGED <<lease, swept>>
  BY AnswerBecomes
<1>2. PICK s : s = page[p] /\ Whole(s)
  BY DEF PlanBase, Sound
<1>u. PlanShape
  BY DEF PlanBase
<1>w. ASSUME NEW Q, waits' = [waits EXCEPT ![p] = Q]
      PROVE  waits'[p] = Q /\ \A o \in Pages : o # p => waits'[o] = waits[o]
  BY <1>u, <1>w DEF PlanShape
<1>3. CASE page' = page /\ waits' = [waits EXCEPT ![p] = waits[p] \ {q}] /\ strays' = strays /\ answer = "yes"
  <2>1. waits'[p] = waits[p] \ {q} /\ Others(p)
    BY <1>3, <1>w DEF Others
  <2> QED  BY <1>1, <1>3, <2>1
<1>4. CASE /\ page[p].step = "void" /\ Show(p, [page[p] EXCEPT !.step = "save"])
           /\ waits' = [waits EXCEPT ![p] = {}] /\ strays' = strays \cup (waits[p] \ {q})
  <2>1. PICK t : t = [s EXCEPT !.step = "save"]
    OBVIOUS
  <2>2. t.step = "save" /\ Alike(t, s)
    BY <1>2, <2>1, StepFacts DEF Alike
  <2>3. page'[p] = t /\ \A o \in Pages : o # p => page'[o] = page[o]
    BY <1>2, <1>4, <1>u, <2>1, ShowFacts
  <2>4. waits'[p] = {} /\ Others(p)
    BY <1>4, <1>w, <2>3 DEF Others
  <2>5. IsVoid(q)
    BY <1>1, <1>4
  <2> QED  BY <1>1, <1>2, <1>4, <2>2, <2>3, <2>4, <2>5
<1>5. CASE /\ page[p].step = "post"
           /\ \E said \in {"success", "warning"} :
                /\ Show(p, Form(page[p], said))
                /\ said = "success" => answer = "yes" /\ waits[p] \ {q} = {}
           /\ waits' = [waits EXCEPT ![p] = {}] /\ strays' = strays \cup (waits[p] \ {q})
  <2>1. PICK said \in {"success", "warning"} :
          Show(p, Form(page[p], said)) /\ (said = "success" => answer = "yes" /\ waits[p] \ {q} = {})
    BY <1>5
  <2>2. PICK t : t = Form(s, said)
    OBVIOUS
  <2>3. FormOf(t, s, said)
    BY <2>2, FormFacts
  <2>4. page'[p] = t /\ \A o \in Pages : o # p => page'[o] = page[o]
    BY <1>2, <1>u, <2>1, <2>2, ShowFacts
  <2>5. waits'[p] = {} /\ Others(p)
    BY <1>5, <1>w, <2>4 DEF Others
  <2>6. IsCharge(q)
    BY <1>1, <1>5
  <2> QED  BY <1>1, <1>2, <1>5, <2>1, <2>3, <2>4, <2>5, <2>6
<1> QED  BY <1>1, <1>3, <1>4, <1>5

-----------------------------------------------------------------------------
(* Unless a page saw badly, one page at a time works on a lease, and what  *)
(* other pages left on the way meanwhile are voids.                        *)
AtWork(p) == page[p].step \notin {"away", "done", "form", "sure"}

Alone ==
  blur # "blind" =>
    /\ \A p, o \in Pages : AtWork(p) /\ AtWork(o) /\ page[p].lease = page[o].lease => p = o
    /\ \A q \in strays, p \in Pages : AtWork(p) /\ page[p].lease = q.lease => q.op = "void"

LEMMA AloneChange ==
  ASSUME Alone, NEW p \in Pages,
         blur' # "blind" => blur # "blind",
         \A o \in Pages : o # p => page'[o] = page[o],
         \A q \in strays' : \/ q \in strays \/ q.op = "void"
                            \/ q.lease = page[p].lease /\ AtWork(p) /\ ~AtWork(p)',
         \/ ~AtWork(p)'
         \/ AtWork(p) /\ page'[p].lease = page[p].lease
         \/ blur' # "blind" =>
              /\ \A o \in Pages : o # p /\ AtWork(o) => page[o].lease # page'[p].lease
              /\ \A q \in strays' : q.lease # page'[p].lease
  PROVE  Alone'
<1>1. \A o \in Pages : o # p => (AtWork(o)' <=> AtWork(o)) /\ page'[o].lease = page[o].lease
  BY DEF AtWork
<1>2. ASSUME blur' # "blind", NEW i \in Pages, NEW o \in Pages, AtWork(i)', AtWork(o)',
             page'[i].lease = page'[o].lease
      PROVE  i = o
  BY <1>1, <1>2 DEF Alone
<1>3. ASSUME blur' # "blind", NEW q \in strays', NEW o \in Pages, AtWork(o)', page'[o].lease = q.lease
      PROVE  q.op = "void"
  <2>1. CASE o = p
    BY <1>3, <2>1 DEF Alone
  <2>2. CASE o # p
    BY <1>1, <1>3, <2>2 DEF Alone
  <2> QED  BY <2>1, <2>2
<1> QED  BY <1>2, <1>3 DEF Alone

LEMMA AloneStep ==
  ASSUME PlanBase, Alone, PlanNext
  PROVE  Alone'
<1>1. CASE Pay \/ Settle
  <2>1. UNCHANGED <<page, strays, blur>>
    BY <1>1 DEF Pay, Settle
  <2> QED  BY <2>1 DEF Alone, AtWork
<1>2. CASE Stray
  <2>1. PICK q \in strays, answer \in {"yes", "no"} :
          Reach(q, answer) /\ strays' = strays \ {q} /\ UNCHANGED <<lease, page, waits, swept>>
    BY <1>2 DEF Stray
  <2>2. blur' # "blind" => blur # "blind"
    BY <2>1, ReachFacts DEF PlanBase
  <2> QED  BY <2>1, <2>2 DEF Alone, AtWork
<1>3. ASSUME NEW p \in Pages, CreateLease(p)
      PROVE  Alone'
  <2>1. PICK l \in Leases :
           /\ Others(p) /\ UNCHANGED <<strays, blur>> /\ page[p].step = "away" /\ lease[l].status = "none"
           /\ page'[p] = page[p] \/ page'[p].lease = l
    BY <1>3, CreateBecomes
  <2>2. \A o \in Pages : AtWork(o) => page[o].lease # l
    BY <2>1 DEF AtWork, PlanBase, Sound, IsMade
  <2>3. \A q \in strays : q.lease # l
    BY <2>1 DEF PlanBase, IsMade
  <2>4. CASE page'[p] = page[p]
    <3>1. ~AtWork(p)'
      BY <2>1, <2>4 DEF AtWork
    <3> QED  BY <2>1, <3>1, AloneChange DEF Others
  <2>5. CASE page'[p].lease = l
    BY <2>1, <2>2, <2>3, <2>5, AloneChange DEF Others
  <2> QED  BY <2>1, <2>4, <2>5
<1>4. ASSUME NEW p \in Pages, ListUnit(p) \/ Choose(p) \/ ClearUnit(p) \/ Batch(p) \/ OpenEdit(p) \/ Refetch(p)
      PROVE  Alone'
  <2>1. Others(p) /\ UNCHANGED <<strays, blur>>
    BY <1>4, ForwardBecomes, ClearBecomes, BatchBecomes, OpenBecomes, RefetchBecomes
  <2>2. ~AtWork(p)' \/ (AtWork(p) /\ page'[p].lease = page[p].lease)
    BY <1>4, ForwardBecomes, ClearBecomes, BatchBecomes, OpenBecomes, RefetchBecomes DEF AtWork, Alike
  <2> QED  BY <2>1, <2>2, AloneChange DEF Others
<1>5. ASSUME NEW p \in Pages, Save(p) \/ TerminateVoid(p) \/ TerminateSkip(p)
      PROVE  Alone'
  <2>1. /\ Others(p) /\ UNCHANGED strays /\ (blur' # "blind" => blur # "blind")
        /\ page'[p].lease = page[p].lease
        /\ page'[p].step \in {"sure", "form"} \/ (blur' # "blind" => ~Blind(p))
    BY <1>5, DecideBecomes
  <2>2. CASE page'[p].step \in {"sure", "form"}
    <3>1. ~AtWork(p)'
      BY <2>2 DEF AtWork
    <3> QED  BY <2>1, <3>1, AloneChange DEF Others
  <2>3. CASE blur' # "blind" => ~Blind(p)
    <3>1. ~Blind(p) => /\ \A o \in Pages : o # p /\ AtWork(o) => page[o].lease # page'[p].lease
                       /\ \A q \in strays' : q.lease # page'[p].lease
      BY <2>1 DEF Blind, Requested, AtWork
    <3> QED  BY <2>1, <2>3, <3>1, AloneChange DEF Others
  <2> QED  BY <2>1, <2>2, <2>3
<1>6. ASSUME NEW p \in Pages, Put(p)
      PROVE  Alone'
  <2>1. Others(p) /\ UNCHANGED <<strays, blur>> /\ page[p].step = "save"
    BY <1>6, PutBecomes
  <2>2. page'[p].step \in {"form", "away"} \/ page'[p].lease = page[p].lease
    BY <1>6, PutBecomes DEF FormOf
  <2>3. ~AtWork(p)' \/ (AtWork(p) /\ page'[p].lease = page[p].lease)
    BY <2>1, <2>2 DEF AtWork
  <2> QED  BY <2>1, <2>3, AloneChange DEF Others
<1>7. ASSUME NEW p \in Pages, Answer(p)
      PROVE  Alone'
  <2>0. \A said : FormOf(page'[p], page[p], said) => page'[p].step = "form"
    BY DEF FormOf
  <2>1. PICK q \in waits[p], answer \in {"yes", "no"} :
          /\ Others(p) /\ Reach(q, answer) /\ (IsVoid(q) \/ IsCharge(q))
          /\ \/ page'[p] = page[p] /\ strays' = strays
             \/ /\ page[p].step = "void" /\ page'[p].step = "save" /\ Alike(page'[p], page[p])
                /\ strays' = strays \cup (waits[p] \ {q})
             \/ /\ page[p].step = "post" /\ page'[p].step = "form"
                /\ strays' = strays \cup (waits[p] \ {q})
    BY <1>7, <2>0, AnswerMakes
  <2>2. blur' # "blind" => blur # "blind"
    BY <2>1, ReachFacts DEF PlanBase
  <2>3. CASE page'[p] = page[p] /\ strays' = strays
    BY <2>1, <2>2, <2>3, AloneChange DEF AtWork, Others
  <2>4. CASE /\ page[p].step = "void" /\ page'[p].step = "save" /\ Alike(page'[p], page[p])
             /\ strays' = strays \cup (waits[p] \ {q})
    <3>1. \A k \in waits[p] : k.op = "void"
      BY <2>4 DEF PlanBase, WaitsWell, IsVoid
    <3>2. AtWork(p) /\ page'[p].lease = page[p].lease
      BY <2>4 DEF AtWork, Alike
    <3> QED  BY <2>1, <2>2, <2>4, <3>1, <3>2, AloneChange DEF Others
  <2>5. CASE /\ page[p].step = "post" /\ page'[p].step = "form"
             /\ strays' = strays \cup (waits[p] \ {q})
    <3>1. AtWork(p) /\ ~AtWork(p)'
      BY <2>5 DEF AtWork
    <3>2. \A k \in waits[p] : k.lease = page[p].lease
      BY DEF PlanBase, WaitsWell
    <3> QED  BY <2>1, <2>2, <2>5, <3>1, <3>2, AloneChange DEF Others
  <2> QED  BY <2>1, <2>3, <2>4, <2>5
<1>8. ASSUME NEW p \in Pages, Leave(p)
      PROVE  Alone'
  <2>1. Others(p) /\ UNCHANGED blur /\ page'[p].step = "away" /\ strays' = strays \cup waits[p]
    BY <1>8, LeaveBecomes
  <2>2. \A q \in waits[p] : q.lease = page[p].lease /\ AtWork(p)
    BY DEF PlanBase, WaitsWell, AtWork
  <2>3. ~AtWork(p)'
    BY <2>1 DEF AtWork
  <2> QED  BY <2>1, <2>2, <2>3, AloneChange DEF Others
<1> QED  BY <1>1, <1>2, <1>3, <1>4, <1>5, <1>6, <1>7, <1>8 DEF PlanNext

-----------------------------------------------------------------------------
(* The sweep.  What is left to pay of a lease that was swept, or that a    *)
(* page is sweeping, is about to be voided.                                *)
OnTheWay   == strays \cup UNION {waits[p] : p \in Pages}
VoidFor(r) == [op |-> "void", lease |-> r.lease, row |-> r]
Covered(l) == \A r \in RowsOf(l) : Open(r) => VoidFor(r) \in OnTheWay

Sweeps(p)  == page[p].step \in {"void", "save"} /\ page[p].sweep
Guarded(l) == l \in swept \/ \E p \in Pages : Sweeps(p) /\ page[p].lease = l

Sweeping ==
  /\ \A p \in Pages : page[p].step = "sure" => ~page[p].sweep
  /\ blur = "none" => \A l \in Leases : Guarded(l) => Covered(l)

LEMMA GuardedStays ==
  ASSUME NEW p \in Pages,
         \A o \in Pages : o # p => page'[o] = page[o],
         \A k \in swept' : k \in swept \/ (page[p].step = "save" /\ page[p].sweep /\ k = page[p].lease),
         Sweeps(p)' => Sweeps(p) /\ page'[p].lease = page[p].lease
  PROVE  \A l : Guarded(l)' => Guarded(l)
  BY DEF Guarded, Sweeps

LEMMA SweepingChange ==
  ASSUME Sweeping, blur' = "none" => blur = "none",
         \A p \in Pages : page'[p].step = "sure" => ~page'[p].sweep,
         \A l \in Leases : Guarded(l)' => Guarded(l) \/ (blur' = "none" => Covered(l)'),
         \A l \in Leases, r \in DOMAIN charge' :
           blur' = "none" /\ Guarded(l) /\ r.lease = l /\ Open(r)' =>
             /\ r \in DOMAIN charge /\ Open(r)
             /\ VoidFor(r) \in OnTheWay => VoidFor(r) \in OnTheWay'
  PROVE  Sweeping'
<1>1. ASSUME blur' = "none", NEW l \in Leases, Guarded(l)'
      PROVE  Covered(l)'
  <2>1. CASE Guarded(l)
    <3>1. Covered(l)
      BY <1>1, <2>1 DEF Sweeping
    <3>2. ASSUME NEW r \in DOMAIN charge', r.lease = l, Open(r)'
          PROVE  VoidFor(r) \in OnTheWay'
      <4>1. r \in RowsOf(l) /\ Open(r) /\ (VoidFor(r) \in OnTheWay => VoidFor(r) \in OnTheWay')
        BY <1>1, <2>1, <3>2 DEF RowsOf
      <4> QED  BY <3>1, <4>1 DEF Covered
    <3> QED  BY <3>2 DEF Covered, RowsOf, VoidFor
  <2> QED  BY <1>1, <2>1
<1> QED  BY <1>1 DEF Sweeping

(* Requests on the way stay there when a page leaves them behind.          *)
LEMMA WayStays ==
  ASSUME NEW p \in Pages, Others(p), NEW Q,
         \A k \in strays : k \notin Q => k \in strays',
         \A k \in waits[p] : k \notin Q => k \in waits'[p] \cup strays'
  PROVE  \A k \in OnTheWay : k \notin Q => k \in OnTheWay'
<1>1. ASSUME NEW k \in OnTheWay, k \notin Q
      PROVE  k \in OnTheWay'
  <2>1. CASE k \in strays
    BY <1>1, <2>1 DEF OnTheWay
  <2>2. ASSUME NEW o \in Pages, k \in waits[o]
        PROVE  k \in OnTheWay'
    <3>1. k \in waits'[o] \cup strays'
      BY <1>1, <2>2 DEF Others
    <3> QED  BY <3>1 DEF OnTheWay
  <2> QED  BY <1>1, <2>1, <2>2 DEF OnTheWay
<1> QED  BY <1>1

(* A request that arrives opens no charge of a guarded lease.              *)
LEMMA SweepingArrives ==
  ASSUME PlanBase, Alone, Sweeping, NEW q \in OnTheWay, NEW answer, Reach(q, answer),
         IsMade(q.lease), IsVoid(q) \/ IsCharge(q), UNCHANGED <<lease, swept>>,
         \A p \in Pages : page'[p].step = "sure" => ~page'[p].sweep,
         \A l : Guarded(l)' => Guarded(l),
         \A k \in OnTheWay : k # q => k \in OnTheWay'
  PROVE  Sweeping'
<1>1. /\ blur' = "none" => blur = "none"
      /\ \A r \in DOMAIN charge' : Open(r)' =>
              \/ q.op = "charge" /\ r.lease = q.lease /\ lease[q.lease].status = "live"
              \/ /\ r \in DOMAIN charge /\ Open(r)
                 /\ q.op = "void" /\ q.row = r => blur' # "none"
  BY ReachFacts DEF PlanBase
<1>2. ASSUME NEW l \in Leases, NEW r \in DOMAIN charge', blur' = "none", Guarded(l), r.lease = l, Open(r)',
             q.op = "charge", r.lease = q.lease, lease[q.lease].status = "live"
      PROVE  FALSE
  <2>1. l \notin swept
    BY <1>2 DEF PlanBase
  <2>2. PICK p \in Pages : Sweeps(p) /\ page[p].lease = l
    BY <1>2, <2>1 DEF Guarded
  <2>3. blur # "blind" /\ AtWork(p) /\ page[p].step # "post"
    BY <1>1, <1>2, <2>2 DEF Sweeps, AtWork
  <2>4. q \notin strays
    BY <1>2, <2>2, <2>3 DEF Alone
  <2>5. PICK o \in Pages : q \in waits[o]
    BY <2>4 DEF OnTheWay
  <2>6. page[o].lease = l /\ page[o].step = "post"
    BY <1>2, <2>5 DEF PlanBase, WaitsWell, IsVoid
  <2>7. AtWork(o)
    BY <2>6 DEF AtWork
  <2> QED  BY <2>2, <2>3, <2>6, <2>7 DEF Alone
<1>3. ASSUME NEW r, VoidFor(r) = q
      PROVE  q.op = "void" /\ q.row = r
  BY <1>3 DEF VoidFor
<1>4. ASSUME NEW l \in Leases, NEW r \in DOMAIN charge', blur' = "none", Guarded(l), r.lease = l, Open(r)'
      PROVE  /\ r \in DOMAIN charge /\ Open(r)
             /\ VoidFor(r) \in OnTheWay => VoidFor(r) \in OnTheWay'
  <2>1. r \in DOMAIN charge /\ Open(r) /\ (q.op = "void" /\ q.row = r => blur' # "none")
    BY <1>1, <1>2, <1>4
  <2>2. VoidFor(r) # q
    BY <1>3, <1>4, <2>1
  <2> QED  BY <2>1, <2>2
<1> QED  BY <1>1, <1>4, SweepingChange

(* A step that opens no charge of a guarded lease and loses no request.    *)
LEMMA SweepingMoves ==
  ASSUME Sweeping, NEW p \in Pages, Others(p), blur' = "none" => blur = "none",
         page'[p].step = "sure" => ~page'[p].sweep,
         \A q \in strays : q \in strays',
         \A q \in waits[p] : q \in waits'[p] \cup strays',
         \A k \in swept' : k \in swept \/ (page[p].step = "save" /\ page[p].sweep /\ k = page[p].lease),
         \/ Sweeps(p)' => Sweeps(p) /\ page'[p].lease = page[p].lease
         \/ UNCHANGED swept /\ (blur' = "none" => Covered(page[p].lease)') /\ page'[p].lease = page[p].lease,
         \A r \in DOMAIN charge' : Open(r)' =>
           (blur' = "none" /\ Guarded(r.lease) => r \in DOMAIN charge /\ Open(r))
  PROVE  Sweeping'
<1>1. \A q \in OnTheWay : q \in OnTheWay'
  <2>1. PICK Q : Q = {}
    OBVIOUS
  <2>2. \A q \in OnTheWay : q \notin Q => q \in OnTheWay'
    BY WayStays
  <2> QED  BY <2>1, <2>2
<1>2. \A o \in Pages : page'[o].step = "sure" => ~page'[o].sweep
  BY DEF Sweeping, Others
<1>3. \A l \in Leases : Guarded(l)' => Guarded(l) \/ (blur' = "none" => Covered(l)')
  <2>1. CASE Sweeps(p)' => Sweeps(p) /\ page'[p].lease = page[p].lease
    BY <2>1, GuardedStays DEF Others
  <2>2. CASE UNCHANGED swept /\ (blur' = "none" => Covered(page[p].lease)') /\ page'[p].lease = page[p].lease
    <3>1. ASSUME NEW l \in Leases, Guarded(l)', ~Guarded(l)
          PROVE  l = page[p].lease
      BY <2>2, <3>1 DEF Guarded, Sweeps, Others
    <3>2. PICK m : m = page[p].lease
      OBVIOUS
    <3>3. blur' = "none" => Covered(m)'
      BY <2>2, <3>2 DEF Covered, RowsOf
    <3> QED  BY <3>1, <3>2, <3>3
  <2> QED  BY <2>1, <2>2
<1> QED  BY <1>1, <1>2, <1>3, SweepingChange

LEMMA SweepingStep ==
  ASSUME PlanBase, Alone, Sweeping, PlanNext
  PROVE  Sweeping'
<1>0. PlanShape
  BY DEF PlanBase
<1>1. CASE Pay \/ Settle
  <2>1. PICK r \in DOMAIN charge, s \in {"pending", "paid", "due"} :
          /\ Open(r) /\ charge' = [charge EXCEPT ![r] = s]
          /\ UNCHANGED <<page, waits, strays, swept, blur>>
    BY <1>1 DEF Pay, Settle, Open
  <2>2. \A l \in Leases, k \in DOMAIN charge' : k \in DOMAIN charge /\ (Open(k)' => Open(k))
    BY <2>1 DEF Open
  <2>3. (\A l : Guarded(l)' => Guarded(l)) /\ OnTheWay' = OnTheWay
    BY <2>1 DEF Guarded, Sweeps, OnTheWay
  <2>4. \A p \in Pages : page'[p].step = "sure" => ~page'[p].sweep
    BY <2>1 DEF Sweeping
  <2> QED  BY <2>1, <2>2, <2>3, <2>4, SweepingChange
<1>2. CASE Stray
  <2>1. PICK q \in strays, answer \in {"yes", "no"} :
          Reach(q, answer) /\ strays' = strays \ {q} /\ UNCHANGED <<lease, page, waits, swept>>
    BY <1>2 DEF Stray
  <2>2. IsMade(q.lease) /\ (IsVoid(q) \/ IsCharge(q)) /\ q \in OnTheWay
    BY DEF PlanBase, OnTheWay
  <2>3. \A k \in OnTheWay : k # q => k \in OnTheWay'
    BY <2>1 DEF OnTheWay
  <2>4. (\A l : Guarded(l)' => Guarded(l)) /\ \A p \in Pages : page'[p].step = "sure" => ~page'[p].sweep
    BY <2>1 DEF Guarded, Sweeps, Sweeping
  <2> QED  BY <2>1, <2>2, <2>3, <2>4, SweepingArrives
<1>3. ASSUME NEW p \in Pages,
             \/ CreateLease(p) \/ ListUnit(p) \/ Choose(p) \/ ClearUnit(p)
             \/ OpenEdit(p) \/ Refetch(p) \/ Put(p) \/ Leave(p)
      PROVE  Sweeping'
  <2>1. /\ Others(p) /\ UNCHANGED blur
        /\ \A q \in strays : q \in strays'
        /\ \A q \in waits[p] : q \in waits'[p] \cup strays'
        /\ \A k \in swept' : k \in swept \/ (page[p].step = "save" /\ page[p].sweep /\ k = page[p].lease)
        /\ \A r \in DOMAIN charge' : r \in DOMAIN charge /\ (Open(r)' => Open(r))
    <3>1. CASE CreateLease(p)
      BY <3>1, CreateBecomes DEF Open
    <3>2. CASE ListUnit(p) \/ Choose(p)
      BY <3>2, ForwardBecomes DEF Open
    <3>3. CASE ClearUnit(p)
      BY <3>3, ClearBecomes
    <3>4. CASE OpenEdit(p) \/ Refetch(p)
      BY <3>4, OpenBecomes, RefetchBecomes DEF Open
    <3>5. CASE Put(p)
      BY <3>5, PutBecomes DEF Open
    <3>6. CASE Leave(p)
      BY <3>6, LeaveBecomes DEF Open
    <3> QED  BY <1>3, <3>1, <3>2, <3>3, <3>4, <3>5, <3>6
  <2>2. \/ page'[p].step \notin {"sure", "void", "save"}
        \/ page'[p].step = page[p].step /\ page'[p].lease = page[p].lease /\ page'[p].sweep = page[p].sweep
    <3>1. CASE CreateLease(p)
      BY <3>1, CreateBecomes
    <3>2. CASE ListUnit(p) \/ Choose(p)
      BY <3>2, ForwardBecomes
    <3>3. CASE ClearUnit(p)
      BY <3>3, ClearBecomes
    <3>4. CASE OpenEdit(p) \/ Refetch(p)
      BY <3>4, OpenBecomes, RefetchBecomes DEF Alike
    <3>5. CASE Put(p)
      BY <3>5, PutBecomes DEF FormOf
    <3>6. CASE Leave(p)
      BY <3>6, LeaveBecomes
    <3> QED  BY <1>3, <3>1, <3>2, <3>3, <3>4, <3>5, <3>6
  <2>3. page'[p].step = "sure" => ~page'[p].sweep
    BY <2>2 DEF Sweeping
  <2>4. Sweeps(p)' => Sweeps(p) /\ page'[p].lease = page[p].lease
    BY <2>2 DEF Sweeps
  <2> QED  BY <2>1, <2>3, <2>4, SweepingMoves
<1>4. ASSUME NEW p \in Pages, Batch(p)
      PROVE  Sweeping'
  <2>1. /\ Others(p) /\ UNCHANGED <<waits, strays, swept, blur>>
        /\ page[p].step = "batch" /\ page'[p].step = "done"
        /\ \/ UNCHANGED charge
           \/ lease[page[p].lease].status = "live" /\ Add(New(page[p].lease, page[p].plan))
    BY <1>4, BatchBecomes
  <2>2. ASSUME NEW r \in DOMAIN charge', Open(r)', blur' = "none", Guarded(r.lease)
        PROVE  r \in DOMAIN charge /\ Open(r)
    <3>1. CASE UNCHANGED charge
      BY <2>2, <3>1 DEF Open
    <3>2. CASE lease[page[p].lease].status = "live" /\ Add(New(page[p].lease, page[p].plan))
      <4>1. PICK l, items, N : l = page[p].lease /\ items = page[p].plan /\ N = New(l, items)
        OBVIOUS
      <4>a. Add(New(l, items))
        BY <3>2, <4>1
      <4>2. /\ DOMAIN charge' = DOMAIN charge \cup N /\ \A k \in N : k.lease = l
            /\ \A k \in DOMAIN charge : k \notin N => charge'[k] = charge[k]
        <5>1. /\ DOMAIN charge' = DOMAIN charge \cup New(l, items)
              /\ \A k \in New(l, items) : k.lease = l /\ k.item \in items
              /\ \A k \in DOMAIN charge : k \notin New(l, items) => charge'[k] = charge[k]
          BY <1>0, <4>a, AddFacts
        <5> QED  BY <4>1, <5>1
      <4>3. ~Guarded(l)
        <5>1. l \notin swept
          BY <3>2, <4>1 DEF PlanBase
        <5>2. ASSUME NEW o \in Pages, Sweeps(o), page[o].lease = l
              PROVE  FALSE
          <6>1. AtWork(o) /\ AtWork(p) /\ o # p
            BY <2>1, <5>2 DEF AtWork, Sweeps
          <6> QED  BY <2>1, <2>2, <4>1, <5>2, <6>1 DEF Alone
        <5> QED  BY <5>1, <5>2 DEF Guarded
      <4>4. r \notin N
        BY <2>2, <4>2, <4>3
      <4> QED  BY <2>2, <4>2, <4>4 DEF Open
    <3> QED  BY <2>1, <3>1, <3>2
  <2>3. ~Sweeps(p)'
    BY <2>1 DEF Sweeps
  <2> QED  BY <2>1, <2>2, <2>3, SweepingMoves
<1>5. ASSUME NEW p \in Pages, Save(p) \/ TerminateVoid(p) \/ TerminateSkip(p)
      PROVE  Sweeping'
  <2>1. /\ Others(p) /\ UNCHANGED <<lease, charge, strays, swept>>
        /\ page[p].step \in {"form", "sure"} /\ page'[p].lease = page[p].lease
        /\ blur' = "none" => blur = "none"
        /\ \/ page'[p].step = "sure" /\ ~page'[p].sweep /\ waits'[p] = waits[p]
           \/ page'[p].step = "form" /\ waits'[p] = waits[p]
           \/ /\ page'[p].step = "save" /\ waits'[p] = waits[p]
              /\ page'[p].sweep => page[p].sweep /\ page[p].step = "sure"
           \/ /\ page'[p].step = "void" /\ waits'[p] = VoidsOf(p)
              /\ blur' # "blind" => ~Blind(p)
    BY <1>5, DecideBecomes
  <2>2. waits[p] = {}
    BY <2>1, IdleFacts
  <2>3. page'[p].step = "sure" => ~page'[p].sweep
    BY <2>1
  <2>4. (Sweeps(p)' => Sweeps(p)) \/ (blur' = "none" => Covered(page[p].lease)')
    <3>1. CASE page'[p].step # "void"
      BY <2>1, <3>1 DEF Sweeps, Sweeping
    <3>2. CASE page'[p].step = "void"
      <4>1. ASSUME blur' = "none", NEW l, l = page[p].lease
            PROVE  Covered(l)'
        <5>1. page[p].listed = RowsOf(l)
          BY <2>1, <3>2, <4>1 DEF Blind
        <5>2. ASSUME NEW r \in RowsOf(l)
              PROVE  VoidFor(r) \in OnTheWay'
          <6>1. VoidFor(r) \in VoidsOf(p)
            BY <4>1, <5>1, <5>2 DEF VoidFor, VoidsOf, RowsOf
          <6>2. VoidFor(r) \in waits'[p]
            BY <2>1, <3>2, <6>1
          <6> QED  BY <6>2 DEF OnTheWay
        <5>3. RowsOf(l)' = RowsOf(l)
          BY <2>1 DEF RowsOf
        <5> QED  BY <5>2, <5>3 DEF Covered, VoidFor
      <4>2. PICK m : m = page[p].lease
        OBVIOUS
      <4>3. blur' = "none" => Covered(m)'
        BY <4>1, <4>2
      <4>4. page'[p].lease = m
        BY <2>1, <4>2
      <4> QED  BY <4>3, <4>4 DEF Covered, RowsOf
    <3> QED  BY <3>1, <3>2
  <2>5. \A r \in DOMAIN charge' : r \in DOMAIN charge /\ (Open(r)' => Open(r))
    BY <2>1 DEF Open
  <2> QED  BY <2>1, <2>2, <2>3, <2>4, <2>5, SweepingMoves
<1>6. ASSUME NEW p \in Pages, Answer(p)
      PROVE  Sweeping'
  <2>0. \A said : FormOf(page'[p], page[p], said) => page'[p].step = "form"
    BY DEF FormOf
  <2>1. PICK q \in waits[p], answer \in {"yes", "no"} :
          /\ Others(p) /\ UNCHANGED <<lease, swept>>
          /\ Reach(q, answer) /\ IsMade(q.lease) /\ (IsVoid(q) \/ IsCharge(q))
          /\ \/ page'[p] = page[p]
             \/ page[p].step = "void" /\ page'[p].step = "save" /\ Alike(page'[p], page[p])
             \/ page'[p].step = "form"
          /\ \/ waits'[p] = waits[p] \ {q} /\ strays' = strays
             \/ waits'[p] = {} /\ strays' = strays \cup (waits[p] \ {q})
    BY <1>6, <2>0, AnswerMakes
  <2>2. q \in OnTheWay
    BY DEF OnTheWay
  <2>3. \A k \in OnTheWay : k # q => k \in OnTheWay'
    <3>1. PICK Q : Q = {q}
      OBVIOUS
    <3>2. \A k \in OnTheWay : k \notin Q => k \in OnTheWay'
      BY <2>1, <3>1, WayStays
    <3> QED  BY <3>1, <3>2
  <2>4. \A o \in Pages : page'[o].step = "sure" => ~page'[o].sweep
    BY <2>1 DEF Sweeping, Others
  <2>5. Sweeps(p)' => Sweeps(p) /\ page'[p].lease = page[p].lease
    BY <2>1 DEF Sweeps, Alike
  <2>6. \A l : Guarded(l)' => Guarded(l)
    BY <2>1, <2>5, GuardedStays DEF Others
  <2> QED  BY <2>1, <2>2, <2>3, <2>4, <2>6, SweepingArrives
<1> QED  BY <1>1, <1>2, <1>3, <1>4, <1>5, <1>6 DEF PlanNext

LEMMA SweptIsClean ==
  ASSUME PlanBase, Sweeping
  PROVE  SweptClean
<1>1. ASSUME NEW l \in swept, blur = "none", ~Requested(l),
             \A p \in Pages : \A q \in waits[p] : q.lease # l,
             NEW r \in RowsOf(l), charge[r] = "due"
      PROVE  FALSE
  <2>1. Covered(l) /\ Open(r) /\ r.lease = l
    BY <1>1 DEF PlanBase, Sweeping, Guarded, Open, RowsOf
  <2>2. VoidFor(r) \in OnTheWay /\ VoidFor(r).lease = l
    BY <1>1, <2>1 DEF Covered, VoidFor
  <2> QED  BY <1>1, <2>2 DEF OnTheWay, Requested
<1> QED  BY <1>1 DEF SweptClean

-----------------------------------------------------------------------------
(* The dates.                                                              *)

LEMMA MonthFacts ==
  ASSUME NEW d \in Int
  PROVE  /\ Month(d) \in Int /\ d % DaysPerMonth \in 0 .. DaysPerMonth - 1
         /\ d = DaysPerMonth * Month(d) + (d % DaysPerMonth)
  BY RentPlanBounds DEF Month

LEMMA FirstOfMonth ==
  ASSUME NEW m \in Int
  PROVE  At(m, 1) \in Int /\ Month(At(m, 1)) = m
<1>1. DaysPerMonth \in Nat \ {0}
  BY RentPlanBounds
<1> QED  BY <1>1 DEF Month, At

(* Days that are whole months apart are in different months.               *)
LEMMA WholeMonthsApart ==
  ASSUME NEW f \in Int, NEW a \in Int, NEW b \in Int,
         (a - f) % DaysPerMonth = 0, (b - f) % DaysPerMonth = 0, Month(a) = Month(b)
  PROVE  a = b
<1>1. PICK n \in Nat \ {0} : n = DaysPerMonth
  BY RentPlanBounds
<1>2. PICK x \in Int : a - f = x * n
  BY <1>1
<1>3. PICK y \in Int : b - f = y * n
  BY <1>1
<1>4. a - b < n /\ b - a < n
  <2>1. PICK m \in Int, r \in 0 .. n - 1, s \in 0 .. n - 1 : a = n * m + r /\ b = n * m + s
    BY <1>1, MonthFacts
  <2>2. PICK k \in Int : k = n * m
    OBVIOUS
  <2> QED  BY <2>1, <2>2
<1>5. PICK u \in Int, v \in Int : u = x * n /\ v = y * n
  OBVIOUS
<1>6. ~(x < y) /\ ~(y < x)
  <2>1. x < y => x * n + n <= y * n
    OBVIOUS
  <2>2. y < x => y * n + n <= x * n
    OBVIOUS
  <2> QED  BY <1>2, <1>3, <1>4, <1>5, <2>1, <2>2
<1> QED  BY <1>2, <1>3, <1>5, <1>6

LEMMA DatesAreDays ==
  ASSUME NEW start \in Int, NEW end \in Int, NEW due \in 1 .. LastDueDay
  PROVE  \E first \in Int :
           /\ \A d \in MonthlyDueDates(start, end, due) : d \in Int /\ (d - first) % DaysPerMonth = 0
           /\ first \in {At(Month(start), due), At(Month(start), due) + DaysPerMonth}
           /\ At(Month(start), due) >= start => first = At(Month(start), due)
           /\ \A d \in first .. end : start < end /\ (d - first) % DaysPerMonth = 0
                                      => d \in MonthlyDueDates(start, end, due)
<1> DEFINE here == At(Month(start), due)
<1>1. here \in Int /\ DaysPerMonth \in Int
  BY MonthFacts, RentPlanBounds DEF At
<1>2. PICK first \in Int : first = IF here < start THEN here + DaysPerMonth ELSE here
  BY <1>1
<1>3. MonthlyDueDates(start, end, due) =
        IF end <= start THEN {} ELSE {d \in first .. end : (d - first) % DaysPerMonth = 0}
  BY <1>2 DEF MonthlyDueDates
<1>4. start < end => ~(end <= start)
  OBVIOUS
<1>5. here >= start => ~(here < start)
  BY <1>1
<1>6. \A d \in MonthlyDueDates(start, end, due) : d \in Int /\ (d - first) % DaysPerMonth = 0
  BY <1>3
<1>7. \A d \in first .. end : start < end /\ (d - first) % DaysPerMonth = 0
                              => d \in MonthlyDueDates(start, end, due)
  BY <1>3, <1>4
<1> QED  BY <1>2, <1>5, <1>6, <1>7

IsRent(i) == i.kind = "rent"

LEMMA ScheduleApart ==
  ASSUME NEW start \in Int, NEW end \in Int, NEW due \in DueDays, NEW extras \in Extras
  PROVE  \A i, j \in Schedule(start, end, due, extras) :
           IsRent(i) /\ IsRent(j) /\ Month(i.due) = Month(j.due) => i = j
<1>1. PICK D : D = MonthlyDueDates(start, end, due)
  OBVIOUS
<1>2. due \in 1 .. LastDueDay /\ extras \subseteq {"deposit", "fee"}
  BY RentPlanBounds
<1>3. \A i \in Schedule(start, end, due, extras) : IsRent(i) => i.due \in D /\ i = [kind |-> "rent", due |-> i.due]
  BY <1>1, <1>2 DEF Schedule, IsRent
<1>4. PICK first \in Int : \A d \in D : d \in Int /\ (d - first) % DaysPerMonth = 0
  BY <1>1, <1>2, DatesAreDays
<1>5. \A a, b \in D : Month(a) = Month(b) => a = b
  BY <1>4, WholeMonthsApart
<1> QED  BY <1>3, <1>5

LEMMA MissingFacts ==
  ASSUME PlanShape, NEW l \in Leases, NEW end \in Int, NEW R
  PROVE  \A i \in Missing(l, end, Shift, R) :
           /\ IsRent(i) /\ i = [kind |-> "rent", due |-> i.due]
           /\ Month(i.due) \in Int /\ i.due = At(Month(i.due), 1)
           /\ \A r \in R : IsRent(r.item) => Month(r.item.due) # Month(i.due)
<1>1. lease[l].start - Shift \in Int
  BY RentPlanBounds DEF PlanShape
<1>2. Month(lease[l].start - Shift) \in Int /\ Month(end) \in Int
  BY <1>1, MonthFacts
<1>3. ASSUME NEW d \in EditDueDates(lease[l].start, end, Shift)
      PROVE  Month(d) \in Int /\ d = At(Month(d), 1)
  <2>1. PICK m \in Int : d = At(m, 1)
    BY <1>2 DEF EditDueDates
  <2> QED  BY <2>1, FirstOfMonth
<1> QED  BY <1>3 DEF Missing, IsRent

-----------------------------------------------------------------------------
(* One rent a month.  Unless a page saw badly, the months of the charges   *)
(* of a lease, of those asked for and of those planned are all different.  *)
Rents(l) == {r \in RowsOf(l) : IsRent(r.item)}
Asked(l) == {q \in OnTheWay : q.op = "charge" /\ q.lease = l /\ IsRent(q.item)}

MonthsApart(l) ==
  /\ \A r, s \in Rents(l) : Month(r.item.due) = Month(s.item.due) => r = s
  /\ \A q \in Asked(l), r \in Rents(l) : Month(q.item.due) # Month(r.item.due)
  /\ \A q, o \in Asked(l) : Month(q.item.due) = Month(o.item.due) => q = o

PlanApart(s) ==
  \A i \in s.plan : IsRent(i) =>
    /\ \A r \in Rents(s.lease) : Month(i.due) # Month(r.item.due)
    /\ \A j \in s.plan : IsRent(j) /\ Month(i.due) = Month(j.due) => i = j

Apart ==
  /\ \A p \in Pages : page[p].step = "post" => page[p].plan = {}
  /\ blur # "blind" =>
       /\ \A l \in Leases : MonthsApart(l)
       /\ \A p \in Pages : AtWork(p) => PlanApart(page[p])

LEMMA NoneAsked ==
  ASSUME PlanBase, Alone, blur # "blind", NEW p \in Pages, AtWork(p), page[p].step # "post",
         NEW q \in OnTheWay, q.op = "charge"
  PROVE  q.lease # page[p].lease
<1>1. CASE q \in strays
  BY <1>1 DEF Alone
<1>2. ASSUME NEW o \in Pages, q \in waits[o]
      PROVE  q.lease # page[p].lease
  <2>1. page[o].step = "post" /\ q.lease = page[o].lease
    BY <1>2 DEF PlanBase, WaitsWell, IsVoid
  <2> QED  BY <2>1 DEF Alone, AtWork
<1> QED  BY <1>1, <1>2 DEF OnTheWay

LEMMA MonthsKeep ==
  ASSUME NEW l, MonthsApart(l), Rents(l)' \subseteq Rents(l), Asked(l)' \subseteq Asked(l)
  PROVE  MonthsApart(l)'
  BY DEF MonthsApart

LEMMA PlanKeeps ==
  ASSUME NEW s, NEW t, PlanApart(s), t.plan = s.plan, t.lease = s.lease,
         Rents(s.lease)' \subseteq Rents(s.lease)
  PROVE  PlanApart(t)'
  BY DEF PlanApart, Rents, RowsOf

(* No charge is added and none is asked for.                               *)
LEMMA ApartMoves ==
  ASSUME Apart, NEW p \in Pages, Others(p), blur' # "blind" => blur # "blind",
         DOMAIN charge' = DOMAIN charge,
         \A q \in strays' \cup waits'[p] : q \in strays \cup waits[p] \/ q.op = "void",
         \/ ~AtWork(p)'
         \/ /\ AtWork(p) /\ page'[p].lease = page[p].lease /\ page'[p].plan = page[p].plan
            /\ page'[p].step = "post" => page[p].step = "post"
         \/ page'[p].step # "post" /\ (blur' # "blind" => PlanApart(page[p])')
  PROVE  Apart'
<1>1. \A l : Rents(l)' = Rents(l)
  BY DEF Rents, RowsOf
<1>2. \A l : Asked(l)' \subseteq Asked(l)
  <2>1. ASSUME NEW q \in OnTheWay', q.op = "charge"
        PROVE  q \in OnTheWay
    <3>1. CASE q \in strays' \cup waits'[p]
      BY <2>1, <3>1 DEF OnTheWay
    <3>2. ASSUME NEW o \in Pages, o # p, q \in waits'[o]
          PROVE  q \in OnTheWay
      BY <3>2 DEF OnTheWay, Others
    <3> QED  BY <2>1, <3>1, <3>2 DEF OnTheWay
  <2> QED  BY <2>1 DEF Asked
<1>3. blur' # "blind" => \A l \in Leases : MonthsApart(l)'
  BY <1>1, <1>2, MonthsKeep DEF Apart
<1>4. ASSUME blur' # "blind", NEW o \in Pages, AtWork(o)'
      PROVE  PlanApart(page[o])'
  <2>0. PICK s, t : s = page[o] /\ t = page'[o]
    OBVIOUS
  <2>1. CASE AtWork(o) /\ t.lease = s.lease /\ t.plan = s.plan
    <3>1. PlanApart(s)
      BY <1>4, <2>0, <2>1 DEF Apart
    <3>2. PlanApart(t)'
      BY <1>1, <2>1, <3>1, PlanKeeps
    <3> QED  BY <2>0, <3>2
  <2>2. CASE o # p
    BY <1>4, <2>0, <2>1, <2>2 DEF Others, AtWork
  <2>3. CASE o = p
    BY <1>4, <2>0, <2>1, <2>3
  <2> QED  BY <2>2, <2>3
<1>5. \A o \in Pages : page'[o].step = "post" => page'[o].plan = {}
  BY DEF Apart, Others, AtWork
<1> QED  BY <1>3, <1>4, <1>5 DEF Apart

LEMMA ApartChange ==
  ASSUME Apart, NEW p \in Pages, blur' # "blind" => blur # "blind",
         \A o \in Pages : o # p => page'[o] = page[o],
         page'[p].step = "post" => page'[p].plan = {},
         blur' # "blind" => \A l \in Leases : MonthsApart(l)',
         blur' # "blind" /\ AtWork(p)' => PlanApart(page[p])',
         blur' # "blind" => \A o \in Pages : o # p /\ AtWork(o)
                              => page[o].plan = {} \/ Rents(page[o].lease)' \subseteq Rents(page[o].lease)
  PROVE  Apart'
<1>1. ASSUME blur' # "blind", NEW o \in Pages, AtWork(o)', o # p
      PROVE  PlanApart(page[o])'
  <2>0. PICK s, l : s = page[o] /\ l = s.lease
    OBVIOUS
  <2>1. AtWork(o) /\ page'[o] = s
    BY <1>1, <2>0 DEF AtWork
  <2>2. PlanApart(s)
    BY <1>1, <2>0, <2>1 DEF Apart
  <2>3. CASE s.plan = {}
    BY <2>1, <2>3 DEF PlanApart
  <2>4. CASE s.plan # {}
    <3>1. Rents(page[o].lease)' \subseteq Rents(page[o].lease)
      BY <1>1, <2>0, <2>1, <2>4
    <3>2. Rents(l)' \subseteq Rents(l)
      BY <2>0, <2>1, <3>1 DEF Rents, RowsOf
    <3>3. PlanApart(s)'
      BY <2>0, <2>2, <3>2, PlanKeeps
    <3> QED  BY <2>1, <3>3
  <2> QED  BY <2>3, <2>4
<1>2. \A o \in Pages : page'[o].step = "post" => page'[o].plan = {}
  BY DEF Apart
<1> QED  BY <1>1, <1>2 DEF Apart

(* A request that arrives.                                                 *)
LEMMA ArrivesApart ==
  ASSUME PlanBase, Alone, Apart, NEW q \in OnTheWay, NEW answer, Reach(q, answer),
         IsMade(q.lease), IsVoid(q) \/ IsCharge(q), blur' # "blind",
         OnTheWay' \subseteq OnTheWay, q.op = "charge" => q \notin OnTheWay'
  PROVE  /\ \A l \in Leases : MonthsApart(l)'
         /\ \A l : l # q.lease \/ q.op # "charge" => Rents(l)' \subseteq Rents(l)
<1>1. /\ blur # "blind"
      /\ \A r \in DOMAIN charge' \ DOMAIN charge : q.op = "charge" /\ r.lease = q.lease /\ r.item = q.item
      /\ \A r, s \in DOMAIN charge' \ DOMAIN charge : r = s
  BY ReachFacts DEF PlanBase
<1>2. ASSUME NEW l, NEW r \in Rents(l)', r \notin Rents(l)
      PROVE  r \in DOMAIN charge' \ DOMAIN charge /\ r.lease = l /\ IsRent(r.item)
  BY <1>2 DEF Rents, RowsOf
<1>3. \A l : l # q.lease \/ q.op # "charge" => Rents(l)' \subseteq Rents(l)
  BY <1>1, <1>2
<1>4. ASSUME NEW l \in Leases
      PROVE  MonthsApart(l)'
  <2>1. Asked(l)' \subseteq Asked(l)
    BY DEF Asked
  <2>2. MonthsApart(l)
    BY <1>1 DEF Apart
  <2>3. CASE Rents(l)' \subseteq Rents(l)
    BY <2>1, <2>2, <2>3, MonthsKeep
  <2>4. ASSUME NEW r \in Rents(l)', r \notin Rents(l)
        PROVE  /\ r.item = q.item /\ q \in Asked(l) /\ q \notin Asked(l)'
               /\ \A s \in Rents(l)' : s # r => s \in Rents(l)
    <3>1. r.item = q.item /\ q.op = "charge" /\ q.lease = l /\ IsRent(q.item)
      BY <1>1, <1>2, <2>4
    <3>2. q \in Asked(l) /\ q \notin Asked(l)'
      BY <3>1 DEF Asked
    <3>3. \A s \in Rents(l)' : s # r => s \in Rents(l)
      BY <1>1, <1>2, <2>4
    <3> QED  BY <3>1, <3>2, <3>3
  <2>5. ASSUME NEW r \in Rents(l)', r \notin Rents(l)
        PROVE  MonthsApart(l)'
    <3>1. /\ r.item = q.item /\ q \in Asked(l) /\ q \notin Asked(l)'
          /\ \A s \in Rents(l)' : s # r => s \in Rents(l)
      BY <2>4, <2>5
    <3>2. \A s \in Rents(l) : Month(q.item.due) # Month(s.item.due)
      BY <2>2, <3>1 DEF MonthsApart
    <3>3. \A s \in Rents(l)' : s # r => Month(s.item.due) # Month(r.item.due)
      BY <3>1, <3>2
    <3>4. \A a, b \in Rents(l)' : Month(a.item.due) = Month(b.item.due) => a = b
      BY <2>2, <3>1, <3>3 DEF MonthsApart
    <3>5. \A k \in Asked(l)' : Month(k.item.due) # Month(r.item.due)
      BY <2>1, <2>2, <3>1 DEF MonthsApart
    <3>6. \A k \in Asked(l)', s \in Rents(l)' : Month(k.item.due) # Month(s.item.due)
      BY <2>1, <2>2, <3>1, <3>5 DEF MonthsApart
    <3>7. \A k, o \in Asked(l)' : Month(k.item.due) = Month(o.item.due) => k = o
      BY <2>1, <2>2 DEF MonthsApart
    <3> QED  BY <3>4, <3>6, <3>7 DEF MonthsApart
  <2> QED  BY <2>3, <2>5
<1> QED  BY <1>3, <1>4

LEMMA StrayApart ==
  ASSUME PlanBase, Alone, Apart, Stray
  PROVE  Apart'
<1>1. PICK q \in strays, answer \in {"yes", "no"} :
        Reach(q, answer) /\ strays' = strays \ {q} /\ UNCHANGED <<lease, page, waits, swept>>
  BY DEF Stray
<1>2. IsMade(q.lease) /\ (IsVoid(q) \/ IsCharge(q)) /\ q \in OnTheWay /\ OnTheWay' \subseteq OnTheWay
  BY <1>1 DEF PlanBase, OnTheWay
<1>3. blur' # "blind" => blur # "blind"
  BY <1>1, <1>2, ReachFacts DEF PlanBase
<1>4. ASSUME blur' # "blind", q.op = "charge", NEW p \in Pages, AtWork(p)
      PROVE  page[p].lease # q.lease
  BY <1>3, <1>4 DEF Alone
<1>5. ASSUME blur' # "blind", q.op = "charge"
      PROVE  q \notin OnTheWay'
  <2>1. ASSUME NEW p \in Pages, q \in waits[p]
        PROVE  FALSE
    <3>1. AtWork(p) /\ page[p].lease = q.lease
      BY <2>1 DEF PlanBase, WaitsWell, AtWork
    <3> QED  BY <1>4, <1>5, <3>1
  <2> QED  BY <1>1, <2>1 DEF OnTheWay
<1>6. ASSUME blur' # "blind"
      PROVE  /\ \A l \in Leases : MonthsApart(l)'
             /\ \A l : l # q.lease \/ q.op # "charge" => Rents(l)' \subseteq Rents(l)
  BY <1>1, <1>2, <1>5, <1>6, ArrivesApart
<1>7. ASSUME blur' # "blind", NEW p \in Pages, AtWork(p)'
      PROVE  PlanApart(page[p])'
  <2>0. PICK s, l : s = page[p] /\ l = s.lease
    OBVIOUS
  <2>1. AtWork(p) /\ page'[p] = s
    BY <1>1, <1>7, <2>0 DEF AtWork
  <2>2. PlanApart(s) /\ Rents(l)' \subseteq Rents(l)
    BY <1>3, <1>4, <1>6, <1>7, <2>0, <2>1 DEF Apart
  <2>3. PlanApart(s)'
    BY <2>0, <2>2, PlanKeeps
  <2> QED  BY <2>1, <2>3
<1>8. \A p \in Pages : page'[p].step = "post" => page'[p].plan = {}
  BY <1>1 DEF Apart
<1> QED  BY <1>6, <1>7, <1>8 DEF Apart

LEMMA AnswerApart ==
  ASSUME PlanBase, Alone, Apart, NEW p \in Pages, Answer(p)
  PROVE  Apart'
<1>0. \A said : FormOf(page'[p], page[p], said) => page'[p].step = "form"
  BY DEF FormOf
<1>1. PICK q \in waits[p], answer \in {"yes", "no"} :
        /\ Others(p) /\ Reach(q, answer) /\ q.lease = page[p].lease /\ IsMade(q.lease)
        /\ (IsVoid(q) \/ IsCharge(q))
        /\ AtWork(p)
        /\ \/ page'[p] = page[p]
           \/ IsVoid(q) /\ page'[p].step = "save" /\ Alike(page'[p], page[p])
           \/ page'[p].step = "form"
        /\ \/ waits'[p] = waits[p] \ {q} /\ strays' = strays
           \/ waits'[p] = {} /\ strays' = strays \cup (waits[p] \ {q})
  BY <1>0, AnswerMakes DEF AtWork
<1>2. q \in OnTheWay
  BY DEF OnTheWay
<1>3. blur' # "blind" => blur # "blind"
  BY <1>1, ReachFacts DEF PlanBase
<1>4. OnTheWay' \subseteq OnTheWay
  <2>1. ASSUME NEW k \in OnTheWay'
        PROVE  k \in OnTheWay
    <3>1. CASE k \in strays' \cup waits'[p]
      BY <1>1, <3>1 DEF OnTheWay
    <3>2. ASSUME NEW o \in Pages, o # p, k \in waits'[o]
          PROVE  k \in OnTheWay
      BY <1>1, <3>2 DEF OnTheWay, Others
    <3> QED  BY <2>1, <3>1, <3>2 DEF OnTheWay
  <2> QED  BY <2>1
<1>5. ASSUME blur' # "blind", NEW o \in Pages, o # p, AtWork(o)
      PROVE  page[o].lease # q.lease
  BY <1>1, <1>3, <1>5 DEF Alone
<1>6. ASSUME blur' # "blind", q.op = "charge"
      PROVE  q \notin OnTheWay'
  <2>1. q \notin strays
    BY <1>1, <1>3, <1>6 DEF Alone
  <2>2. ASSUME NEW o \in Pages, o # p, q \in waits[o]
        PROVE  FALSE
    <3>1. AtWork(o) /\ page[o].lease = q.lease
      BY <2>2 DEF PlanBase, WaitsWell, AtWork
    <3> QED  BY <1>5, <1>6, <2>2, <3>1
  <2>3. q \notin strays' /\ q \notin waits'[p]
    BY <1>1, <2>1
  <2>4. \A o \in Pages : q \notin waits'[o]
    BY <1>1, <2>2, <2>3 DEF Others
  <2> QED  BY <2>3, <2>4 DEF OnTheWay
<1>7. ASSUME blur' # "blind"
      PROVE  /\ \A l \in Leases : MonthsApart(l)'
             /\ \A l : l # q.lease \/ q.op # "charge" => Rents(l)' \subseteq Rents(l)
  BY <1>1, <1>2, <1>4, <1>6, <1>7, ArrivesApart
<1>8. ASSUME blur' # "blind", AtWork(p)'
      PROVE  PlanApart(page[p])'
  <2>0. PICK s, t, l : s = page[p] /\ t = page'[p] /\ l = s.lease
    OBVIOUS
  <2>1. /\ PlanApart(s)
        /\ t.plan = s.plan /\ t.lease = s.lease
        /\ s.plan = {} \/ q.op # "charge"
    <3>1. PlanApart(s)
      BY <1>1, <1>3, <1>8, <2>0 DEF Apart
    <3>2. t = s \/ (Alike(t, s) /\ IsVoid(q))
      BY <1>1, <1>8, <2>0 DEF AtWork
    <3>3. t.plan = s.plan /\ t.lease = s.lease
      BY <3>2 DEF Alike
    <3>4. q.op = "charge" => s.step = "post"
      BY <2>0 DEF PlanBase, WaitsWell, IsVoid
    <3>5. q.op = "charge" => s.plan = {}
      BY <2>0, <3>4 DEF Apart
    <3> QED  BY <3>1, <3>3, <3>5
  <2>2. CASE q.op # "charge"
    <3>1. Rents(l)' \subseteq Rents(l)
      BY <1>7, <1>8, <2>2
    <3>2. PlanApart(t)'
      BY <2>0, <2>1, <3>1, PlanKeeps
    <3> QED  BY <2>0, <3>2
  <2>3. CASE s.plan = {}
    BY <2>0, <2>1, <2>3 DEF PlanApart
  <2> QED  BY <2>1, <2>2, <2>3
<1>9. page'[p].step = "post" => page'[p].plan = {}
  BY <1>1 DEF Apart
<1>10. ASSUME blur' # "blind", NEW o \in Pages, o # p, AtWork(o)
       PROVE  Rents(page[o].lease)' \subseteq Rents(page[o].lease)
  <2>1. PICK l : l = page[o].lease
    OBVIOUS
  <2>2. Rents(l)' \subseteq Rents(l)
    BY <1>5, <1>7, <1>10, <2>1
  <2>3. page'[o].lease = l
    BY <1>1, <1>10, <2>1 DEF Others
  <2> QED  BY <2>1, <2>2, <2>3 DEF Rents, RowsOf
<1> QED  BY <1>1, <1>3, <1>7, <1>8, <1>9, <1>10, ApartChange DEF Others

LEMMA BatchApart ==
  ASSUME PlanBase, Alone, Apart, NEW p \in Pages, Batch(p)
  PROVE  Apart'
<1>1. /\ Others(p) /\ UNCHANGED <<lease, waits, strays, swept, blur>>
      /\ page[p].step = "batch" /\ page'[p].step = "done"
      /\ \/ UNCHANGED charge
         \/ lease[page[p].lease].status = "live" /\ Add(New(page[p].lease, page[p].plan))
  BY BatchBecomes
<1>2. ~AtWork(p)' /\ AtWork(p)
  BY <1>1 DEF AtWork
<1>3. CASE UNCHANGED charge
  <2>1. waits'[p] = waits[p] /\ DOMAIN charge' = DOMAIN charge
    BY <1>1, <1>3
  <2> QED  BY <1>1, <1>2, <2>1, ApartMoves
<1>4. CASE Add(New(page[p].lease, page[p].plan))
  <2>1. PICK s, l, N : s = page[p] /\ l = s.lease /\ N = New(l, s.plan)
    OBVIOUS
  <2>2. /\ DOMAIN charge' = DOMAIN charge \cup N
        /\ \A r \in N : r.lease = l /\ r.item \in s.plan
        /\ \A r, k \in N : r.item = k.item => r = k
    <3>1. Add(New(l, s.plan)) /\ PlanShape
      BY <1>4, <2>1 DEF PlanBase
    <3>2. PICK items : items = s.plan
      OBVIOUS
    <3>3. /\ DOMAIN charge' = DOMAIN charge \cup New(l, items)
          /\ \A r \in New(l, items) : r.lease = l /\ r.item \in items
          /\ \A r, k \in New(l, items) : r.item = k.item => r = k
      BY <3>1, <3>2, AddFacts
    <3> QED  BY <2>1, <3>2, <3>3
  <2>3. \A k : k # l => Rents(k)' \subseteq Rents(k)
    BY <2>2 DEF Rents, RowsOf
  <2>4. \A r \in Rents(l)' : r \in Rents(l) \/ (r \in N /\ IsRent(r.item))
    BY <2>2 DEF Rents, RowsOf
  <2>5. \A k : Asked(k)' = Asked(k)
    BY <1>1 DEF Asked, OnTheWay
  <2>6. ASSUME blur' # "blind", NEW k \in Leases
        PROVE  MonthsApart(k)'
    <3>1. MonthsApart(k)
      BY <1>1, <2>6 DEF Apart
    <3>2. CASE k # l
      BY <2>3, <2>5, <3>1, <3>2, MonthsKeep
    <3>3. CASE k = l
      <4>1. PlanApart(s)
        BY <1>1, <1>2, <2>1, <2>6 DEF Apart
      <4>2. Asked(l) = {}
        BY <1>1, <1>2, <2>1, <2>6, NoneAsked DEF Asked
      <4>3. \A r \in N, i \in Rents(l) : IsRent(r.item) => Month(r.item.due) # Month(i.item.due)
        BY <2>1, <2>2, <4>1 DEF PlanApart
      <4>4. \A r, i \in N : IsRent(r.item) /\ IsRent(i.item) /\ Month(r.item.due) = Month(i.item.due) => r = i
        BY <2>2, <4>1 DEF PlanApart
      <4>5. \A r, i \in Rents(l) : Month(r.item.due) = Month(i.item.due) => r = i
        BY <3>1, <3>3 DEF MonthsApart
      <4>6. \A r, i \in Rents(l)' : Month(r.item.due) = Month(i.item.due) => r = i
        BY <2>4, <4>3, <4>4, <4>5
      <4> QED  BY <2>5, <3>3, <4>2, <4>6 DEF MonthsApart
    <3> QED  BY <3>2, <3>3
  <2>7. ASSUME blur' # "blind", NEW o \in Pages, o # p, AtWork(o)
        PROVE  Rents(page[o].lease)' \subseteq Rents(page[o].lease)
    <3>1. PICK k : k = page[o].lease /\ page'[o].lease = k
      BY <1>1, <2>7 DEF Others
    <3>2. k # l
      BY <1>1, <1>2, <2>1, <2>7, <3>1 DEF Alone
    <3>3. Rents(k)' \subseteq Rents(k)
      BY <2>3, <3>2
    <3> QED  BY <3>1, <3>3 DEF Rents, RowsOf
  <2> QED  BY <1>1, <1>2, <2>6, <2>7, ApartChange DEF Others
<1> QED  BY <1>1, <1>3, <1>4

LEMMA PutApart ==
  ASSUME PlanBase, Alone, Apart, NEW p \in Pages, Put(p)
  PROVE  Apart'
<1>0. \A said : FormOf(page'[p], page[p], said) => page'[p].step = "form"
  BY DEF FormOf
<1>1. /\ Others(p) /\ UNCHANGED <<charge, strays, blur>>
      /\ page[p].step = "save" /\ waits[p] = {}
      /\ \/ page'[p].step \in {"form", "away"} /\ waits'[p] = {}
         \/ /\ page'[p].step = "post" /\ page'[p].plan = {}
            /\ waits'[p] = [op : {"charge"}, lease : {page[p].lease}, item : page[p].plan]
  BY <1>0, PutBecomes
<1>2. AtWork(p) /\ DOMAIN charge' = DOMAIN charge
  BY <1>1 DEF AtWork
<1>3. CASE page'[p].step \in {"form", "away"} /\ waits'[p] = {}
  <2>1. ~AtWork(p)'
    BY <1>3 DEF AtWork
  <2> QED  BY <1>1, <1>2, <1>3, <2>1, ApartMoves
<1>4. CASE /\ page'[p].step = "post" /\ page'[p].plan = {}
           /\ waits'[p] = [op : {"charge"}, lease : {page[p].lease}, item : page[p].plan]
  <2>1. PICK s, l : s = page[p] /\ l = s.lease
    OBVIOUS
  <2>2. \A k : Rents(k)' = Rents(k)
    BY <1>2 DEF Rents, RowsOf
  <2>3. \A q \in waits'[p] : q.op = "charge" /\ q.lease = l /\ q.item \in s.plan /\ q = [op |-> "charge", lease |-> l, item |-> q.item]
    BY <1>4, <2>1
  <2>4. ASSUME NEW k, NEW q \in Asked(k)'
        PROVE  q \in Asked(k) \/ (q \in waits'[p] /\ IsRent(q.item))
    <3>1. q \in OnTheWay' /\ q.op = "charge" /\ q.lease = k /\ IsRent(q.item)
      BY <2>4 DEF Asked
    <3>2. ASSUME NEW o \in Pages, o # p, q \in waits'[o]
          PROVE  q \in OnTheWay
      BY <1>1, <3>2 DEF OnTheWay, Others
    <3>3. q \in strays' => q \in OnTheWay
      BY <1>1 DEF OnTheWay
    <3> QED  BY <3>1, <3>2, <3>3 DEF Asked, OnTheWay
  <2>5. ASSUME blur' # "blind", NEW k \in Leases
        PROVE  MonthsApart(k)'
    <3>1. MonthsApart(k)
      BY <1>1, <2>5 DEF Apart
    <3>2. CASE k # l
      <4>1. Asked(k)' \subseteq Asked(k)
        BY <2>3, <2>4, <3>2 DEF Asked
      <4> QED  BY <2>2, <3>1, <4>1, MonthsKeep
    <3>3. CASE k = l
      <4>1. PlanApart(s)
        BY <1>1, <1>2, <2>1, <2>5 DEF Apart
      <4>2. Asked(l) = {}
        BY <1>1, <1>2, <2>1, <2>5, NoneAsked DEF Asked
      <4>3. \A q \in Asked(l)' : /\ q.item \in s.plan /\ IsRent(q.item)
                                 /\ q = [op |-> "charge", lease |-> l, item |-> q.item]
        BY <2>3, <2>4, <4>2
      <4>4. \A q \in Asked(l)', r \in Rents(l)' : Month(q.item.due) # Month(r.item.due)
        BY <2>1, <2>2, <4>1, <4>3 DEF PlanApart
      <4>5. \A q, o \in Asked(l)' : Month(q.item.due) = Month(o.item.due) => q = o
        BY <4>1, <4>3 DEF PlanApart
      <4>6. \A r, i \in Rents(l)' : Month(r.item.due) = Month(i.item.due) => r = i
        BY <2>2, <3>1, <3>3 DEF MonthsApart
      <4> QED  BY <3>3, <4>4, <4>5, <4>6 DEF MonthsApart
    <3> QED  BY <3>2, <3>3
  <2>6. PlanApart(page[p])'
    BY <1>4 DEF PlanApart
  <2>7. \A o \in Pages : o # p => Rents(page[o].lease)' \subseteq Rents(page[o].lease)
    BY <1>1, <1>2 DEF Rents, RowsOf, Others
  <2> QED  BY <1>1, <1>4, <2>5, <2>6, <2>7, ApartChange DEF Others
<1> QED  BY <1>1, <1>3, <1>4

LEMMA CreateApart ==
  ASSUME PlanBase, Apart, NEW p \in Pages, CreateLease(p)
  PROVE  Apart'
<1>1. /\ Others(p) /\ UNCHANGED <<charge, waits, strays, swept, blur>>
      /\ page[p].step = "away"
      /\ \E l \in Leases, s \in Starts, e \in Ends, due \in DueDays, extras \in Extras :
           /\ lease[l].status = "none"
           /\ \/ page'[p] = page[p]
              \/ /\ page'[p].step = "list" /\ page'[p].lease = l
                 /\ page'[p].plan = Schedule(s, e, due, extras)
  BY CreateBecomes
<1>2. PICK l \in Leases, s \in Starts, e \in Ends, due \in DueDays, extras \in Extras :
        /\ lease[l].status = "none"
        /\ \/ page'[p] = page[p]
           \/ /\ page'[p].step = "list" /\ page'[p].lease = l
              /\ page'[p].plan = Schedule(s, e, due, extras)
  BY <1>1
<1>3. waits'[p] = waits[p] /\ DOMAIN charge' = DOMAIN charge
  BY <1>1
<1>4. CASE page'[p] = page[p]
  <2>1. ~AtWork(p)'
    BY <1>1, <1>4 DEF AtWork
  <2> QED  BY <1>1, <1>3, <2>1, ApartMoves
<1>5. CASE page'[p].step = "list" /\ page'[p].lease = l /\ page'[p].plan = Schedule(s, e, due, extras)
  <2>1. PICK t, plan : t = page'[p] /\ plan = Schedule(s, e, due, extras)
    OBVIOUS
  <2>2. t.plan = plan /\ t.lease = l
    BY <1>5, <2>1
  <2>3. Rents(l)' = {}
    BY <1>1, <1>2 DEF Rents, RowsOf, PlanBase, IsMade
  <2>4. s \in Int /\ e \in Int
    BY RentPlanBounds
  <2>5. \A i, j \in plan : IsRent(i) /\ IsRent(j) /\ Month(i.due) = Month(j.due) => i = j
    BY <2>1, <2>4, ScheduleApart
  <2>6. PlanApart(t)'
    BY <2>2, <2>3, <2>5 DEF PlanApart
  <2>7. PlanApart(page[p])'
    BY <2>1, <2>6
  <2> QED  BY <1>1, <1>3, <1>5, <2>7, ApartMoves
<1> QED  BY <1>2, <1>4, <1>5

LEMMA DecideApart ==
  ASSUME PlanBase, Apart, NEW p \in Pages, Save(p) \/ TerminateVoid(p) \/ TerminateSkip(p)
  PROVE  Apart'
<1>1. /\ Others(p) /\ UNCHANGED <<lease, charge, strays, swept>>
      /\ page[p].step \in {"form", "sure"} /\ page'[p].lease = page[p].lease
      /\ blur' # "blind" => blur # "blind"
      /\ \/ page'[p].step \in {"sure", "form"} /\ waits'[p] = waits[p]
         \/ /\ page'[p].step \in {"save", "void"}
            /\ waits'[p] \in {waits[p], VoidsOf(p)}
            /\ blur' # "blind" => ~Blind(p)
            /\ page'[p].due = 1 =>
                 page'[p].plan = Missing(page[p].lease, page'[p].end, Shift, page[p].listed)
            /\ page'[p].due # 1 => page'[p].plan = {}
  BY DecideBecomes
<1>2. DOMAIN charge' = DOMAIN charge
  BY <1>1
<1>3. CASE page'[p].step \in {"sure", "form"} /\ waits'[p] = waits[p]
  <2>1. ~AtWork(p)'
    BY <1>3 DEF AtWork
  <2> QED  BY <1>1, <1>2, <1>3, <2>1, ApartMoves
<1>4. CASE /\ page'[p].step \in {"save", "void"}
           /\ waits'[p] \in {waits[p], VoidsOf(p)}
           /\ blur' # "blind" => ~Blind(p)
           /\ page'[p].due = 1 =>
                page'[p].plan = Missing(page[p].lease, page'[p].end, Shift, page[p].listed)
           /\ page'[p].due # 1 => page'[p].plan = {}
  <2>1. \A q \in VoidsOf(p) : q.op = "void"
    BY DEF VoidsOf
  <2>2. \A q \in strays' \cup waits'[p] : q \in strays \cup waits[p] \/ q.op = "void"
    BY <1>1, <1>4, <2>1
  <2>3. ASSUME blur' # "blind"
        PROVE  PlanApart(page[p])'
    <3>1. PICK t, l, R : t = page'[p] /\ l = page[p].lease /\ R = page[p].listed
      OBVIOUS
    <3>2. t.lease = l /\ R = RowsOf(l)
      BY <1>1, <1>4, <2>3, <3>1 DEF Blind
    <3>3. t.end \in Int /\ l \in Leases /\ PlanShape
      <4>1. Sound(page[p])' /\ Sound(page[p])
        BY <1>4, PlanBaseStep DEF PlanBase, PlanNext
      <4> QED  BY <1>1, <3>1, <4>1 DEF Sound, IsMade, PlanBase
    <3>4. CASE t.due = 1
      <4>1. PICK plan, end : plan = t.plan /\ end = t.end
        OBVIOUS
      <4>2. plan = Missing(l, end, Shift, R)
        BY <1>4, <3>1, <3>4, <4>1
      <4>3. \A i \in plan : /\ IsRent(i) /\ i = [kind |-> "rent", due |-> i.due]
                            /\ Month(i.due) \in Int /\ i.due = At(Month(i.due), 1)
                            /\ \A r \in R : IsRent(r.item) => Month(r.item.due) # Month(i.due)
        BY <3>3, <4>1, <4>2, MissingFacts
      <4>4. \A i, j \in plan : Month(i.due) = Month(j.due) => i = j
        BY <4>3
      <4>5. Rents(l)' = Rents(l) /\ \A r \in Rents(l) : r \in R /\ IsRent(r.item)
        BY <1>2, <3>2 DEF Rents, RowsOf
      <4>6. PlanApart(t)'
        BY <3>2, <4>1, <4>3, <4>4, <4>5 DEF PlanApart
      <4> QED  BY <3>1, <4>6
    <3>5. CASE t.due # 1
      BY <1>4, <3>1, <3>5 DEF PlanApart
    <3> QED  BY <3>4, <3>5
  <2> QED  BY <1>1, <1>2, <1>4, <2>2, <2>3, ApartMoves
<1> QED  BY <1>1, <1>3, <1>4

LEMMA ApartStep ==
  ASSUME PlanBase, Alone, Apart, PlanNext
  PROVE  Apart'
<1>1. CASE Pay \/ Settle
  <2>1. DOMAIN charge' = DOMAIN charge /\ UNCHANGED <<page, waits, strays, blur>>
    BY <1>1 DEF Pay, Settle
  <2>2. (\A l : Rents(l)' = Rents(l)) /\ OnTheWay' = OnTheWay
    BY <2>1 DEF Rents, RowsOf, OnTheWay
  <2>3. \A l : Asked(l)' = Asked(l)
    BY <2>2 DEF Asked
  <2>4. blur' # "blind" => \A l \in Leases : MonthsApart(l)'
    BY <2>1, <2>2, <2>3, MonthsKeep DEF Apart
  <2>5. ASSUME blur' # "blind", NEW p \in Pages, AtWork(p)'
        PROVE  PlanApart(page[p])'
    <3>1. PICK s : s = page[p] /\ page'[p] = s
      BY <2>1
    <3>2. PlanApart(s)
      BY <2>1, <2>5, <3>1 DEF Apart, AtWork
    <3>3. PlanApart(s)'
      BY <2>2, <3>2, PlanKeeps
    <3> QED  BY <3>1, <3>3
  <2> QED  BY <2>1, <2>4, <2>5 DEF Apart
<1>2. ASSUME NEW p \in Pages,
             ListUnit(p) \/ Choose(p) \/ ClearUnit(p) \/ OpenEdit(p) \/ Refetch(p) \/ Leave(p)
      PROVE  Apart'
  <2>1. /\ Others(p) /\ UNCHANGED blur /\ DOMAIN charge' = DOMAIN charge
        /\ \A q \in strays' \cup waits'[p] : q \in strays \cup waits[p]
    <3>1. CASE ListUnit(p) \/ Choose(p)
      BY <3>1, ForwardBecomes
    <3>2. CASE ClearUnit(p)
      BY <3>2, ClearBecomes
    <3>3. CASE OpenEdit(p) \/ Refetch(p)
      BY <3>3, OpenBecomes, RefetchBecomes
    <3>4. CASE Leave(p)
      BY <3>4, LeaveBecomes
    <3> QED  BY <1>2, <3>1, <3>2, <3>3, <3>4
  <2>2. \/ page'[p].step \in {"done", "away", "form"}
        \/ /\ page'[p].lease = page[p].lease /\ page'[p].plan = page[p].plan
           /\ \/ page'[p].step = page[p].step
              \/ page'[p].step \in {"ask", "batch", "clear"} /\ page[p].step \in {"list", "ask", "clear"}
    <3>1. CASE ListUnit(p) \/ Choose(p)
      BY <3>1, ForwardBecomes DEF Alike
    <3>2. CASE ClearUnit(p)
      BY <3>2, ClearBecomes DEF Alike
    <3>3. CASE OpenEdit(p) \/ Refetch(p)
      BY <3>3, OpenBecomes, RefetchBecomes DEF Alike
    <3>4. CASE Leave(p)
      BY <3>4, LeaveBecomes
    <3> QED  BY <1>2, <3>1, <3>2, <3>3, <3>4
  <2>3. \/ ~AtWork(p)'
        \/ /\ AtWork(p) /\ page'[p].lease = page[p].lease /\ page'[p].plan = page[p].plan
           /\ page'[p].step = "post" => page[p].step = "post"
    BY <2>2 DEF AtWork
  <2> QED  BY <2>1, <2>3, ApartMoves
<1> QED  BY <1>1, <1>2, StrayApart, AnswerApart, BatchApart, PutApart, CreateApart, DecideApart DEF PlanNext

LEMMA MonthsAreApart ==
  ASSUME PlanBase, Apart
  PROVE  OneRentPerMonth
<1>1. ASSUME NEW r \in DOMAIN charge, NEW s \in DOMAIN charge, r # s, r.lease = s.lease,
             IsRent(r.item), IsRent(s.item), Month(r.item.due) = Month(s.item.due)
      PROVE  blur = "blind"
  <2>1. r.lease \in Leases /\ r \in Rents(r.lease) /\ s \in Rents(r.lease)
    BY <1>1 DEF PlanBase, IsMade, Rents, RowsOf
  <2> QED  BY <1>1, <2>1 DEF Apart, MonthsApart
<1> QED  BY <1>1 DEF OneRentPerMonth, IsRent

-----------------------------------------------------------------------------
(* What a page says it did.  What is due in the term of a lease is there,  *)
(* is planned, or is asked for, at every step before the page says so.     *)

(* The dates of both kinds of pages leave nothing out.                     *)
LEMMA DueDaysListed ==
  ASSUME NEW start \in Int, NEW end \in Int, NEW due \in 1 .. LastDueDay,
         start < end, NEW d \in start .. end, Day(d) = due
  PROVE  d \in MonthlyDueDates(start, end, due)
<1>1. PICK n \in Nat \ {0} : n = DaysPerMonth
  BY RentPlanBounds
<1>2. PICK m \in Int, k \in Int : m = Month(start) /\ k = Month(d)
  BY MonthFacts
<1>3. d = n * k + due - 1
  <2>1. d \in Int /\ due \in Int
    BY RentPlanBounds
  <2>2. d % n \in 0 .. n - 1 /\ d = n * k + (d % n)
    BY <1>1, <1>2, <2>1, MonthFacts
  <2>3. due = 1 + (d % n)
    BY <1>1 DEF Day
  <2>4. PICK a \in Int, b \in 0 .. n - 1 : a = n * k /\ b = d % n
    BY <2>2
  <2> QED  BY <2>1, <2>2, <2>3, <2>4
<1>4. m <= k
  <2>1. start <= d => start \div n <= d \div n
    BY <1>1
  <2> QED  BY <1>1, <1>2, <2>1 DEF Month
<1>5. PICK here \in Int : here = At(m, due) /\ here = m * n + due - 1
  BY <1>1 DEF At
<1>6. PICK first \in Int :
        /\ first \in {here, here + n}
        /\ here >= start => first = here
        /\ \A e \in first .. end : start < end /\ (e - first) % n = 0 => e \in MonthlyDueDates(start, end, due)
  <2>1. PICK first \in Int :
          /\ \A e \in MonthlyDueDates(start, end, due) : e \in Int /\ (e - first) % DaysPerMonth = 0
          /\ first \in {At(Month(start), due), At(Month(start), due) + DaysPerMonth}
          /\ At(Month(start), due) >= start => first = At(Month(start), due)
          /\ \A e \in first .. end : start < end /\ (e - first) % DaysPerMonth = 0
                                     => e \in MonthlyDueDates(start, end, due)
    BY DatesAreDays
  <2>2. At(Month(start), due) = here
    BY <1>2, <1>5
  <2> QED  BY <1>1, <2>1, <2>2
<1>7. PICK x \in Nat : k = m + x
  <2>1. k - m \in Nat /\ k = m + (k - m)
    BY <1>4
  <2> QED  BY <2>1
<1>8. PICK y \in Int : y = x * n
  OBVIOUS
<1>9. d - here = y
  <2>1. n * (m + x) = m * n + x * n
    OBVIOUS
  <2>2. PICK a \in Int, b \in Int : a = n * (m + x) /\ b = m * n
    OBVIOUS
  <2> QED  BY <1>3, <1>5, <1>7, <1>8, <2>1, <2>2
<1>10. CASE first = here
  <2>1. y >= 0 /\ y % n = 0
    BY <1>8
  <2> QED  BY <1>6, <1>9, <1>10, <2>1
<1>11. CASE first = here + n
  <2>1. here < start
    BY <1>6, <1>11
  <2>2. x # 0
    BY <1>8, <1>9, <2>1
  <2>3. PICK z \in Nat : x = z + 1
    <3>1. x - 1 \in Nat /\ x = (x - 1) + 1
      BY <2>2
    <3> QED  BY <3>1
  <2>4. PICK u \in Int : u = z * n
    OBVIOUS
  <2>5. y = u + n
    <3>1. (z + 1) * n = z * n + n
      OBVIOUS
    <3> QED  BY <1>8, <2>3, <2>4, <3>1
  <2>6. u >= 0 /\ u % n = 0
    BY <2>4
  <2> QED  BY <1>6, <1>9, <1>11, <2>5, <2>6
<1> QED  BY <1>6, <1>10, <1>11

LEMMA MissingCovers ==
  ASSUME PlanShape, NEW l \in Leases, NEW end \in Int, NEW R,
         NEW m \in Month(lease[l].start) .. Month(end), At(m, 1) < end
  PROVE  \/ \E r \in R : IsRent(r.item) /\ Month(r.item.due) = m
         \/ \E i \in Missing(l, end, Shift, R) : IsRent(i) /\ Month(i.due) = m
<1>1. PICK start \in Int : start = lease[l].start
  BY DEF PlanShape
<1>2. PICK shift \in 0 .. 1 : shift = Shift
  BY RentPlanBounds
<1>3. m \in Int
  BY <1>1, MonthFacts
<1>4. At(m, 1) \in Int /\ Month(At(m, 1)) = m
  BY <1>3, FirstOfMonth
<1>5. At(m, 1) <= end - shift
  BY <1>4
<1>6. Month(start - shift) \in Int /\ Month(start) \in Int /\ Month(end) \in Int
  BY MonthFacts
<1>7. Month(start - shift) <= Month(start)
  <2>1. PICK n \in Nat \ {0} : n = DaysPerMonth
    BY RentPlanBounds
  <2>2. PICK a \in Int : a = start - shift
    OBVIOUS
  <2>3. a <= start => a \div n <= start \div n
    OBVIOUS
  <2> QED  BY <2>1, <2>2, <2>3 DEF Month
<1>8. m \in Month(start - shift) .. Month(end)
  BY <1>1, <1>3, <1>6, <1>7
<1>9. At(m, 1) \in EditDueDates(start, end, shift)
  BY <1>5, <1>8 DEF EditDueDates
<1>10. CASE \E r \in R : IsRent(r.item) /\ Month(r.item.due) = m
  BY <1>10
<1>11. CASE ~\E r \in R : IsRent(r.item) /\ Month(r.item.due) = m
  <2>1. m \notin {Month(r.item.due) : r \in {s \in R : s.item.kind = "rent"}}
    BY <1>11 DEF IsRent
  <2>2. PICK i : i = [kind |-> "rent", due |-> At(m, 1)]
    OBVIOUS
  <2>3. i \in Missing(l, end, Shift, R)
    BY <1>1, <1>2, <1>4, <1>9, <2>1, <2>2 DEF Missing
  <2>4. IsRent(i) /\ Month(i.due) = m
    BY <1>4, <2>2 DEF IsRent
  <2> QED  BY <2>3, <2>4
<1> QED  BY <1>10, <1>11

Has(l, m)   == \E r \in Rents(l) : Month(r.item.due) = m
HasOn(l, d) == \E r \in Rents(l) : r.item.due = d

Wanted(l, end)     == {m \in Month(lease[l].start) .. Month(end) : At(m, 1) < end}
DueOn(l, end, due) == {d \in lease[l].start .. end : lease[l].start < end /\ Day(d) = due}

PlansMonth(s, m) == \E i \in s.plan : IsRent(i) /\ Month(i.due) = m
PlansDay(s, d)   == \E i \in s.plan : IsRent(i) /\ i.due = d
AsksMonth(Q, m)  == \E q \in Q : IsRent(q.item) /\ Month(q.item.due) = m

Promise(s, Q) ==
  /\ s.step \in {"void", "save"} =>
       /\ s.plan # {} => s.due = 1
       /\ s.due = 1 => \A m \in Wanted(s.lease, s.end) : Has(s.lease, m) \/ PlansMonth(s, m)
  /\ s.step = "post" => \A m \in Wanted(s.lease, s.end) : Has(s.lease, m) \/ AsksMonth(Q, m)
  /\ s.step = "form" /\ s.said \in {"success", "exists"} => \A m \in Wanted(s.lease, s.end) : Has(s.lease, m)
  /\ s.step \in {"list", "ask", "clear", "batch"} =>
       s.said = "nothing" /\ \A d \in DueOn(s.lease, s.end, s.due) : PlansDay(s, d)
  /\ s.step = "done" /\ s.said = "success" => \A d \in DueOn(s.lease, s.end, s.due) : HasOn(s.lease, d)

Promises == \A p \in Pages : Promise(page[p], waits[p])

(* Charges are only added, and a lease keeps its first day.                *)
Lasts ==
  /\ DOMAIN charge \subseteq DOMAIN charge'
  /\ \A l : IsMade(l) => lease'[l].start = lease[l].start

LEMMA HasStays ==
  ASSUME Lasts, NEW l, IsMade(l), NEW end, NEW due
  PROVE  /\ \A m : Has(l, m) => Has(l, m)'
         /\ \A d : HasOn(l, d) => HasOn(l, d)'
         /\ Wanted(l, end)' = Wanted(l, end)
         /\ DueOn(l, end, due)' = DueOn(l, end, due)
<1>1. Rents(l) \subseteq Rents(l)'
  BY DEF Lasts, Rents, RowsOf
<1>2. lease'[l].start = lease[l].start
  BY DEF Lasts
<1> QED  BY <1>1, <1>2 DEF Has, HasOn, Wanted, DueOn

LEMMA PromiseStays ==
  ASSUME Lasts, NEW s, NEW Q, Sound(s), Promise(s, Q)
  PROVE  Promise(s, Q)'
<1>1. PICK l : l = s.lease
  OBVIOUS
<1>2. CASE s.step = "away"
  BY <1>2 DEF Promise
<1>3. CASE s.step # "away"
  <2>1. /\ \A m : Has(l, m) => Has(l, m)'
        /\ \A d : HasOn(l, d) => HasOn(l, d)'
        /\ Wanted(l, s.end)' = Wanted(l, s.end)
        /\ DueOn(l, s.end, s.due)' = DueOn(l, s.end, s.due)
    <3>1. PICK end, due : end = s.end /\ due = s.due
      OBVIOUS
    <3>2. IsMade(l)
      BY <1>1, <1>3 DEF Sound
    <3>3. /\ \A m : Has(l, m) => Has(l, m)'
          /\ \A d : HasOn(l, d) => HasOn(l, d)'
          /\ Wanted(l, end)' = Wanted(l, end)
          /\ DueOn(l, end, due)' = DueOn(l, end, due)
      BY <3>2, HasStays
    <3> QED  BY <3>1, <3>3
  <2> QED  BY <1>1, <2>1 DEF Promise, PlansMonth, PlansDay, AsksMonth
<1> QED  BY <1>2, <1>3

LEMMA PromiseChange ==
  ASSUME PlanBase, Promises, Lasts, NEW p \in Pages, Others(p), Promise(page[p], waits[p])'
  PROVE  Promises'
<1>1. ASSUME NEW o \in Pages, o # p
      PROVE  Promise(page[o], waits[o])'
  <2>1. PICK s, Q : s = page[o] /\ Q = waits[o]
    OBVIOUS
  <2>2. Promise(s, Q) /\ Sound(s)
    BY <2>1 DEF Promises, PlanBase
  <2>3. Promise(s, Q)'
    BY <2>2, PromiseStays
  <2>4. page'[o] = s /\ waits'[o] = Q
    BY <1>1, <2>1 DEF Others
  <2> QED  BY <2>3, <2>4
<1> QED  BY <1>1 DEF Promises

(* A page that goes on as planned.                                         *)
LEMMA PromiseGoes ==
  ASSUME PlanBase, Promises, Lasts, NEW p \in Pages, Others(p),
         \/ page'[p].step = page[p].step /\ Alike(page'[p], page[p]) /\ waits'[p] = waits[p]
         \/ /\ page'[p].step \in {"ask", "clear", "batch", "done"} /\ page[p].step \in {"list", "ask", "clear"}
            /\ Alike(page'[p], page[p])
         \/ page[p].step = "void" /\ page'[p].step = "save" /\ Alike(page'[p], page[p])
         \/ page'[p].step \in {"away", "sure"}
         \/ page'[p].step = "form" /\ page'[p].said \in {"nothing", "warning"}
         \/ page'[p].step = "done" /\ page'[p].said = "warning"
  PROVE  Promises'
<1>1. PICK s, t, Q, T : s = page[p] /\ t = page'[p] /\ Q = waits[p] /\ T = waits'[p]
  OBVIOUS
<1>2. Promise(s, Q) /\ Sound(s)
  BY <1>1 DEF Promises, PlanBase
<1>3. Promise(s, Q)'
  BY <1>2, PromiseStays
<1>4. Promise(t, T)'
  <2>1. CASE t.step = s.step /\ Alike(t, s) /\ T = Q
    BY <1>3, <2>1 DEF Promise, Alike, PlansMonth, PlansDay
  <2>2. CASE /\ t.step \in {"ask", "clear", "batch", "done"} /\ s.step \in {"list", "ask", "clear"}
             /\ Alike(t, s)
    BY <1>3, <2>2 DEF Promise, Alike, PlansDay
  <2>3. CASE s.step = "void" /\ t.step = "save" /\ Alike(t, s)
    BY <1>3, <2>3 DEF Promise, Alike, PlansMonth
  <2>4. CASE \/ t.step \in {"away", "sure"}
             \/ t.step = "form" /\ t.said \in {"nothing", "warning"}
             \/ t.step = "done" /\ t.said = "warning"
    BY <2>4 DEF Promise
  <2> QED  BY <1>1, <2>1, <2>2, <2>3, <2>4
<1>5. Promise(page[p], waits[p])'
  BY <1>1, <1>4
<1> QED  BY <1>5, PromiseChange

LEMMA CreatePromise ==
  ASSUME PlanBase, Promises, NEW p \in Pages, CreateLease(p)
  PROVE  Promises'
<1>0. /\ Others(p) /\ UNCHANGED <<charge, waits, strays, swept, blur>>
      /\ page[p].step = "away"
      /\ \E l \in Leases, s \in Starts, e \in Ends, due \in DueDays, extras \in Extras :
           /\ lease[l].status = "none" /\ lease'[l].start = s
           /\ \A k \in Leases : k # l => lease'[k] = lease[k]
           /\ \/ page'[p] = page[p]
              \/ /\ page'[p].step = "list" /\ page'[p].lease = l /\ page'[p].due = due /\ page'[p].end = e
                 /\ page'[p].plan = Schedule(s, e, due, extras) /\ page'[p].said = "nothing"
  BY CreateBecomes
<1>1. PICK l \in Leases, s \in Starts, e \in Ends, due \in DueDays, extras \in Extras :
        /\ lease[l].status = "none" /\ lease'[l].start = s
        /\ \A k \in Leases : k # l => lease'[k] = lease[k]
        /\ \/ page'[p] = page[p]
           \/ /\ page'[p].step = "list" /\ page'[p].lease = l /\ page'[p].due = due /\ page'[p].end = e
              /\ page'[p].plan = Schedule(s, e, due, extras) /\ page'[p].said = "nothing"
  BY <1>0
<1>2. Lasts
  BY <1>0, <1>1 DEF Lasts, IsMade
<1>3. CASE page'[p] = page[p]
  BY <1>0, <1>2, <1>3, PromiseGoes DEF Alike
<1>4. CASE /\ page'[p].step = "list" /\ page'[p].lease = l /\ page'[p].due = due /\ page'[p].end = e
           /\ page'[p].plan = Schedule(s, e, due, extras) /\ page'[p].said = "nothing"
  <2>1. PICK t, T : t = page'[p] /\ T = waits'[p]
    OBVIOUS
  <2>2. s \in Int /\ e \in Int /\ due \in 1 .. LastDueDay
    BY RentPlanBounds
  <2>3. ASSUME NEW d \in DueOn(l, e, due)'
        PROVE  PlansDay(t, d)
    <3>1. s < e /\ d \in s .. e /\ Day(d) = due
      BY <1>1, <2>3 DEF DueOn
    <3>2. d \in MonthlyDueDates(s, e, due)
      BY <2>2, <3>1, DueDaysListed
    <3>3. PICK i : i = [kind |-> "rent", due |-> d]
      OBVIOUS
    <3>4. i \in Schedule(s, e, due, extras)
      BY <3>2, <3>3 DEF Schedule
    <3> QED  BY <1>4, <2>1, <3>3, <3>4 DEF PlansDay, IsRent
  <2>4. Promise(t, T)'
    BY <1>4, <2>1, <2>3 DEF Promise, PlansDay
  <2>5. Promise(page[p], waits[p])'
    BY <2>1, <2>4
  <2> QED  BY <1>0, <1>2, <2>5, PromiseChange
<1> QED  BY <1>1, <1>3, <1>4

LEMMA BatchPromise ==
  ASSUME PlanBase, Promises, NEW p \in Pages, Batch(p)
  PROVE  Promises'
<1>1. /\ Others(p) /\ UNCHANGED <<lease, waits, strays, swept, blur>>
      /\ page[p].step = "batch" /\ page'[p].step = "done"
      /\ page'[p].lease = page[p].lease /\ page'[p].due = page[p].due /\ page'[p].end = page[p].end
      /\ \/ UNCHANGED charge /\ page'[p].said = "warning"
         \/ lease[page[p].lease].status = "live" /\ Add(New(page[p].lease, page[p].plan))
  BY BatchBecomes
<1>2. CASE UNCHANGED charge /\ page'[p].said = "warning"
  <2>1. Lasts
    BY <1>1, <1>2 DEF Lasts
  <2> QED  BY <1>1, <1>2, <2>1, PromiseGoes
<1>3. CASE Add(New(page[p].lease, page[p].plan))
  <2>1. PICK s, t, l, items, T : s = page[p] /\ t = page'[p] /\ l = s.lease /\ items = s.plan /\ T = waits'[p]
    OBVIOUS
  <2>2. Add(New(l, items)) /\ PlanShape
    BY <1>3, <2>1 DEF PlanBase
  <2>3. /\ DOMAIN charge' = DOMAIN charge \cup New(l, items)
        /\ \A r \in New(l, items) : r.lease = l /\ r.item \in items
        /\ \A i \in items : \E r \in New(l, items) : r.item = i
    <3>1. /\ charge' = [r \in DOMAIN charge' |-> charge'[r]]
          /\ DOMAIN charge' = DOMAIN charge \cup New(l, items)
          /\ \A r \in New(l, items) : r.lease = l /\ r.item \in items
          /\ \A i \in items : \E r \in New(l, items) : r.item = i
          /\ \A r, k \in New(l, items) : r.item = k.item => r = k
          /\ \A r \in DOMAIN charge : r \notin New(l, items) => charge'[r] = charge[r]
      BY <2>2, AddFacts
    <3> QED  BY <3>1
  <2>4. Lasts
    BY <1>1, <2>3 DEF Lasts
  <2>5. IsMade(l) /\ Promise(s, waits[p])
    BY <1>1, <2>1 DEF PlanBase, Sound, Promises
  <2>6. ASSUME NEW end, NEW due, end = s.end, due = s.due, NEW d \in DueOn(l, end, due)'
        PROVE  HasOn(l, d)'
    <3>1. d \in DueOn(l, end, due)
      BY <2>4, <2>5, <2>6, HasStays
    <3>2. PICK i \in items : IsRent(i) /\ i.due = d
      BY <1>1, <2>1, <2>5, <2>6, <3>1 DEF Promise, PlansDay
    <3>3. PICK r \in DOMAIN charge' : r.lease = l /\ r.item = i
      BY <2>3, <3>2
    <3> QED  BY <3>2, <3>3 DEF HasOn, Rents, RowsOf
  <2>7. t.step = "done" /\ t.lease = l /\ t.end = s.end /\ t.due = s.due
    BY <1>1, <2>1
  <2>8. Promise(t, T)'
    <3>1. PICK end, due : end = s.end /\ due = s.due
      OBVIOUS
    <3>2. \A d \in DueOn(l, end, due)' : HasOn(l, d)'
      BY <2>6, <3>1
    <3> QED  BY <2>7, <3>1, <3>2 DEF Promise
  <2>9. Promise(page[p], waits[p])'
    BY <2>1, <2>8
  <2> QED  BY <1>1, <2>4, <2>9, PromiseChange
<1> QED  BY <1>1, <1>2, <1>3

LEMMA DecidePromise ==
  ASSUME PlanBase, Promises, NEW p \in Pages, Save(p) \/ TerminateVoid(p) \/ TerminateSkip(p)
  PROVE  Promises'
<1>1. /\ Others(p) /\ UNCHANGED <<lease, charge, strays, swept>>
      /\ page[p].step \in {"form", "sure"} /\ page'[p].lease = page[p].lease
      /\ \/ page'[p].step = "sure"
         \/ page'[p].step = "form" /\ page'[p].said = "nothing"
         \/ /\ page'[p].step \in {"save", "void"}
            /\ page'[p].due = 1 =>
                 page'[p].plan = Missing(page[p].lease, page'[p].end, Shift, page[p].listed)
            /\ page'[p].due # 1 => page'[p].plan = {}
  BY DecideBecomes
<1>2. Lasts
  BY <1>1 DEF Lasts
<1>3. CASE page'[p].step = "sure" \/ (page'[p].step = "form" /\ page'[p].said = "nothing")
  BY <1>1, <1>2, <1>3, PromiseGoes
<1>4. CASE /\ page'[p].step \in {"save", "void"}
           /\ page'[p].due = 1 =>
                page'[p].plan = Missing(page[p].lease, page'[p].end, Shift, page[p].listed)
           /\ page'[p].due # 1 => page'[p].plan = {}
  <2>1. PICK t, T, l, R, end, plan :
          t = page'[p] /\ T = waits'[p] /\ l = page[p].lease /\ R = page[p].listed /\ end = t.end /\ plan = t.plan
    OBVIOUS
  <2>2. t.lease = l /\ R \subseteq RowsOf(l) /\ l \in Leases /\ PlanShape
    BY <1>1, <2>1 DEF PlanBase, Sound, IsMade, Editing
  <2>3. end \in Int
    <3>1. Sound(page[p])'
      BY PlanBaseStep DEF PlanBase, PlanNext
    <3> QED  BY <2>1, <3>1 DEF Sound
  <2>4. \A r \in R : IsRent(r.item) => r \in Rents(l)
    BY <2>2 DEF Rents
  <2>5. ASSUME t.due = 1, NEW m \in Wanted(l, end)
        PROVE  Has(l, m) \/ PlansMonth(t, m)
    <3>1. m \in Month(lease[l].start) .. Month(end) /\ At(m, 1) < end
      BY <2>5 DEF Wanted
    <3>2. plan = Missing(l, end, Shift, R)
      BY <1>4, <2>1, <2>5
    <3>3. \/ \E r \in R : IsRent(r.item) /\ Month(r.item.due) = m
          \/ \E i \in plan : IsRent(i) /\ Month(i.due) = m
      BY <2>2, <2>3, <3>1, <3>2, MissingCovers
    <3> QED  BY <2>1, <2>4, <3>3 DEF Has, PlansMonth
  <2>6. t.plan # {} => t.due = 1
    BY <1>4, <2>1
  <2>7. Promise(t, T)
    BY <1>4, <2>1, <2>2, <2>5, <2>6 DEF Promise
  <2>8. Promise(t, T)'
    <3>1. Sound(t)
      <4>1. Sound(page[p])'
        BY PlanBaseStep DEF PlanBase, PlanNext
      <4>2. Sound(t)'
        BY <2>1, <4>1
      <4> QED  BY <1>1, <4>2 DEF Sound, IsMade, RowsOf
    <3> QED  BY <1>2, <2>7, <3>1, PromiseStays
  <2>9. Promise(page[p], waits[p])'
    BY <2>1, <2>8
  <2> QED  BY <1>1, <1>2, <2>9, PromiseChange
<1> QED  BY <1>1, <1>3, <1>4

LEMMA PutPromise ==
  ASSUME PlanBase, Promises, NEW p \in Pages, Put(p)
  PROVE  Promises'
<1>1. /\ Others(p) /\ UNCHANGED <<charge, strays, blur>>
      /\ page[p].step = "save"
      /\ \A l \in Leases : lease'[l].start = lease[l].start
      /\ \/ FormOf(page'[p], page[p], "nothing")
         \/ page[p].due = 1 /\ page[p].plan = {} /\ FormOf(page'[p], page[p], "exists")
         \/ page'[p].step = "away"
         \/ /\ page'[p].step = "post" /\ page[p].plan # {}
            /\ page'[p].lease = page[p].lease /\ page'[p].end = page[p].end
            /\ waits'[p] = [op : {"charge"}, lease : {page[p].lease}, item : page[p].plan]
  BY PutBecomes
<1>2. Lasts
  BY <1>1 DEF Lasts, IsMade
<1>3. CASE FormOf(page'[p], page[p], "nothing") \/ page'[p].step = "away"
  <2>1. page'[p].step = "away" \/ (page'[p].step = "form" /\ page'[p].said = "nothing")
    BY <1>3 DEF FormOf
  <2> QED  BY <1>1, <1>2, <2>1, PromiseGoes
<1>4. PICK s, t, l, end, Q, T :
        s = page[p] /\ t = page'[p] /\ l = s.lease /\ end = s.end /\ Q = waits[p] /\ T = waits'[p]
  OBVIOUS
<1>5. /\ IsMade(l) /\ s.step = "save"
      /\ s.plan # {} => s.due = 1
      /\ s.due = 1 => \A m \in Wanted(l, end) : Has(l, m) \/ PlansMonth(s, m)
  <2>1. Sound(s) /\ Promise(s, Q)
    BY <1>4 DEF PlanBase, Promises
  <2> QED  BY <1>1, <1>4, <2>1 DEF Sound, Promise
<1>6. (\A m : Has(l, m) => Has(l, m)') /\ Wanted(l, end)' = Wanted(l, end)
  <2>1. PICK due : due = 0
    OBVIOUS
  <2> QED  BY <1>2, <1>5, <2>1, HasStays
<1>7. CASE s.due = 1 /\ s.plan = {} /\ FormOf(t, s, "exists")
  <2>1. t.step = "form" /\ t.lease = l /\ t.end = end
    BY <1>4, <1>7 DEF FormOf
  <2>2. \A m \in Wanted(l, end)' : Has(l, m)'
    BY <1>5, <1>6, <1>7 DEF PlansMonth
  <2>3. Promise(t, T)'
    BY <2>1, <2>2 DEF Promise
  <2>4. Promise(page[p], waits[p])'
    BY <1>4, <2>3
  <2> QED  BY <1>1, <1>2, <2>4, PromiseChange
<1>8. CASE /\ t.step = "post" /\ s.plan # {} /\ t.lease = l /\ t.end = end
           /\ T = [op : {"charge"}, lease : {l}, item : s.plan]
  <2>1. \A m : PlansMonth(s, m) => AsksMonth(T, m)
    <3>1. ASSUME NEW m, NEW i \in s.plan, IsRent(i), Month(i.due) = m
          PROVE  AsksMonth(T, m)
      <4>1. PICK q : q = [op |-> "charge", lease |-> l, item |-> i]
        OBVIOUS
      <4>2. q \in T /\ q.item = i
        BY <1>8, <4>1
      <4> QED  BY <3>1, <4>2 DEF AsksMonth
    <3> QED  BY <3>1 DEF PlansMonth
  <2>2. \A m \in Wanted(l, end)' : Has(l, m)' \/ AsksMonth(T, m)
    BY <1>5, <1>6, <1>8, <2>1
  <2>3. Promise(t, T)'
    BY <1>8, <2>2 DEF Promise, AsksMonth
  <2>4. Promise(page[p], waits[p])'
    BY <1>4, <2>3
  <2> QED  BY <1>1, <1>2, <2>4, PromiseChange
<1> QED  BY <1>1, <1>3, <1>4, <1>7, <1>8

LEMMA AnswerPromise ==
  ASSUME PlanBase, Promises, NEW p \in Pages, Answer(p)
  PROVE  Promises'
<1>1. PICK q \in waits[p], answer \in {"yes", "no"} :
        /\ Others(p) /\ UNCHANGED <<lease, swept>>
        /\ Reach(q, answer) /\ q.lease = page[p].lease /\ IsMade(q.lease)
        /\ \/ /\ IsVoid(q) /\ page[p].step = "void"
              /\ \/ page'[p] = page[p] /\ waits'[p] = waits[p] \ {q} /\ strays' = strays
                 \/ /\ page'[p].step = "save" /\ Alike(page'[p], page[p])
                    /\ waits'[p] = {} /\ strays' = strays \cup (waits[p] \ {q})
           \/ /\ IsCharge(q) /\ page[p].step = "post"
              /\ \/ page'[p] = page[p] /\ waits'[p] = waits[p] \ {q} /\ strays' = strays /\ answer = "yes"
                 \/ /\ \E said \in {"success", "warning"} :
                         /\ FormOf(page'[p], page[p], said)
                         /\ said = "success" => answer = "yes" /\ waits[p] \ {q} = {}
                    /\ waits'[p] = {} /\ strays' = strays \cup (waits[p] \ {q})
  BY AnswerMakes
<1>2. /\ DOMAIN charge \subseteq DOMAIN charge'
      /\ q.op = "charge" /\ answer = "yes" => \E r \in DOMAIN charge' : r.lease = q.lease /\ r.item = q.item
  BY <1>1, ReachFacts DEF PlanBase
<1>3. Lasts
  BY <1>1, <1>2 DEF Lasts
<1>4. PICK s, t, l, end, Q, T :
        s = page[p] /\ t = page'[p] /\ l = s.lease /\ end = s.end /\ Q = waits[p] /\ T = waits'[p]
  OBVIOUS
<1>5. Promise(s, Q) /\ Sound(s)
  BY <1>4 DEF Promises, PlanBase
<1>6. CASE s.step = "void"
  <2>1. \/ t = s /\ s.step = "void"
        \/ t.step = "save" /\ Alike(t, s)
    BY <1>1, <1>4, <1>6
  <2>2. Promise(s, Q)'
    BY <1>3, <1>5, PromiseStays
  <2>3. Promise(t, T)'
    BY <1>6, <2>1, <2>2 DEF Promise, Alike, PlansMonth
  <2>4. Promise(page[p], waits[p])'
    BY <1>4, <2>3
  <2> QED  BY <1>1, <1>3, <2>4, PromiseChange
<1>7. CASE s.step = "post"
  <2>1. IsCharge(q) /\ q.lease = l /\ IsMade(l)
    BY <1>1, <1>4, <1>7
  <2>2. (\A m : Has(l, m) => Has(l, m)') /\ Wanted(l, end)' = Wanted(l, end)
    <3>1. PICK due : due = 0
      OBVIOUS
    <3> QED  BY <1>3, <2>1, <3>1, HasStays
  <2>3. answer = "yes" /\ IsRent(q.item) => Has(l, Month(q.item.due))'
    BY <1>2, <2>1 DEF IsCharge, Has, Rents, RowsOf
  <2>4. \A m \in Wanted(l, end) : Has(l, m) \/ AsksMonth(Q, m)
    BY <1>4, <1>5, <1>7 DEF Promise
  <2>5. ASSUME answer = "yes", NEW m \in Wanted(l, end)'
        PROVE  Has(l, m)' \/ AsksMonth(Q \ {q}, m)
    BY <2>2, <2>3, <2>4, <2>5 DEF AsksMonth
  <2>6. CASE t = s /\ T = Q \ {q} /\ answer = "yes"
    <3>1. Promise(t, T)'
      BY <1>4, <1>7, <2>5, <2>6 DEF Promise, AsksMonth
    <3>2. Promise(page[p], waits[p])'
      BY <1>4, <3>1
    <3> QED  BY <1>1, <1>3, <3>2, PromiseChange
  <2>7. ASSUME NEW said \in {"success", "warning"}, FormOf(t, s, said),
               said = "success" => answer = "yes" /\ Q \ {q} = {}
        PROVE  Promises'
    <3>1. t.step = "form" /\ t.said = said /\ t.lease = l /\ (said = "success" => t.end = end)
      BY <1>4, <2>7 DEF FormOf
    <3>2. said = "success" => \A m \in Wanted(l, end)' : Has(l, m)'
      BY <2>5, <2>7 DEF AsksMonth
    <3>3. Promise(t, T)'
      BY <3>1, <3>2 DEF Promise
    <3>4. Promise(page[p], waits[p])'
      BY <1>4, <3>3
    <3> QED  BY <1>1, <1>3, <3>4, PromiseChange
  <2> QED  BY <1>1, <1>4, <1>7, <2>6, <2>7
<1> QED  BY <1>1, <1>4, <1>6, <1>7

LEMMA PromisesStep ==
  ASSUME PlanBase, Promises, PlanNext
  PROVE  Promises'
<1>1. CASE Pay \/ Settle \/ Stray
  <2>1. UNCHANGED <<lease, page, waits>>
    BY <1>1 DEF Pay, Settle, Stray
  <2>2. DOMAIN charge \subseteq DOMAIN charge'
    <3>1. CASE Pay \/ Settle
      BY <3>1 DEF Pay, Settle
    <3>2. CASE Stray
      <4>1. PICK q \in strays, answer \in {"yes", "no"} : Reach(q, answer)
        BY <3>2 DEF Stray
      <4> QED  BY <4>1, ReachFacts DEF PlanBase
    <3> QED  BY <1>1, <3>1, <3>2
  <2>3. Lasts
    BY <2>1, <2>2 DEF Lasts
  <2>4. ASSUME NEW p \in Pages
        PROVE  Promise(page[p], waits[p])'
    <3>1. PICK s, Q : s = page[p] /\ Q = waits[p]
      OBVIOUS
    <3>2. Promise(s, Q) /\ Sound(s)
      BY <3>1 DEF Promises, PlanBase
    <3>3. Promise(s, Q)'
      BY <2>3, <3>2, PromiseStays
    <3> QED  BY <2>1, <3>1, <3>3
  <2> QED  BY <2>4 DEF Promises
<1>2. ASSUME NEW p \in Pages, ListUnit(p) \/ Choose(p) \/ ClearUnit(p) \/ OpenEdit(p) \/ Refetch(p) \/ Leave(p)
      PROVE  Promises'
  <2>1. CASE ListUnit(p) \/ Choose(p)
    <3>1. Lasts
      BY <2>1, ForwardBecomes DEF Lasts
    <3> QED  BY <2>1, <3>1, ForwardBecomes, PromiseGoes
  <2>2. CASE ClearUnit(p)
    <3>1. Lasts
      BY <2>2, ClearBecomes DEF Lasts
    <3> QED  BY <2>2, <3>1, ClearBecomes, PromiseGoes
  <2>3. CASE OpenEdit(p)
    <3>1. Lasts
      BY <2>3, OpenBecomes DEF Lasts
    <3> QED  BY <2>3, <3>1, OpenBecomes, PromiseGoes
  <2>4. CASE Refetch(p)
    <3>1. Lasts
      BY <2>4, RefetchBecomes DEF Lasts
    <3> QED  BY <2>4, <3>1, RefetchBecomes, PromiseGoes
  <2>5. CASE Leave(p)
    <3>1. Lasts
      BY <2>5, LeaveBecomes DEF Lasts
    <3> QED  BY <2>5, <3>1, LeaveBecomes, PromiseGoes
  <2> QED  BY <1>2, <2>1, <2>2, <2>3, <2>4, <2>5
<1> QED  BY <1>1, <1>2, CreatePromise, BatchPromise, DecidePromise, PutPromise, AnswerPromise DEF PlanNext

LEMMA PromisesAreKept ==
  ASSUME PlanBase, Promises
  PROVE  SaidIsDone
<1>1. ASSUME NEW p \in Pages
      PROVE  LET s     == page[p]
                 start == lease[s.lease].start
                 rents == {r.item.due : r \in {x \in RowsOf(s.lease) : x.item.kind = "rent"}}
             IN
             /\ s.step = "done" /\ s.said = "success"
                => {d \in start .. s.end : start < s.end /\ Day(d) = s.due} \subseteq rents
             /\ s.step = "form" /\ s.said \in {"success", "exists"}
                => \A m \in Month(start) .. Month(s.end) :
                     At(m, 1) < s.end => \E d \in rents : Month(d) = m
  <2>1. PICK s, l : s = page[p] /\ l = s.lease
    OBVIOUS
  <2>2. Promise(s, waits[p])
    BY <2>1 DEF Promises
  <2>3. PICK rents : rents = {r.item.due : r \in {x \in RowsOf(l) : x.item.kind = "rent"}}
    OBVIOUS
  <2>4. \A r \in Rents(l) : r.item.due \in rents
    BY <2>3 DEF Rents, IsRent
  <2>5. s.step = "done" /\ s.said = "success"
        => {d \in lease[l].start .. s.end : lease[l].start < s.end /\ Day(d) = s.due} \subseteq rents
    BY <2>1, <2>2, <2>4 DEF Promise, DueOn, HasOn
  <2>6. s.step = "form" /\ s.said \in {"success", "exists"}
        => \A m \in Month(lease[l].start) .. Month(s.end) :
             At(m, 1) < s.end => \E d \in rents : Month(d) = m
    BY <2>1, <2>2, <2>4 DEF Promise, Wanted, Has
  <2> QED  BY <2>1, <2>3, <2>5, <2>6
<1> QED  BY <1>1 DEF SaidIsDone

PlanInv == PlanBase /\ Alone /\ Sweeping /\ Apart /\ Promises

LEMMA PlanStarts ==
  ASSUME PlanInit
  PROVE  PlanInv
<1>1. PICK t : t = Nothing
  OBVIOUS
<1>2. Whole(t) /\ t.step = "away" /\ t.plan = {} /\ t.end = 0 /\ t.due = 0
  BY <1>1, NothingFacts
<1>3. \A p \in Pages : page[p] = t /\ waits[p] = {}
  BY <1>1 DEF PlanInit
<1>4. /\ DOMAIN charge = {} /\ charge = [r \in DOMAIN charge |-> charge[r]]
      /\ strays = {} /\ swept = {} /\ blur = "none"
  BY DEF PlanInit
<1>5. PlanShape
  <2>1. lease = [l \in Leases |-> lease[l]] /\ \A l \in Leases : lease[l] = [status |-> "none", start |-> 0, end |-> 0]
    BY DEF PlanInit
  <2>2. page = [p \in Pages |-> page[p]] /\ waits = [p \in Pages |-> waits[p]]
    BY DEF PlanInit
  <2> QED  BY <1>4, <2>1, <2>2 DEF PlanShape
<1>6. 0 \in 0 .. LastDueDay
  BY RentPlanBounds
<1>7. PlanBase
  BY <1>2, <1>3, <1>4, <1>5, <1>6 DEF PlanBase, Sound, WaitsWell, Editing
<1>8. Alone /\ Sweeping
  BY <1>2, <1>3, <1>4 DEF Alone, AtWork, Sweeping, Guarded, Sweeps
<1>9. \A l : Rents(l) = {} /\ Asked(l) = {}
  BY <1>3, <1>4 DEF Rents, RowsOf, Asked, OnTheWay
<1>10. Apart
  BY <1>2, <1>3, <1>9 DEF Apart, MonthsApart, AtWork
<1>11. Promises
  BY <1>2, <1>3 DEF Promises, Promise
<1> QED  BY <1>7, <1>8, <1>10, <1>11 DEF PlanInv

LEMMA PlanStep ==
  ASSUME PlanInv, [PlanNext]_planVars
  PROVE  PlanInv'
<1>1. CASE PlanNext
  BY <1>1, PlanBaseStep, AloneStep, SweepingStep, ApartStep, PromisesStep DEF PlanInv
<1>2. CASE UNCHANGED planVars
  <2>1. UNCHANGED <<lease, charge, page, waits, strays, swept, blur>>
    BY <1>2 DEF planVars
  <2>2. PlanBase'
    BY <2>1 DEF PlanInv, PlanBase, PlanShape, Sound, WaitsWell, IsVoid, IsCharge, IsMade, RowsOf
  <2>3. Alone'
    BY <2>1 DEF PlanInv, Alone, AtWork
  <2>4. Sweeping'
    BY <2>1 DEF PlanInv, Sweeping, Guarded, Sweeps, Covered, RowsOf, Open, OnTheWay
  <2>5. Apart'
    BY <2>1 DEF PlanInv, Apart, MonthsApart, PlanApart, AtWork, Rents, Asked, RowsOf, OnTheWay
  <2>6. Promises'
    BY <2>1 DEF PlanInv, Promises, Promise, Wanted, DueOn, Has, HasOn, Rents, RowsOf
  <2> QED  BY <2>2, <2>3, <2>4, <2>5, <2>6 DEF PlanInv
<1> QED  BY <1>1, <1>2

THEOREM PlanInvariant == Spec => []PlanInv
<1>1. Init => PlanInv
  BY PlanStarts DEF Init
<1>2. [Next]_vars => [PlanNext]_planVars
  BY DEF Next, vars
<1>3. PlanInv /\ [Next]_vars => PlanInv'
  BY <1>2, PlanStep
<1> QED  BY <1>1, <1>3, PTL DEF Spec

(* A page that says the rents were added is right, for any leases, terms,  *)
(* due days, pages and order of answers, on either side of UTC (the create *)
(* forms and EditLeasePage).                                               *)
THEOREM SuccessIsTrue == Spec => []SaidIsDone
<1>1. PlanInv => SaidIsDone
  BY PromisesAreKept DEF PlanInv
<1> QED  BY <1>1, PlanInvariant, PTL

(* No month of a lease is charged twice unless a page decided on a list    *)
(* that had changed or while another was at work, whatever requests are    *)
(* lost, left behind or late.                                              *)
THEOREM NoMonthTwice == Spec => []OneRentPerMonth
<1>1. PlanInv => OneRentPerMonth
  BY MonthsAreApart DEF PlanInv
<1> QED  BY <1>1, PlanInvariant, PTL

(* A lease ended by "Void & Terminate" leaves nothing due once its         *)
(* requests have arrived, unless one was lost, met a pending payment, or   *)
(* the list was not what it seemed.                                        *)
THEOREM SweptLeavesNothing == Spec => []SweptClean
<1>1. PlanInv => SweptClean
  BY SweptIsClean DEF PlanInv
<1> QED  BY <1>1, PlanInvariant, PTL
=============================================================================
