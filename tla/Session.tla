-------------------------------- MODULE Session --------------------------------
(***************************************************************************)
(* Who is logged in, as one tab of a browser sees it.  The tab keeps the   *)
(* user and the access token in memory and the answers of the server in    *)
(* its query cache; the refresh cookie belongs to all tabs.  The tab       *)
(* renews its token when it loads, before the token expires, and when a    *)
(* call is answered with 401; calls that fail meanwhile wait for that      *)
(* renewal.  A log-out raises the token version of the cookie's user.      *)
(*                                                                         *)
(* The time in a token is left out: it may have expired at any call.       *)
(* A request and the arrival of its answer are separate steps, answers are *)
(* lost.  Other tabs are one action: they change cookie and versions.      *)
(***************************************************************************)
EXTENDS Integers, FiniteSets

CONSTANTS
  Users, None,
  Refused,    \* the answer to a renewal that is not granted
  Calls,      \* bound: calls under way
  MaxLogouts, \* bound: log-outs of a user
  MaxOpened   \* bound: versions under which users log in

ASSUME SessionBounds == MaxLogouts \in Nat /\ MaxOpened \in Nat
ASSUME NoneIsNobody  ==
  /\ None \notin Users \cup Calls
  /\ None # Refused
  /\ [user : Users, version : 0 .. MaxLogouts] \cap {None, Refused} = {}

VARIABLES
  version,  \* users.token_version
  cookie,   \* the refresh cookie of the browser
  shown,    \* the user of the auth store
  loading,  \* whether the first renewal is awaited
  cached,   \* users whose data the query cache holds
  call,     \* calls to the API
  leader,   \* the call that renews the token
  renewal,  \* renewals under way, on the timer (or at load) and for a call
  entry,    \* the answer of a log-in on its way
  exit,     \* the answer of a log-out on its way
  opened,   \* versions under which a user logged in
  slipped   \* whether the user changed without the cache being cleared

tabVars     == <<shown, loading, cached, call, leader, renewal, entry, exit, slipped>>
sessionVars == <<version, cookie, opened, tabVars>>

Versions == 0 .. MaxLogouts
Cookies  == [user : Users, version : Versions]
Reasons  == {"timer", "call"}

(* "as" is the user of the token, None for a password that is wrong.       *)
CallState == [step : {"none", "sent", "waiting"}, as : Users \cup {None}, again : BOOLEAN, heard : BOOLEAN]

Quiet == [step |-> "none", as |-> None, again |-> FALSE, heard |-> FALSE]

SessionTypeOK ==
  /\ version \in [Users -> Versions]
  /\ cookie  \in Cookies \cup {None}
  /\ shown   \in Users \cup {None}
  /\ {loading, slipped} \subseteq BOOLEAN
  /\ cached  \subseteq Users
  /\ call    \in [Calls -> CallState]
  /\ leader  \in Calls \cup {None}
  /\ renewal \in [Reasons -> Cookies \cup {None, Refused}]
  /\ entry   \in Cookies \cup {None}
  /\ exit    \in {"none", "done", "failed"}
  /\ opened  \subseteq Cookies

SessionInit ==
  /\ version = [u \in Users |-> 0]
  /\ cookie  = None
  /\ shown   = None
  /\ loading = TRUE
  /\ cached  = {}
  /\ call    = [k \in Calls |-> Quiet]
  /\ leader  = None
  /\ renewal = [timer |-> Refused, call |-> None]
  /\ entry   = None
  /\ exit    = "none"
  /\ opened  = {}
  /\ slipped = FALSE

Valid(c) == c # None /\ c.version = version[c.user]
Current(u) == [user |-> u, version |-> version[u]]
Opens(u)   == opened' = opened \cup {Current(u)} /\ Cardinality(opened') <= MaxOpened

(* Mutation: the version in the cookie is not compared.                    *)
ServedUnversioned(c) == {Refused} \cup (IF c # None THEN {Current(c.user)} ELSE {})

(* The server compares the versions and signs a new cookie of the same; to *)
(* the tab a lost answer is a refusal.  Versions only rise: a renewal that *)
(* is granted is as good as granted when it was asked for.                 *)
Served(c) == {Refused} \cup (IF Valid(c) THEN {Current(c.user)} ELSE {})

Ask(r) ==
  /\ renewal[r] = None
  /\ \E a \in Served(cookie) : renewal' = [renewal EXCEPT ![r] = a]

Granted(r) == renewal[r] \notin {None, Refused}

-----------------------------------------------------------------------------
(* Calls.                                                                  *)

(* Pages appear once the first renewal has ended; those that fetch need a  *)
(* user.  The log-in form posts through the same client.                   *)
Send ==
  \E k \in Calls :
    /\ ~loading
    /\ call[k] = Quiet
    /\ \/ /\ shown # None
          /\ call' = [call EXCEPT ![k] = [step |-> "sent", as |-> shown, again |-> FALSE, heard |-> TRUE]]
       \/ /\ shown = None
          /\ call' = [call EXCEPT ![k] = [step |-> "sent", as |-> None, again |-> FALSE, heard |-> FALSE]]
    /\ UNCHANGED <<version, cookie, opened>>
    /\ UNCHANGED <<shown, loading, cached, leader, renewal, entry, exit, slipped>>

(* An answer enters the cache unless the cache was cleared meanwhile.      *)
Answered ==
  \E k \in Calls :
    /\ call[k].step = "sent"
    /\ call' = [call EXCEPT ![k] = Quiet]
    /\ \/ UNCHANGED cached
       \/ call[k].heard /\ cached' = cached \cup {call[k].as}
    /\ UNCHANGED <<version, cookie, opened>>
    /\ UNCHANGED <<shown, loading, leader, renewal, entry, exit, slipped>>

(* 401: the first to meet it renews the token, others wait; a call is      *)
(* given up when it has renewed before.                                    *)
Unauthorized ==
  \E k \in Calls :
    LET waits == call' = [call EXCEPT ![k].step = "waiting"] IN
    /\ call[k].step = "sent"
    /\ \/ call[k].again /\ call' = [call EXCEPT ![k] = Quiet] /\ UNCHANGED <<leader, renewal>>
       \/ ~call[k].again /\ leader # None /\ waits /\ UNCHANGED <<leader, renewal>>
       \/ /\ ~call[k].again
          /\ leader = None
          /\ waits
          /\ leader'  = k
          /\ Ask("call")
    /\ UNCHANGED <<version, cookie, opened>>
    /\ UNCHANGED <<shown, loading, cached, entry, exit, slipped>>

-----------------------------------------------------------------------------
(* Renewals.                                                               *)

(* Two minutes before the token expires, where that was scheduled: not     *)
(* after a registration or a verified address.                             *)
TimerFires ==
  /\ shown # None
  /\ Ask("timer")
  /\ UNCHANGED <<version, cookie, opened>>
  /\ UNCHANGED <<shown, loading, cached, call, leader, entry, exit, slipped>>

(* The tab now shows whoever the cookie belongs to.                        *)
TakeOver(c) ==
  /\ cookie' = c
  /\ shown'  = c.user
  /\ slipped' = (slipped \/ shown \notin {None, c.user})

(* Any failure puts the tab out; what it has fetched stays.                *)
Boot ==
  /\ \/ Granted("timer") /\ TakeOver(renewal["timer"])
     \/ /\ renewal["timer"] = Refused
        /\ shown' = None
        /\ slipped' = (slipped \/ cached # {} \/ \E k \in Calls : call[k].heard)
        /\ UNCHANGED cookie
  /\ renewal' = [renewal EXCEPT !["timer"] = None]
  /\ loading' = FALSE
  /\ UNCHANGED <<version, opened, cached, call, leader, entry, exit>>

As(c, u) == IF c.as = None THEN None ELSE u

(* Mutation: only the call that renewed goes out again.                    *)
ResentAlone(u) ==
  [call EXCEPT ![leader] = [@ EXCEPT !.step = "sent", !.as = As(call[leader], u), !.again = TRUE]]

(* Those that waited may renew once more, the one that renewed may not.    *)
Resent(u) ==
  [k \in Calls |->
     IF call[k].step # "waiting" THEN call[k]
     ELSE [call[k] EXCEPT !.step = "sent", !.as = As(call[k], u), !.again = (k = leader)]]

RenewedForCall ==
  /\ Granted("call")
  /\ TakeOver(renewal["call"])
  /\ call'    = Resent(renewal["call"].user)
  /\ leader'  = None
  /\ renewal' = [renewal EXCEPT !["call"] = None]
  /\ UNCHANGED <<version, opened, loading, cached, entry, exit>>

(* A page that loads has nothing but the cookie.                           *)
Fresh ==
  /\ shown'   = None
  /\ loading' = TRUE
  /\ cached'  = {}
  /\ call'    = [k \in Calls |-> Quiet]
  /\ leader'  = None
  /\ renewal' \in {[timer |-> a, call |-> None] : a \in Served(cookie)}
  /\ entry'   = None
  /\ exit'    = "none"
  /\ slipped' = FALSE
  /\ UNCHANGED <<version, cookie, opened>>

(* A renewal for a call that is refused loads the log-in page.             *)
RenewalFails == renewal["call"] = Refused /\ Fresh

Reload == shown # None /\ Fresh

-----------------------------------------------------------------------------
(* Logging in and out.                                                     *)

(* A log-in, a registration or a verified address.                         *)
LogIn ==
  \E u \in Users :
    /\ ~loading
    /\ entry = None
    /\ entry'  = Current(u)
    /\ Opens(u)
    /\ UNCHANGED <<version, cookie>>
    /\ UNCHANGED <<shown, loading, cached, call, leader, renewal, exit, slipped>>

(* The answer may be lost.                                                 *)
Entered ==
  /\ entry # None
  /\ \/ UNCHANGED <<cookie, shown, slipped>>
     \/ LET u == entry.user IN
        /\ cookie' = entry
        /\ shown'  = u
        /\ slipped' = (slipped \/ shown \notin {None, u})
  /\ entry' = None
  /\ UNCHANGED <<version, opened, loading, cached, call, leader, renewal, exit>>

(* The server goes by the cookie, not by the user shown.  An update that   *)
(* fails is answered like one that worked.                                 *)
LogOut ==
  /\ ~loading
  /\ shown # None
  /\ exit = "none"
  /\ exit' \in {"done", "failed"}
  /\ \/ UNCHANGED version
     \/ /\ cookie # None
        /\ version[cookie.user] < MaxLogouts
        /\ version' = [version EXCEPT ![cookie.user] = @ + 1]
  /\ UNCHANGED <<cookie, opened>>
  /\ UNCHANGED <<shown, loading, cached, call, leader, renewal, entry, slipped>>

(* Mutation: the query cache outlives the log-out.                         *)
LoggedOutUncleared ==
  /\ exit # "none"
  /\ \/ UNCHANGED cookie
     \/ exit = "done" /\ cookie' = None
  /\ shown'  = None
  /\ slipped' = FALSE
  /\ exit'   = "none"
  /\ UNCHANGED <<version, opened, loading, cached, call, leader, renewal, entry>>

(* Answered or not, the tab forgets.  The cookie is cleared without the    *)
(* domain it was set with: where COOKIE_DOMAIN is set the browser keeps it.*)
LoggedOut ==
  /\ exit # "none"
  /\ \/ UNCHANGED cookie
     \/ exit = "done" /\ cookie' = None
  /\ shown'  = None
  /\ cached' = {}
  /\ call'   = [k \in Calls |-> [call[k] EXCEPT !.heard = FALSE]]
  /\ slipped' = FALSE
  /\ exit'   = "none"
  /\ UNCHANGED <<version, opened, loading, leader, renewal, entry>>

(* Another tab logs in, receives a renewal, however late, or logs out.     *)
OtherTab ==
  /\ \/ \E u \in Users :
          /\ cookie' = Current(u)
          /\ Opens(u)
          /\ UNCHANGED version
     \/ cookie' \in opened /\ UNCHANGED <<opened, version>>
     \/ /\ cookie # None
        /\ version[cookie.user] < MaxLogouts
        /\ version' = [version EXCEPT ![cookie.user] = @ + 1]
        /\ cookie' \in {cookie, None}
        /\ UNCHANGED opened
  /\ UNCHANGED tabVars

SessionNext ==
  \/ Send \/ Answered \/ Unauthorized
  \/ TimerFires \/ Boot \/ RenewedForCall \/ RenewalFails \/ Reload
  \/ LogIn \/ Entered \/ LogOut \/ LoggedOut \/ OtherTab

-----------------------------------------------------------------------------
(* The tab holds no data of anybody but the user it shows, though he may   *)
(* log out while calls are out and others log in beside him - unless a     *)
(* renewal changed its user, a renewal that failed put it out without      *)
(* clearing, or somebody logged in over the user shown.                    *)
OwnData == shown # None /\ ~slipped => cached \subseteq {shown}

(* A cookie that still works goes back to a log-in after the last log-out  *)
(* of its user, whatever renewals were under way when he logged out and    *)
(* whether or not his browser gave the cookie up.                          *)
LogoutRevokes ==
  /\ Valid(cookie) => cookie \in opened
  /\ entry # None /\ Valid(entry) => entry \in opened
  /\ \A r \in Reasons : Granted(r) /\ Valid(renewal[r]) => renewal[r] \in opened

(* A call that waits is waiting for a renewal that is under way, and there *)
(* is one at a time: no call is left behind by one that came too late.     *)
WaitersAreServed ==
  /\ leader = None <=> renewal["call"] = None
  /\ leader # None => call[leader].step = "waiting"
  /\ leader = None => \A k \in Calls : call[k].step # "waiting"
===============================================================================
