---------------------------- MODULE AccountsProofs ----------------------------
(***************************************************************************)
(* Proofs about Accounts, for any number of accounts, addresses,           *)
(* invitations, links and requests, and any bounds.                        *)
(*                                                                         *)
(* EmailsAreUnique is inductive with the types.  AcceptedIsBacked needs    *)
(* what an acceptance has read of its invitation to stay true of it        *)
(* (AcceptsMatch).  OldPasswordsAreOut needs that nobody holds a version   *)
(* of the future and that a log-in that read the current version has read  *)
(* a password the last reset wrote, or a later one (LoginsAreCurrent).     *)
(***************************************************************************)
EXTENDS Accounts, TLAPS

(* Which parts of a request are filled in at which step.                   *)
Whole(q) ==
  /\ q.at \in {"register", "accept"} => q.email \in Emails
  /\ q.at \in {"invite", "insert", "loaded", "accept"} => q.role \in InviteTypes
  /\ q.at \in {"loaded", "accept", "resend", "delete"} => q.from \in Invites
  /\ q.at \in {"issue", "login", "reset", "written", "bumped", "marked"} => q.user \in Users
  /\ q.at \in {"reset", "written", "bumped"} => q.link \in Links

(* Sessions, links and requests are about accounts that exist.             *)
OwnersExist ==
  /\ \A c \in cookies : Created(c.user)
  /\ \A l \in Links : ValidLink(l) => Created(link[l])
  /\ \A r \in Requests : req[r].user # None => Created(req[r].user)

BaseInv == TypeOK /\ (\A r \in Requests : Whole(req[r])) /\ OwnersExist

(* What an acceptance has read of its invitation stays true.               *)
AcceptsMatch ==
  \A r \in Requests : req[r].at \in {"loaded", "accept"} =>
    /\ invite[req[r].from] # None
    /\ Sent(req[r].from) => invite[req[r].from].type = req[r].role

SignupInv == EmailsAreUnique /\ AcceptsMatch /\ AcceptedIsBacked

(* A reset that settles the sessions of an account has written its         *)
(* password before.                                                        *)
SettledIsWritten ==
  /\ \A u \in Users : IF Created(u) THEN settled[u] <= user[u].pass ELSE settled[u] = 0
  /\ \A r \in Requests : req[r].at = "written" => req[r].pass <= user[req[r].user].pass

(* Nobody holds a version of the future.                                   *)
VersionsArePast ==
  /\ \A c \in cookies : c.version <= user[c.user].version
  /\ \A r \in Requests : req[r].at = "login" => req[r].version <= user[req[r].user].version

LoginsAreCurrent ==
  \A r \in Requests :
    req[r].at = "login" /\ req[r].version = user[req[r].user].version =>
      req[r].pass >= settled[req[r].user]

SessionInv == SettledIsWritten /\ VersionsArePast /\ LoginsAreCurrent /\ OldPasswordsAreOut

-------------------------------------------------------------------------------
(* Rows and requests.                                                      *)

LEMMA GoesLemma ==
  ASSUME req \in [Requests -> Request], NEW r \in Requests, NEW next \in Request, Goes(r, next)
  PROVE  /\ req' \in [Requests -> Request]
         /\ req'[r] = next
         /\ \A q \in Requests : q # r => req'[q] = req[q]
  BY DEF Goes

LEMMA IdleLemma == Idle \in Request /\ Whole(Idle) /\ Idle.at = "idle" /\ Idle.user = None
  BY BoundAssumption DEF Idle, Request, Whole, Steps, SelfRoles, InviteTypes

(* A request moves on, or ends, and the others stay as they are.           *)
LEMMA MovesLemma ==
  ASSUME req \in [Requests -> Request], NEW r \in Requests,
         NEW from \in Steps, NEW to \in Steps, Moves(r, from, to)
  PROVE  /\ req' \in [Requests -> Request]
         /\ req[r].at = from /\ req'[r] = [req[r] EXCEPT !.at = to]
         /\ req'[r].at = to
         /\ req'[r].user = req[r].user /\ req'[r].email = req[r].email
         /\ req'[r].role = req[r].role /\ req'[r].from = req[r].from
         /\ req'[r].token = req[r].token /\ req'[r].link = req[r].link
         /\ req'[r].pass = req[r].pass /\ req'[r].version = req[r].version
         /\ \A q \in Requests : q # r => req'[q] = req[q]
<1>1. req[r] \in Request
  OBVIOUS
<1>2. [req[r] EXCEPT !.at = to] \in Request
  BY <1>1 DEF Request
<1>3. req[r].at = from /\ Goes(r, [req[r] EXCEPT !.at = to])
  BY DEF Moves, At
<1> QED
  BY <1>1, <1>2, <1>3, GoesLemma DEF Request

LEMMA EndsLemma ==
  ASSUME req \in [Requests -> Request], NEW r \in Requests, NEW from \in Steps, Ends(r, from)
  PROVE  /\ req' \in [Requests -> Request]
         /\ req[r].at = from /\ req'[r] = Idle
         /\ \A q \in Requests : q # r => req'[q] = req[q]
  BY IdleLemma, GoesLemma DEF Ends, At

(* The rows after the three statements that write to users.                *)
LEMMA InsertLemma ==
  ASSUME TypeOK, NEW r \in Requests, NEW u \in Users, req[r].email \in Emails, Insert(r, u)
  PROVE  /\ user' \in [Users -> UserRow \cup {None}]
         /\ ~Created(u) /\ ~Taken(req[r].email) /\ user'[u] \in UserRow /\ user'[u] # None
         /\ user'[u].email = req[r].email /\ user'[u].role = req[r].role
         /\ user'[u].from = req[r].from /\ user'[u].pass = 0 /\ user'[u].version = 0
         /\ \A v \in Users : v # u => user'[v] = user[v]
<1> DEFINE row == [email |-> req[r].email, role |-> req[r].role, from |-> req[r].from,
                   pass |-> 0, version |-> 0]
<1>1. req[r] \in Request
  BY DEF TypeOK
<1>2. row \in UserRow
  BY <1>1, BoundAssumption DEF Request, UserRow
<1>3. row # None
  BY <1>2, NoneAssumption
<1>4. user' = [user EXCEPT ![u] = row] /\ ~Created(u) /\ ~Taken(req[r].email)
  BY DEF Insert
<1> QED
  BY <1>2, <1>3, <1>4 DEF TypeOK

LEMMA VersionLemma ==
  ASSUME TypeOK, NEW u \in Users, Created(u), NewVersion(u)
  PROVE  /\ user' \in [Users -> UserRow \cup {None}]
         /\ user[u] \in UserRow /\ user'[u] \in UserRow /\ user'[u] # None
         /\ user'[u].email = user[u].email /\ user'[u].role = user[u].role
         /\ user'[u].from = user[u].from /\ user'[u].pass = user[u].pass
         /\ user'[u].version = user[u].version + 1
         /\ \A v \in Users : v # u => user'[v] = user[v]
<1>1. user[u] \in UserRow
  BY DEF TypeOK, Created
<1>2. user[u].version \in Int /\ user[u].version + 1 \in 0 .. MaxVersion
  BY <1>1, BoundAssumption DEF UserRow, NewVersion
<1> DEFINE row == [user[u] EXCEPT !.version = @ + 1]
<1>3. row \in UserRow /\ row.version = user[u].version + 1 /\ row.email = user[u].email
      /\ row.role = user[u].role /\ row.from = user[u].from /\ row.pass = user[u].pass
  BY <1>1, <1>2 DEF UserRow
<1>4. row # None
  BY <1>3, NoneAssumption
<1>5. user' = [user EXCEPT ![u] = row]
  BY DEF NewVersion
<1> QED
  BY <1>1, <1>3, <1>4, <1>5 DEF TypeOK

LEMMA PasswordLemma ==
  ASSUME TypeOK, NEW r \in Requests, req[r].user \in Users, Created(req[r].user), UpdatePassword(r)
  PROVE  /\ user' \in [Users -> UserRow \cup {None}]
         /\ user[req[r].user] \in UserRow /\ user'[req[r].user] \in UserRow
         /\ user'[req[r].user] # None
         /\ user'[req[r].user].email = user[req[r].user].email
         /\ user'[req[r].user].role = user[req[r].user].role
         /\ user'[req[r].user].from = user[req[r].user].from
         /\ user'[req[r].user].pass = user[req[r].user].pass + 1
         /\ user'[req[r].user].version = user[req[r].user].version
         /\ \A v \in Users : v # req[r].user => user'[v] = user[v]
         /\ req' \in [Requests -> Request]
         /\ req'[r].at = "written" /\ req'[r].user = req[r].user /\ req'[r].link = req[r].link
         /\ req'[r].pass = user[req[r].user].pass + 1
         /\ \A q \in Requests : q # r => req'[q] = req[q]
<1> DEFINE u == req[r].user
           row == [user[u] EXCEPT !.pass = @ + 1]
           next == [req[r] EXCEPT !.at = "written", !.pass = user[u].pass + 1]
<1>1. user[u] \in UserRow /\ req[r] \in Request
  BY DEF TypeOK, Created
<1>2. user[u].pass \in Int /\ user[u].pass + 1 \in 0 .. MaxPass
  BY <1>1, BoundAssumption DEF UserRow, UpdatePassword
<1>3. row \in UserRow /\ row.pass = user[u].pass + 1 /\ row.email = user[u].email
      /\ row.role = user[u].role /\ row.from = user[u].from /\ row.version = user[u].version
  BY <1>1, <1>2 DEF UserRow
<1>4. next \in Request /\ next.at = "written" /\ next.user = u /\ next.link = req[r].link
      /\ next.pass = user[u].pass + 1
  BY <1>1, <1>2 DEF Request, Steps
<1>5. row # None
  BY <1>3, NoneAssumption
<1>6. user' = [user EXCEPT ![u] = row] /\ Goes(r, next)
  BY DEF UpdatePassword
<1>7. req' \in [Requests -> Request] /\ req'[r] = next /\ \A q \in Requests : q # r => req'[q] = req[q]
  BY <1>4, <1>6, GoesLemma DEF TypeOK
<1> HIDE DEF row, next
<1> QED
  BY <1>1, <1>3, <1>4, <1>5, <1>6, <1>7 DEF TypeOK

(* The invitations after an acceptance: none but the one whose token it    *)
(* was given is touched.                                                   *)
LEMMA AcceptedLemma ==
  ASSUME TypeOK, NEW r \in Requests, NEW u \in Users
  PROVE  /\ Accepted(r, u) \in [Invites -> InviteRow \cup {None, Deleted}]
         /\ \A i \in Invites : Accepted(r, u)[i] = invite[i] \/
              /\ i = req[r].from /\ Sent(i) /\ Accepted(r, u)[i] \in InviteRow
              /\ Accepted(r, u)[i].type = invite[i].type
              /\ Accepted(r, u)[i].accepted = TRUE
              /\ Accepted(r, u)[i].tenant = IF req[r].role = "tenant" THEN u ELSE None
<1> DEFINE i == req[r].from
           t == IF req[r].role = "tenant" THEN u ELSE None
           row == [[invite[i] EXCEPT !.accepted = TRUE] EXCEPT !.tenant = t]
<1>1. CASE ~(Sent(i) /\ invite[i].token = req[r].token) \/ i \notin Invites
  BY <1>1 DEF Accepted, TypeOK
<1>2. CASE Sent(i) /\ invite[i].token = req[r].token /\ i \in Invites
  <2>1. invite[i] \in InviteRow
    BY <1>2 DEF Sent, TypeOK
  <2>2. /\ [invite[i] EXCEPT !.accepted = TRUE] \in InviteRow
        /\ [invite[i] EXCEPT !.accepted = TRUE].type = invite[i].type
        /\ [invite[i] EXCEPT !.accepted = TRUE].accepted = TRUE
    BY <2>1 DEF InviteRow
  <2>3. row \in InviteRow /\ row.type = invite[i].type /\ row.accepted = TRUE /\ row.tenant = t
    BY <2>2 DEF InviteRow
  <2>4. Accepted(r, u) = [invite EXCEPT ![i] = row]
    BY <1>2 DEF Accepted
  <2> HIDE DEF row
  <2> QED
    BY <1>2, <2>3, <2>4 DEF TypeOK
<1> QED
  BY <1>1, <1>2

-------------------------------------------------------------------------------
(* Types, and the accounts that requests, links and cookies are about.     *)

Rows(u, i, l, c, s) ==
  /\ u \in [Users -> UserRow \cup {None}]
  /\ i \in [Invites -> InviteRow \cup {None, Deleted}]
  /\ l \in [Links -> Users \cup {None, Deleted}]
  /\ c \in SUBSET Cookie
  /\ s \in [Users -> 0 .. MaxPass]

(* A step of one request.                                                  *)
LEMMA BaseLemma ==
  ASSUME BaseInv, NEW r \in Requests,
         Rows(user', invite', link', cookies', settled'),
         req' \in [Requests -> Request],
         \A q \in Requests : q # r => req'[q] = req[q],
         Whole(req'[r]),
         \A u \in Users : Created(u) => user'[u] # None,
         req'[r].user # None => user'[req'[r].user] # None,
         \A c \in cookies' : c \in cookies \/ user'[c.user] # None,
         \A l \in Links : link'[l] = link[l] \/ link'[l] = Deleted
  PROVE  BaseInv'
<1>1. TypeOK'
  BY DEF Rows, TypeOK
<1>2. \A q \in Requests : Whole(req'[q])
  BY DEF BaseInv
<1>3. \A c \in cookies' : user'[c.user] # None
  BY DEF BaseInv, OwnersExist, TypeOK, Cookie
<1>4. \A l \in Links : link'[l] \notin {None, Deleted} => user'[link'[l]] # None
  BY DEF ValidLink, BaseInv, TypeOK, OwnersExist
<1>5. \A q \in Requests : req'[q].user # None => user'[req'[q].user] # None
  <2> SUFFICES ASSUME NEW q \in Requests, q # r, req[q].user # None PROVE user'[req[q].user] # None
    OBVIOUS
  <2>1. req[q].user \in Users
    BY DEF BaseInv, TypeOK, Request
  <2> QED
    BY <2>1 DEF BaseInv, OwnersExist
<1> QED
  BY <1>1, <1>2, <1>3, <1>4, <1>5 DEF BaseInv, OwnersExist, Created, ValidLink

(* A statement that only reads.                                            *)
LEMMA ReadLemma ==
  ASSUME BaseInv, NEW r \in Requests, NEW next \in Request, Goes(r, next), Whole(next),
         next.user # None => Created(next.user),
         UNCHANGED <<user, invite, link, cookies, settled>>
  PROVE  BaseInv'
<1>1. /\ req' \in [Requests -> Request] /\ req'[r] = next
      /\ \A q \in Requests : q # r => req'[q] = req[q]
  BY GoesLemma DEF BaseInv, TypeOK
<1>2. Rows(user', invite', link', cookies', settled')
  BY DEF BaseInv, TypeOK, Rows
<1>3. /\ \A u \in Users : Created(u) => user'[u] # None
      /\ req'[r].user # None => user'[req'[r].user] # None
      /\ \A c \in cookies' : c \in cookies \/ user'[c.user] # None
      /\ \A l \in Links : link'[l] = link[l] \/ link'[l] = Deleted
  BY <1>1 DEF Created
<1>4. Whole(req'[r])
  BY <1>1
<1> QED
  BY <1>1, <1>2, <1>3, <1>4, BaseLemma

LEMMA BaseInit == Init => BaseInv
  BY IdleLemma, BoundAssumption
  DEF Init, BaseInv, TypeOK, OwnersExist, Created, ValidLink

LEMMA SignupReads ==
  ASSUME BaseInv, NEW r \in Requests
  PROVE  /\ \A e \in Emails, role \in SelfRoles : Register(r, e, role) => BaseInv'
         /\ \A e \in Emails \cup {None}, type \in InviteTypes :
              CreateInvitation(r, e, type) => BaseInv'
         /\ CheckPending(r) => BaseInv'
         /\ \A i \in Invites : AcceptInvitation(r, i) \/ ResendInvitation(r, i)
                               \/ DeleteInvitation(r, i) => BaseInv'
         /\ \A e \in Emails : CheckEmail(r, e) => BaseInv'
<1> USE BoundAssumption, IdleLemma DEF Request, Steps, SelfRoles, InviteTypes
<1>1. ASSUME NEW e \in Emails, NEW role \in SelfRoles, Register(r, e, role) PROVE BaseInv'
  <2> DEFINE next == [Idle EXCEPT !.at = "register", !.email = e, !.role = role]
  <2>1. next \in Request /\ next.user = None /\ next.at = "register" /\ next.email = e
    OBVIOUS
  <2>2. Whole(next)
    BY <2>1 DEF Whole
  <2> QED
    BY <1>1, <2>1, <2>2, ReadLemma DEF Register, Begins
<1>2. ASSUME NEW e \in Emails \cup {None}, NEW type \in InviteTypes, CreateInvitation(r, e, type)
      PROVE  BaseInv'
  <2> DEFINE next == [Idle EXCEPT !.at = "invite", !.email = e, !.role = type]
  <2>1. next \in Request /\ next.user = None /\ next.at = "invite" /\ next.role = type
    OBVIOUS
  <2>2. Whole(next)
    BY <2>1 DEF Whole
  <2> QED
    BY <1>2, <2>1, <2>2, ReadLemma DEF CreateInvitation, Begins
<1>3. ASSUME CheckPending(r) PROVE BaseInv'
  <2> DEFINE next == [req[r] EXCEPT !.at = "insert"]
  <2>1. req[r] \in Request /\ Whole(req[r]) /\ (req[r].user # None => Created(req[r].user))
    BY DEF BaseInv, TypeOK, OwnersExist
  <2>2. req[r].at = "invite" /\ Goes(r, next)
    BY <1>3 DEF CheckPending, Moves, At
  <2>3. next \in Request /\ next.at = "insert" /\ next.user = req[r].user /\ next.role = req[r].role
    BY <2>1
  <2>4. Whole(next)
    BY <2>1, <2>2, <2>3 DEF Whole
  <2> QED
    BY <1>3, <2>1, <2>2, <2>3, <2>4, ReadLemma DEF CheckPending
<1>4. ASSUME NEW i \in Invites, AcceptInvitation(r, i) PROVE BaseInv'
  <2> DEFINE next == [Idle EXCEPT !.at = "loaded", !.from = i, !.token = invite[i].token,
                                  !.role = invite[i].type, !.email = invite[i].email]
  <2>1. invite[i] \in InviteRow
    BY <1>4 DEF AcceptInvitation, Open, Sent, BaseInv, TypeOK
  <2>2. /\ invite[i].token \in 0 .. MaxToken /\ invite[i].type \in InviteTypes
        /\ invite[i].email \in Emails \cup {None}
    BY <2>1 DEF InviteRow
  <2>3. next \in Request /\ next.user = None /\ next.at = "loaded" /\ next.from = i /\ next.role = invite[i].type
    BY <2>2
  <2>4. Whole(next)
    BY <2>3, <2>2 DEF Whole
  <2> QED
    BY <1>4, <2>3, <2>4, ReadLemma DEF AcceptInvitation, Begins
<1>5. ASSUME NEW i \in Invites, ResendInvitation(r, i) PROVE BaseInv'
  <2> DEFINE next == [Idle EXCEPT !.at = "resend", !.from = i]
  <2>1. next \in Request /\ next.user = None /\ next.at = "resend" /\ next.from = i
    OBVIOUS
  <2>2. Whole(next)
    BY <2>1 DEF Whole
  <2> QED
    BY <1>5, <2>1, <2>2, ReadLemma DEF ResendInvitation, Begins
<1>6. ASSUME NEW i \in Invites, DeleteInvitation(r, i) PROVE BaseInv'
  <2> DEFINE next == [Idle EXCEPT !.at = "delete", !.from = i]
  <2>1. next \in Request /\ next.user = None /\ next.at = "delete" /\ next.from = i
    OBVIOUS
  <2>2. Whole(next)
    BY <2>1 DEF Whole
  <2> QED
    BY <1>6, <2>1, <2>2, ReadLemma DEF DeleteInvitation, Begins
<1>7. ASSUME NEW e \in Emails, CheckEmail(r, e) PROVE BaseInv'
  <2> DEFINE next == [req[r] EXCEPT !.at = "accept", !.email = e]
  <2>1. req[r] \in Request /\ Whole(req[r]) /\ (req[r].user # None => Created(req[r].user))
    BY DEF BaseInv, TypeOK, OwnersExist
  <2>2. req[r].at = "loaded" /\ Goes(r, next)
    BY <1>7 DEF CheckEmail, At
  <2>3. /\ next \in Request /\ next.at = "accept" /\ next.user = req[r].user
        /\ next.role = req[r].role /\ next.from = req[r].from /\ next.email = e
    <3> DEFINE mid == [req[r] EXCEPT !.at = "accept"]
    <3>1. /\ mid \in Request /\ mid.at = "accept" /\ mid.user = req[r].user
          /\ mid.role = req[r].role /\ mid.from = req[r].from
      BY <2>1
    <3>2. next = [mid EXCEPT !.email = e]
      OBVIOUS
    <3> HIDE DEF mid, next
    <3> QED
      BY <3>1, <3>2
  <2>4. Whole(next)
    BY <2>1, <2>2, <2>3 DEF Whole
  <2>5. UNCHANGED <<user, invite, link, cookies, settled>>
    BY <1>7 DEF CheckEmail
  <2>6. next.user # None => Created(next.user)
    BY <2>1, <2>3
  <2> HIDE DEF next
  <2> QED
    BY <2>2, <2>3, <2>4, <2>5, <2>6, ReadLemma
<1> QED
  BY <1>1, <1>2, <1>3, <1>4, <1>5, <1>6, <1>7

LEMMA SessionReads ==
  ASSUME BaseInv, NEW r \in Requests
  PROVE  /\ \A u \in Users : Login(r, u) \/ VerifyEmail(r, u) => BaseInv'
         /\ \A l \in Links : ResetPassword(r, l) => BaseInv'
         /\ Stops(r) => BaseInv'
<1> USE BoundAssumption, IdleLemma DEF Request, Steps, SelfRoles, InviteTypes
<1>1. ASSUME NEW u \in Users, Login(r, u) PROVE BaseInv'
  <2> DEFINE next == [Idle EXCEPT !.at = "login", !.user = u, !.pass = user[u].pass,
                                  !.version = user[u].version]
  <2>1. user[u] \in UserRow
    BY <1>1 DEF Login, Created, BaseInv, TypeOK
  <2>2. user[u].pass \in 0 .. MaxPass /\ user[u].version \in 0 .. MaxVersion
    BY <2>1 DEF UserRow
  <2>3. next \in Request /\ next.user = u /\ next.at = "login"
    BY <2>2
  <2>4. Whole(next)
    BY <2>3, <2>2 DEF Whole
  <2> QED
    BY <1>1, <2>3, <2>4, ReadLemma DEF Login, Begins
<1>2. ASSUME NEW u \in Users, VerifyEmail(r, u) PROVE BaseInv'
  <2> DEFINE next == [Idle EXCEPT !.at = "issue", !.user = u]
  <2>1. next \in Request /\ next.user = u /\ next.at = "issue"
    OBVIOUS
  <2>2. Whole(next)
    BY <2>1 DEF Whole
  <2> QED
    BY <1>2, <2>1, <2>2, ReadLemma DEF VerifyEmail, Begins
<1>3. ASSUME NEW l \in Links, ResetPassword(r, l) PROVE BaseInv'
  <2> DEFINE next == [Idle EXCEPT !.at = "reset", !.user = link[l], !.link = l]
  <2>1. link[l] \in Users /\ Created(link[l])
    BY <1>3 DEF ResetPassword, ValidLink, BaseInv, TypeOK, OwnersExist
  <2>2. next \in Request /\ next.user = link[l] /\ next.at = "reset" /\ next.link = l
    BY <2>1
  <2>3. Whole(next)
    BY <2>2, <2>1 DEF Whole
  <2> QED
    BY <1>3, <2>1, <2>2, <2>3, ReadLemma DEF ResetPassword, Begins
<1>4. ASSUME Stops(r) PROVE BaseInv'
  BY <1>4, IdleLemma, ReadLemma DEF Stops
<1> QED
  BY <1>1, <1>2, <1>3, <1>4

(* The two statements that insert an account.                              *)
LEMMA InsertBase ==
  ASSUME BaseInv, NEW r \in Requests, NEW u \in Users, CommitRegister(r, u) \/ CommitAccept(r, u)
  PROVE  BaseInv'
<1>1. req[r].at \in {"register", "accept"} /\ Insert(r, u)
  BY DEF CommitRegister, CommitAccept, Ends, At
<1>2. req[r].email \in Emails
  BY <1>1 DEF BaseInv, Whole
<1>3. /\ user' \in [Users -> UserRow \cup {None}] /\ ~Created(u) /\ user'[u] # None
      /\ \A v \in Users : v # u => user'[v] = user[v]
  BY <1>1, <1>2, InsertLemma DEF BaseInv
<1>4. \A v \in Users : Created(v) => user'[v] # None
  BY <1>3 DEF Created
<1>5. CASE CommitRegister(r, u)
  <2>1. /\ req' \in [Requests -> Request] /\ req'[r] = Idle
        /\ \A q \in Requests : q # r => req'[q] = req[q]
    BY <1>5, EndsLemma DEF CommitRegister, Steps, BaseInv, TypeOK
  <2>2. cookies' = cookies \cup {[user |-> u, pass |-> 0, version |-> 0]}
    BY <1>5 DEF CommitRegister
  <2>3. Rows(user', invite', link', cookies', settled')
    BY <1>3, <1>5, <2>2, BoundAssumption DEF CommitRegister, BaseInv, TypeOK, Rows, Cookie
  <2>4. \A c \in cookies' : c \in cookies \/ user'[c.user] # None
    BY <1>3, <2>2
  <2>5. link' = link
    BY <1>5 DEF CommitRegister
  <2>6. Whole(req'[r]) /\ req'[r].user = None
    BY <2>1, IdleLemma
  <2> QED
    BY <1>4, <2>1, <2>3, <2>4, <2>5, <2>6, BaseLemma
<1>6. CASE CommitAccept(r, u)
  <2> DEFINE next == [Idle EXCEPT !.at = "issue", !.user = u]
  <2>1. next \in Request /\ next.at = "issue" /\ next.user = u
    BY IdleLemma DEF Request, Steps
  <2>2. Whole(next)
    BY <2>1 DEF Whole
  <2>3. Goes(r, next) /\ invite' = Accepted(r, u) /\ UNCHANGED <<link, cookies, settled>>
    BY <1>6 DEF CommitAccept
  <2> HIDE DEF next
  <2>4. /\ req' \in [Requests -> Request] /\ req'[r] = next
        /\ \A q \in Requests : q # r => req'[q] = req[q]
    BY <2>1, <2>3, GoesLemma DEF BaseInv, TypeOK
  <2>5. Accepted(r, u) \in [Invites -> InviteRow \cup {None, Deleted}]
    BY AcceptedLemma DEF BaseInv
  <2>6. Rows(user', invite', link', cookies', settled')
    BY <1>3, <2>3, <2>5 DEF BaseInv, TypeOK, Rows
  <2> QED
    BY <1>3, <1>4, <2>1, <2>2, <2>3, <2>4, <2>6, BaseLemma
<1> QED
  BY <1>5, <1>6

(* The statements that write invitations.                                  *)
LEMMA InviteBase ==
  ASSUME BaseInv, NEW r \in Requests,
         RefreshToken(r) \/ RemoveInvitation(r) \/ \E i \in Invites : InsertInvitation(r, i)
  PROVE  BaseInv'
<1>1. PICK from \in {"insert", "resend", "delete"} : Ends(r, from)
  BY DEF RefreshToken, RemoveInvitation, InsertInvitation
<1>2. /\ req' \in [Requests -> Request] /\ req'[r] = Idle /\ req[r].at = from
      /\ \A q \in Requests : q # r => req'[q] = req[q]
  BY <1>1, EndsLemma DEF Steps, BaseInv, TypeOK
<1>3. req[r] \in Request
  BY DEF BaseInv, TypeOK
<1>4. invite' \in [Invites -> InviteRow \cup {None, Deleted}]
  <2>1. CASE RefreshToken(r)
    <3>1. CASE ~Sent(req[r].from)
      BY <2>1, <3>1 DEF RefreshToken, BaseInv, TypeOK
    <3>2. CASE Sent(req[r].from)
      <4>1. req[r].from \in Invites
        BY <2>1, <1>2 DEF RefreshToken, Ends, At, BaseInv, Whole
      <4>2. invite[req[r].from] \in InviteRow
        BY <4>1, <3>2 DEF Sent, BaseInv, TypeOK
      <4>3. invite[req[r].from].token + 1 \in 0 .. MaxToken
        BY <4>2, <2>1, <3>2, BoundAssumption DEF RefreshToken, InviteRow
      <4>4. [invite[req[r].from] EXCEPT !.token = @ + 1] \in InviteRow
        BY <4>2, <4>3 DEF InviteRow
      <4>5. [[invite[req[r].from] EXCEPT !.token = @ + 1] EXCEPT !.live = TRUE] \in InviteRow
        BY <4>4 DEF InviteRow
      <4>6. invite' = [invite EXCEPT ![req[r].from] =
                         [[invite[req[r].from] EXCEPT !.token = @ + 1] EXCEPT !.live = TRUE]]
        BY <2>1, <3>2 DEF RefreshToken
      <4> QED
        BY <4>5, <4>6 DEF BaseInv, TypeOK
    <3> QED
      BY <3>1, <3>2
  <2>2. CASE RemoveInvitation(r)
    BY <2>2 DEF RemoveInvitation, BaseInv, TypeOK
  <2>3. ASSUME NEW i \in Invites, InsertInvitation(r, i)
        PROVE  invite' \in [Invites -> InviteRow \cup {None, Deleted}]
    <3>1. req[r].role \in InviteTypes
      BY <2>3, <1>2 DEF InsertInvitation, Ends, At, BaseInv, Whole
    <3>2. [email |-> req[r].email, type |-> req[r].role, token |-> 0, live |-> TRUE,
           accepted |-> FALSE, tenant |-> None] \in InviteRow
      BY <1>3, <3>1, BoundAssumption DEF Request, InviteRow
    <3> QED
      BY <2>3, <3>2 DEF InsertInvitation, BaseInv, TypeOK
  <2> QED
    BY <2>1, <2>2, <2>3
<1>5. UNCHANGED <<user, link, cookies, settled>>
  BY DEF RefreshToken, RemoveInvitation, InsertInvitation
<1>6. Rows(user', invite', link', cookies', settled')
  BY <1>4, <1>5 DEF Rows, BaseInv, TypeOK
<1>7. Whole(req'[r]) /\ req'[r].user = None
  BY <1>2, IdleLemma
<1> QED
  BY <1>2, <1>5, <1>6, <1>7, BaseLemma DEF Created

(* The statements of log-ins and resets.                                   *)
LEMMA CookieBase ==
  ASSUME BaseInv, NEW r \in Requests, SignLogin(r) \/ IssueTokens(r)
  PROVE  BaseInv'
<1>1. PICK from \in {"login", "issue"} : Ends(r, from)
  BY DEF SignLogin, IssueTokens
<1>2. /\ req' \in [Requests -> Request] /\ req'[r] = Idle /\ req[r].at = from
      /\ \A q \in Requests : q # r => req'[q] = req[q]
  BY <1>1, EndsLemma DEF Steps, BaseInv, TypeOK
<1>3. req[r] \in Request /\ req[r].user \in Users /\ Created(req[r].user)
  BY <1>2, NoneAssumption DEF BaseInv, TypeOK, Whole, OwnersExist
<1>4. user[req[r].user] \in UserRow
  BY <1>3 DEF BaseInv, TypeOK, Created
<1>5. PICK c \in Cookie : cookies' = cookies \cup {c} /\ c.user = req[r].user
  <2>1. ASSUME SignLogin(r)
        PROVE  \E c \in Cookie : cookies' = cookies \cup {c} /\ c.user = req[r].user
    <3> DEFINE c == [user |-> req[r].user, pass |-> req[r].pass, version |-> req[r].version]
    <3>1. c \in Cookie /\ c.user = req[r].user
      BY <1>3 DEF Cookie, Request
    <3>2. cookies' = cookies \cup {c}
      BY <2>1 DEF SignLogin
    <3> QED
      BY <3>1, <3>2
  <2>2. ASSUME IssueTokens(r)
        PROVE  \E c \in Cookie : cookies' = cookies \cup {c} /\ c.user = req[r].user
    <3> DEFINE c == CookieOf(req[r].user)
    <3>1. c \in Cookie /\ c.user = req[r].user
      BY <1>3, <1>4 DEF CookieOf, Cookie, UserRow
    <3>2. cookies' = cookies \cup {c}
      BY <2>2 DEF IssueTokens
    <3> QED
      BY <3>1, <3>2
  <2> QED
    BY <2>1, <2>2
<1>6. UNCHANGED <<user, invite, link, settled>>
  BY DEF SignLogin, IssueTokens
<1>7. Rows(user', invite', link', cookies', settled')
  BY <1>5, <1>6 DEF Rows, BaseInv, TypeOK
<1>8. Whole(req'[r]) /\ req'[r].user = None
  BY <1>2, IdleLemma
<1> QED
  BY <1>2, <1>3, <1>5, <1>6, <1>7, <1>8, BaseLemma DEF Created

LEMMA ResetBase ==
  ASSUME BaseInv, NEW r \in Requests,
         UpdatePassword(r) \/ IncrementTokenVersion(r) \/ MarkUsed(r) \/ DeleteForUser(r)
  PROVE  BaseInv'
<1>1. req[r].at \in {"reset", "written", "bumped", "marked"}
  BY DEF UpdatePassword, IncrementTokenVersion, MarkUsed, DeleteForUser, Moves, Ends, At
<1>2. req[r] \in Request /\ req[r].user \in Users /\ Created(req[r].user) /\ Whole(req[r])
  BY <1>1, NoneAssumption DEF BaseInv, TypeOK, Whole, OwnersExist
<1>3. CASE UpdatePassword(r)
  <2>1. /\ user' \in [Users -> UserRow \cup {None}] /\ user'[req[r].user] # None
        /\ \A v \in Users : v # req[r].user => user'[v] = user[v]
        /\ req' \in [Requests -> Request] /\ req'[r].at = "written"
        /\ req'[r].user = req[r].user /\ req'[r].link = req[r].link
        /\ \A q \in Requests : q # r => req'[q] = req[q]
    BY <1>2, <1>3, PasswordLemma DEF BaseInv
  <2>2. UNCHANGED <<invite, link, cookies, settled>> /\ req[r].at = "reset"
    BY <1>3 DEF UpdatePassword, At
  <2>3. Whole(req'[r])
    BY <1>2, <2>1, <2>2 DEF Whole
  <2>4. Rows(user', invite', link', cookies', settled')
    BY <2>1, <2>2 DEF Rows, BaseInv, TypeOK
  <2> QED
    BY <2>1, <2>2, <2>3, <2>4, BaseLemma DEF Created
<1>4. CASE IncrementTokenVersion(r)
  <2>1. /\ user' \in [Users -> UserRow \cup {None}] /\ user'[req[r].user] # None
        /\ \A v \in Users : v # req[r].user => user'[v] = user[v]
    BY <1>2, <1>4, VersionLemma DEF IncrementTokenVersion, BaseInv
  <2>2. /\ req' \in [Requests -> Request] /\ req'[r].at = "bumped" /\ req[r].at = "written"
        /\ req'[r].user = req[r].user /\ req'[r].link = req[r].link
        /\ \A q \in Requests : q # r => req'[q] = req[q]
    BY <1>4, MovesLemma DEF IncrementTokenVersion, Steps, BaseInv, TypeOK
  <2>3. Whole(req'[r])
    BY <1>2, <2>2 DEF Whole
  <2>4. settled' \in [Users -> 0 .. MaxPass] /\ UNCHANGED <<invite, link, cookies>>
    BY <1>2, <1>4 DEF IncrementTokenVersion, BaseInv, TypeOK, Request
  <2>5. Rows(user', invite', link', cookies', settled')
    BY <2>1, <2>4 DEF Rows, BaseInv, TypeOK
  <2> QED
    BY <2>1, <2>2, <2>3, <2>4, <2>5, BaseLemma DEF Created
<1>5. CASE MarkUsed(r)
  <2>1. /\ req' \in [Requests -> Request] /\ req'[r].at = "marked" /\ req[r].at = "bumped"
        /\ req'[r].user = req[r].user
        /\ \A q \in Requests : q # r => req'[q] = req[q]
    BY <1>5, MovesLemma DEF MarkUsed, Steps, BaseInv, TypeOK
  <2>2. Whole(req'[r])
    BY <1>2, <2>1 DEF Whole
  <2>3. /\ link' \in [Links -> Users \cup {None, Deleted}]
        /\ \A l \in Links : link'[l] = link[l] \/ link'[l] = Deleted
        /\ UNCHANGED <<user, invite, cookies, settled>>
    BY <1>5 DEF MarkUsed, BaseInv, TypeOK
  <2>4. Rows(user', invite', link', cookies', settled')
    BY <2>3 DEF Rows, BaseInv, TypeOK
  <2> QED
    BY <1>2, <2>1, <2>2, <2>3, <2>4, BaseLemma DEF Created
<1>6. CASE DeleteForUser(r)
  <2>1. /\ req' \in [Requests -> Request] /\ req'[r] = Idle
        /\ \A q \in Requests : q # r => req'[q] = req[q]
    BY <1>6, EndsLemma DEF DeleteForUser, Steps, BaseInv, TypeOK
  <2>2. Whole(req'[r]) /\ req'[r].user = None
    BY <2>1, IdleLemma
  <2>3. /\ link' \in [Links -> Users \cup {None, Deleted}]
        /\ \A l \in Links : link'[l] = link[l] \/ link'[l] = Deleted
        /\ UNCHANGED <<user, invite, cookies, settled>>
    BY <1>6 DEF DeleteForUser, BaseInv, TypeOK
  <2>4. Rows(user', invite', link', cookies', settled')
    BY <2>3 DEF Rows, BaseInv, TypeOK
  <2> QED
    BY <2>1, <2>2, <2>3, <2>4, BaseLemma DEF Created
<1> QED
  BY <1>3, <1>4, <1>5, <1>6

(* What happens beside the requests.                                       *)
LEMMA BesideBase ==
  ASSUME BaseInv
  PROVE  /\ \A i \in Invites : InvitationExpires(i) => BaseInv'
         /\ \A c \in cookies : Logout(c) => BaseInv'
         /\ \A u \in Users, l \in Links : ForgotPassword(u, l) => BaseInv'
         /\ \A l \in Links : LinkExpires(l) => BaseInv'
         /\ UNCHANGED vars => BaseInv'
<1> USE DEF Created, ValidLink
<1>1. ASSUME NEW i \in Invites, InvitationExpires(i) PROVE BaseInv'
  <2>1. invite[i] \in InviteRow
    BY <1>1 DEF InvitationExpires, Sent, BaseInv, TypeOK
  <2>2. [invite[i] EXCEPT !.live = FALSE] \in InviteRow
    BY <2>1 DEF InviteRow
  <2>3. invite' \in [Invites -> InviteRow \cup {None, Deleted}]
    BY <1>1, <2>2 DEF InvitationExpires, BaseInv, TypeOK
  <2> QED
    BY <1>1, <2>3 DEF InvitationExpires, BaseInv, TypeOK, OwnersExist
<1>2. ASSUME NEW c \in cookies, Logout(c) PROVE BaseInv'
  <2>1. c.user \in Users /\ Created(c.user)
    BY DEF BaseInv, TypeOK, OwnersExist, Cookie
  <2>2. /\ user' \in [Users -> UserRow \cup {None}] /\ user'[c.user] # None
        /\ \A v \in Users : v # c.user => user'[v] = user[v]
    BY <1>2, <2>1, VersionLemma DEF Logout, BaseInv
  <2>3. UNCHANGED <<invite, link, cookies, settled, req>>
    BY <1>2 DEF Logout
  <2>4. \A v \in Users : user[v] # None => user'[v] # None
    BY <2>2
  <2>5. OwnersExist'
    BY <2>3, <2>4 DEF BaseInv, OwnersExist, TypeOK, Cookie, Request
  <2> QED
    BY <2>2, <2>3, <2>5 DEF BaseInv, TypeOK
<1>3. ASSUME NEW u \in Users, NEW l \in Links, ForgotPassword(u, l) PROVE BaseInv'
  <2>1. link' = [link EXCEPT ![l] = u] /\ user[u] # None /\ UNCHANGED <<user, invite, cookies, settled, req>>
    BY <1>3 DEF ForgotPassword
  <2>2. link' \in [Links -> Users \cup {None, Deleted}]
    BY <2>1 DEF BaseInv, TypeOK
  <2>3. \A k \in Links : link'[k] \notin {None, Deleted} => user'[link'[k]] # None
    BY <2>1 DEF BaseInv, TypeOK, OwnersExist
  <2>4. OwnersExist'
    BY <2>1, <2>3 DEF BaseInv, OwnersExist
  <2> QED
    BY <2>1, <2>2, <2>4 DEF BaseInv, TypeOK
<1>4. ASSUME NEW l \in Links, LinkExpires(l) PROVE BaseInv'
  <2>1. link' = [link EXCEPT ![l] = Deleted] /\ UNCHANGED <<user, invite, cookies, settled, req>>
    BY <1>4 DEF LinkExpires
  <2>2. link' \in [Links -> Users \cup {None, Deleted}]
    BY <2>1 DEF BaseInv, TypeOK
  <2>3. \A k \in Links : link'[k] \notin {None, Deleted} => user'[link'[k]] # None
    BY <2>1 DEF BaseInv, TypeOK, OwnersExist
  <2>4. OwnersExist'
    BY <2>1, <2>3 DEF BaseInv, OwnersExist
  <2> QED
    BY <2>1, <2>2, <2>4 DEF BaseInv, TypeOK
<1>5. ASSUME UNCHANGED vars PROVE BaseInv'
  BY <1>5 DEF vars, BaseInv, TypeOK, OwnersExist
<1> QED
  BY <1>1, <1>2, <1>3, <1>4, <1>5

LEMMA BaseStep == BaseInv /\ [Next]_vars => BaseInv'
<1> SUFFICES ASSUME BaseInv, [Next]_vars PROVE BaseInv'
  OBVIOUS
<1>1. ASSUME NEW r \in Requests, Signup(r) PROVE BaseInv'
  BY <1>1, SignupReads, InsertBase, InviteBase DEF Signup, CreateEmployeeInvitation, InviteTypes
<1>2. ASSUME NEW r \in Requests, Session(r) PROVE BaseInv'
  BY <1>2, SessionReads, CookieBase, ResetBase DEF Session
<1>3. ASSUME NEW r \in Requests, Stops(r) PROVE BaseInv'
  BY <1>3, SessionReads
<1> QED
  BY <1>1, <1>2, <1>3, BesideBase DEF Next

(* Every table, every cookie and every request keeps its type.             *)
THEOREM TypeCorrect == Spec => []TypeOK
<1>1. BaseInv => TypeOK
  BY DEF BaseInv
<1> QED
  BY <1>1, BaseInit, BaseStep, PTL DEF Spec

-------------------------------------------------------------------------------
(* What a step does to a table, whichever action it is.                    *)

Kept(u) ==
  /\ user'[u] # None /\ user'[u].email = user[u].email
  /\ user'[u].role = user[u].role /\ user'[u].from = user[u].from
  /\ user'[u].pass >= user[u].pass /\ user'[u].version >= user[u].version

Enters(u) == \E r \in Requests : CommitRegister(r, u) \/ CommitAccept(r, u)

(* The actions that write to users.                                        *)
LEMMA WritesUser ==
  ASSUME BaseInv, [Next]_vars
  PROVE  \/ UNCHANGED user
         \/ \E u \in Users : Enters(u)
         \/ \E r \in Requests : UpdatePassword(r) \/ IncrementTokenVersion(r)
         \/ \E c \in cookies : Logout(c)
<1>1. ASSUME NEW r \in Requests, Signup(r)
      PROVE  UNCHANGED user \/ \E u \in Users : Enters(u)
  BY <1>1 DEF Signup, Enters, Register, CreateInvitation, CreateEmployeeInvitation, CheckPending, InsertInvitation,
     AcceptInvitation, ResendInvitation, DeleteInvitation, CheckEmail, RefreshToken, RemoveInvitation
<1>2. ASSUME NEW r \in Requests, Session(r)
      PROVE  UNCHANGED user \/ UpdatePassword(r) \/ IncrementTokenVersion(r)
  BY <1>2 DEF Session, Login, VerifyEmail, SignLogin, IssueTokens, ResetPassword, MarkUsed, DeleteForUser
<1> QED
  BY <1>1, <1>2 DEF Next, vars, Stops, InvitationExpires, ForgotPassword, LinkExpires

(* Accounts never go, and keep their address, role and origin; their       *)
(* passwords and versions only grow.                                       *)
LEMMA UsersStep ==
  ASSUME BaseInv, [Next]_vars
  PROVE  /\ \A u \in Users : Created(u) => Kept(u)
         /\ \A u \in Users : ~Created(u) => user'[u] = None \/ Enters(u)
<1>1. \A u \in Users : Created(u) => user[u].pass \in Int /\ user[u].version \in Int
  BY DEF Created, BaseInv, TypeOK, UserRow
<1>2. CASE UNCHANGED user
  BY <1>1, <1>2 DEF Created, Kept
<1>3. ASSUME NEW w \in Users, Enters(w)
      PROVE  /\ \A u \in Users : Created(u) => Kept(u)
             /\ \A u \in Users : ~Created(u) => user'[u] = None \/ Enters(u)
  <2>1. PICK r \in Requests : CommitRegister(r, w) \/ CommitAccept(r, w)
    BY <1>3 DEF Enters
  <2>2. Insert(r, w) /\ req[r].email \in Emails
    BY <2>1 DEF CommitRegister, CommitAccept, Ends, At, BaseInv, Whole
  <2>3. ~Created(w) /\ \A u \in Users : u # w => user'[u] = user[u]
    BY <2>2, InsertLemma DEF BaseInv
  <2> QED
    BY <1>1, <1>3, <2>3 DEF Created, Kept
<1>4. ASSUME NEW r \in Requests, UpdatePassword(r)
      PROVE  /\ \A u \in Users : Created(u) => Kept(u)
             /\ \A u \in Users : ~Created(u) => user'[u] = None
  <2>1. req[r].user \in Users /\ Created(req[r].user)
    BY <1>4, NoneAssumption DEF UpdatePassword, At, BaseInv, Whole, OwnersExist
  <2>2. Kept(req[r].user) /\ \A u \in Users : u # req[r].user => user'[u] = user[u]
    BY <1>1, <1>4, <2>1, PasswordLemma DEF BaseInv, Kept
  <2> QED
    BY <1>1, <2>1, <2>2 DEF Created, Kept
<1>5. ASSUME NEW w \in Users, Created(w), NewVersion(w)
      PROVE  /\ \A u \in Users : Created(u) => Kept(u)
             /\ \A u \in Users : ~Created(u) => user'[u] = None
  <2>1. Kept(w) /\ \A u \in Users : u # w => user'[u] = user[u]
    BY <1>1, <1>5, VersionLemma DEF BaseInv, Kept
  <2> QED
    BY <1>1, <1>5, <2>1 DEF Created, Kept
<1>6. ASSUME NEW r \in Requests, IncrementTokenVersion(r)
      PROVE  req[r].user \in Users /\ Created(req[r].user) /\ NewVersion(req[r].user)
  BY <1>6, NoneAssumption DEF IncrementTokenVersion, Moves, At, BaseInv, Whole, OwnersExist
<1>7. ASSUME NEW c \in cookies, Logout(c)
      PROVE  c.user \in Users /\ Created(c.user) /\ NewVersion(c.user)
  BY <1>7 DEF Logout, BaseInv, TypeOK, OwnersExist, Cookie
<1> QED
  BY <1>2, <1>3, <1>4, <1>5, <1>6, <1>7, WritesUser

(* What a step may do to one invitation.                                   *)
Untouched(i) == invite'[i] = invite[i]
Changes(i) ==
  /\ Sent(i) /\ invite'[i] \in InviteRow /\ invite'[i].type = invite[i].type
  /\ invite'[i].accepted = invite[i].accepted /\ invite'[i].tenant = invite[i].tenant
Arrives(i) == invite[i] = None /\ invite'[i] \in InviteRow /\ ~invite'[i].accepted
AcceptedBy(i, r, u) ==
  /\ CommitAccept(r, u) /\ i = req[r].from /\ Sent(i)
  /\ invite'[i] \in InviteRow /\ invite'[i].type = invite[i].type
  /\ invite'[i].tenant = IF req[r].role = "tenant" THEN u ELSE None

LEMMA WritesInvite ==
  ASSUME BaseInv, [Next]_vars
  PROVE  \/ UNCHANGED invite
         \/ \E r \in Requests, u \in Users : CommitAccept(r, u)
         \/ \E r \in Requests, i \in Invites : InsertInvitation(r, i)
         \/ \E r \in Requests : RefreshToken(r) \/ RemoveInvitation(r)
         \/ \E i \in Invites : InvitationExpires(i)
<1>1. ASSUME NEW r \in Requests, Signup(r)
      PROVE  \/ UNCHANGED invite
             \/ \E u \in Users : CommitAccept(r, u)
             \/ \E i \in Invites : InsertInvitation(r, i)
             \/ RefreshToken(r) \/ RemoveInvitation(r)
  BY <1>1 DEF Signup, Register, CommitRegister, CreateInvitation, CreateEmployeeInvitation, CheckPending,
     AcceptInvitation, ResendInvitation, DeleteInvitation, CheckEmail
<1>2. ASSUME NEW r \in Requests, Session(r)
      PROVE  UNCHANGED invite
  BY <1>2 DEF Session, Login, VerifyEmail, SignLogin, IssueTokens, ResetPassword,
     UpdatePassword, IncrementTokenVersion, MarkUsed, DeleteForUser
<1> QED
  BY <1>1, <1>2 DEF Next, vars, Stops, Logout, ForgotPassword, LinkExpires

LEMMA InvitesStep ==
  ASSUME BaseInv, [Next]_vars, NEW i \in Invites
  PROVE  \/ Untouched(i) \/ Changes(i) \/ Arrives(i) \/ invite'[i] = Deleted
         \/ \E r \in Requests, u \in Users : AcceptedBy(i, r, u)
<1>1. CASE UNCHANGED invite
  BY <1>1 DEF Untouched
<1>2. ASSUME NEW r \in Requests, NEW u \in Users, CommitAccept(r, u)
      PROVE  Untouched(i) \/ AcceptedBy(i, r, u)
  <2>1. invite' = Accepted(r, u)
    BY <1>2 DEF CommitAccept
  <2> QED
    BY <1>2, <2>1, AcceptedLemma DEF BaseInv, Untouched, AcceptedBy
<1>3. ASSUME NEW r \in Requests, NEW j \in Invites, InsertInvitation(r, j)
      PROVE  Untouched(i) \/ Arrives(i)
  <2>1. invite' \in [Invites -> InviteRow \cup {None, Deleted}]
    BY <1>3, InviteBase DEF BaseInv, TypeOK
  <2>2. req[r].role \in InviteTypes /\ req[r] \in Request
    BY <1>3 DEF InsertInvitation, Ends, At, BaseInv, Whole, TypeOK
  <2> DEFINE row == [email |-> req[r].email, type |-> req[r].role, token |-> 0, live |-> TRUE,
                     accepted |-> FALSE, tenant |-> None]
  <2>3. row \in InviteRow /\ row.accepted = FALSE
    BY <2>2, BoundAssumption DEF Request, InviteRow
  <2>4. invite[j] = None /\ invite' = [invite EXCEPT ![j] = row]
    BY <1>3 DEF InsertInvitation
  <2> HIDE DEF row
  <2> QED
    BY <2>3, <2>4 DEF BaseInv, TypeOK, Untouched, Arrives
<1>4. ASSUME NEW r \in Requests, RefreshToken(r) PROVE Untouched(i) \/ Changes(i)
  <2> DEFINE j == req[r].from
             mid == [invite[j] EXCEPT !.token = @ + 1]
             row == [mid EXCEPT !.live = TRUE]
  <2>1. CASE ~Sent(j)
    BY <1>4, <2>1 DEF RefreshToken, Untouched
  <2>2. CASE Sent(j)
    <3>1. j \in Invites
      BY <1>4 DEF RefreshToken, Ends, At, BaseInv, Whole
    <3>2. invite[j] \in InviteRow
      BY <2>2, <3>1 DEF Sent, BaseInv, TypeOK
    <3>3. invite[j].token + 1 \in 0 .. MaxToken
      BY <1>4, <2>2, <3>2, BoundAssumption DEF RefreshToken, InviteRow
    <3>4. /\ mid \in InviteRow /\ mid.type = invite[j].type
          /\ mid.accepted = invite[j].accepted /\ mid.tenant = invite[j].tenant
      BY <3>2, <3>3 DEF InviteRow
    <3>5. /\ row \in InviteRow /\ row.type = invite[j].type
          /\ row.accepted = invite[j].accepted /\ row.tenant = invite[j].tenant
      BY <3>4 DEF InviteRow
    <3>6. invite' = [invite EXCEPT ![j] = row]
      BY <1>4, <2>2 DEF RefreshToken
    <3> HIDE DEF row, mid
    <3> QED
      BY <2>2, <3>5, <3>6 DEF BaseInv, TypeOK, Untouched, Changes
  <2> QED
    BY <2>1, <2>2
<1>5. ASSUME NEW r \in Requests, RemoveInvitation(r)
      PROVE  Untouched(i) \/ invite'[i] = Deleted
  BY <1>5 DEF RemoveInvitation, BaseInv, TypeOK, Untouched
<1>6. ASSUME NEW j \in Invites, InvitationExpires(j) PROVE Untouched(i) \/ Changes(i)
  <2> DEFINE row == [invite[j] EXCEPT !.live = FALSE]
  <2>1. Sent(j) /\ invite[j] \in InviteRow
    BY <1>6 DEF InvitationExpires, Sent, BaseInv, TypeOK
  <2>2. /\ row \in InviteRow /\ row.type = invite[j].type
        /\ row.accepted = invite[j].accepted /\ row.tenant = invite[j].tenant
    BY <2>1 DEF InviteRow
  <2>3. invite' = [invite EXCEPT ![j] = row]
    BY <1>6 DEF InvitationExpires
  <2> HIDE DEF row
  <2> QED
    BY <2>1, <2>2, <2>3 DEF BaseInv, TypeOK, Untouched, Changes
<1> QED
  BY <1>1, <1>2, <1>3, <1>4, <1>5, <1>6, WritesInvite

-------------------------------------------------------------------------------
(* Registrations and acceptances.                                          *)

LEMMA InviteRows == \A x \in InviteRow : x # None /\ x # Deleted
  BY DeletedAssumption

(* The steps at which a request has something to remember.                 *)
Watched == {"loaded", "accept", "login", "written"}

(* The actions that bring a request to one of them.                        *)
LEMMA RequestsStep ==
  ASSUME BaseInv, [Next]_vars, NEW q \in Requests, req'[q].at \in Watched
  PROVE  \/ req'[q] = req[q]
         \/ \E r \in Requests, i \in Invites : AcceptInvitation(r, i)
         \/ \E r \in Requests, e \in Emails : CheckEmail(r, e)
         \/ \E r \in Requests, u \in Users : Login(r, u)
         \/ \E r \in Requests : UpdatePassword(r)
<1> USE IdleLemma DEF Watched
<1>1. ASSUME NEW r \in Requests, NEW next \in Request, Goes(r, next),
             next.at \notin Watched
      PROVE  req'[q] = req[q]
  BY <1>1, GoesLemma DEF BaseInv, TypeOK
<1>2. ASSUME NEW r \in Requests, NEW from \in Steps, NEW to \in Steps,
             to \notin Watched, Moves(r, from, to)
      PROVE  req'[q] = req[q]
  <2> DEFINE next == [req[r] EXCEPT !.at = to]
  <2>1. req[r] \in Request
    BY DEF BaseInv, TypeOK
  <2>2. next \in Request /\ next.at = to
    BY <2>1 DEF Request
  <2>3. Goes(r, next)
    BY <1>2 DEF Moves
  <2> HIDE DEF next
  <2> QED
    BY <1>1, <1>2, <2>2, <2>3
<1>3. ASSUME NEW r \in Requests, NEW from, Ends(r, from)
      PROVE  req'[q] = req[q]
  BY <1>1, <1>3 DEF Ends
<1>4. ASSUME NEW r \in Requests, Signup(r)
      PROVE  \/ req'[q] = req[q]
             \/ \E i \in Invites : AcceptInvitation(r, i)
             \/ \E e \in Emails : CheckEmail(r, e)
  <2>1. ASSUME NEW e \in Emails, NEW role \in SelfRoles, Register(r, e, role)
        PROVE  req'[q] = req[q]
    <3> DEFINE next == [Idle EXCEPT !.at = "register", !.email = e, !.role = role]
    <3>1. next \in Request /\ next.at = "register"
      BY DEF Request, Steps
    <3>2. Goes(r, next)
      BY <2>1 DEF Register, Begins
    <3> HIDE DEF next
    <3> QED
      BY <3>1, <3>2, <1>1
  <2>2. ASSUME NEW e \in Emails \cup {None}, NEW type \in InviteTypes, CreateInvitation(r, e, type)
        PROVE  req'[q] = req[q]
    <3> DEFINE next == [Idle EXCEPT !.at = "invite", !.email = e, !.role = type]
    <3>1. next \in Request /\ next.at = "invite"
      BY DEF Request, Steps
    <3>2. Goes(r, next)
      BY <2>2 DEF CreateInvitation, Begins
    <3> HIDE DEF next
    <3> QED
      BY <3>1, <3>2, <1>1
  <2>3. ASSUME NEW i \in Invites, NEW to \in {"resend", "delete"},
               Goes(r, [Idle EXCEPT !.at = to, !.from = i])
        PROVE  req'[q] = req[q]
    <3> DEFINE next == [Idle EXCEPT !.at = to, !.from = i]
    <3>1. next \in Request /\ next.at = to
      BY DEF Request, Steps
    <3> HIDE DEF next
    <3> QED
      BY <3>1, <2>3, <1>1 DEF next
  <2>4. ASSUME NEW u \in Users, CommitAccept(r, u) PROVE req'[q] = req[q]
    <3> DEFINE next == [Idle EXCEPT !.at = "issue", !.user = u]
    <3>1. next \in Request /\ next.at = "issue"
      BY DEF Request, Steps
    <3>2. Goes(r, next)
      BY <2>4 DEF CommitAccept
    <3> HIDE DEF next
    <3> QED
      BY <3>1, <3>2, <1>1
  <2>5. CheckPending(r) => req'[q] = req[q]
    BY <1>2 DEF CheckPending, Steps
  <2>6. /\ RefreshToken(r) \/ RemoveInvitation(r) => req'[q] = req[q]
        /\ \A i \in Invites : InsertInvitation(r, i) => req'[q] = req[q]
        /\ \A u \in Users : CommitRegister(r, u) => req'[q] = req[q]
    BY <1>3 DEF RefreshToken, RemoveInvitation, InsertInvitation, CommitRegister
  <2>7. \A i \in Invites : ResendInvitation(r, i) \/ DeleteInvitation(r, i) => req'[q] = req[q]
    BY <2>3 DEF ResendInvitation, DeleteInvitation, Begins
  <2> QED
    BY <1>4, <2>1, <2>2, <2>4, <2>5, <2>6, <2>7 DEF Signup, CreateEmployeeInvitation, InviteTypes
<1>5. ASSUME NEW r \in Requests, Session(r)
      PROVE  req'[q] = req[q] \/ UpdatePassword(r) \/ \E u \in Users : Login(r, u)
  <2>1. ASSUME NEW u \in Users, VerifyEmail(r, u) PROVE req'[q] = req[q]
    <3> DEFINE next == [Idle EXCEPT !.at = "issue", !.user = u]
    <3>1. next \in Request /\ next.at = "issue"
      BY DEF Request, Steps
    <3>2. Goes(r, next)
      BY <2>1 DEF VerifyEmail, Begins
    <3> HIDE DEF next
    <3> QED
      BY <3>1, <3>2, <1>1
  <2>2. ASSUME NEW l \in Links, ResetPassword(r, l) PROVE req'[q] = req[q]
    <3> DEFINE next == [Idle EXCEPT !.at = "reset", !.user = link[l], !.link = l]
    <3>1. link[l] \in Users
      BY <2>2 DEF ResetPassword, ValidLink, BaseInv, TypeOK
    <3>2. next \in Request /\ next.at = "reset"
      BY <3>1 DEF Request, Steps
    <3>3. Goes(r, next)
      BY <2>2 DEF ResetPassword, Begins
    <3> HIDE DEF next
    <3> QED
      BY <3>2, <3>3, <1>1
  <2>3. IncrementTokenVersion(r) \/ MarkUsed(r) => req'[q] = req[q]
    BY <1>2 DEF IncrementTokenVersion, MarkUsed, Steps
  <2>4. SignLogin(r) \/ IssueTokens(r) \/ DeleteForUser(r) => req'[q] = req[q]
    BY <1>3 DEF SignLogin, IssueTokens, DeleteForUser
  <2> QED
    BY <1>5, <2>1, <2>2, <2>3, <2>4 DEF Session
<1>6. ASSUME NEW r \in Requests, Stops(r) PROVE req'[q] = req[q]
  BY <1>1, <1>6 DEF Stops
<1> QED
  BY <1>4, <1>5, <1>6
  DEF Next, vars, InvitationExpires, Logout, ForgotPassword, LinkExpires

(* An acceptance under way has just begun, or has what it read before.     *)
Remembers(q) ==
  /\ req[q].at \in {"loaded", "accept"}
  /\ req'[q].from = req[q].from /\ req'[q].role = req[q].role

LEMMA AcceptsStep ==
  ASSUME BaseInv, [Next]_vars, NEW q \in Requests, req'[q].at \in {"loaded", "accept"}
  PROVE  \/ Remembers(q)
         \/ /\ Open(req'[q].from) /\ req'[q].from \in Invites
            /\ req'[q].role = invite[req'[q].from].type /\ UNCHANGED invite
<1> USE IdleLemma
<1>1. ASSUME NEW r \in Requests, NEW i \in Invites, AcceptInvitation(r, i), req'[q] # req[q]
      PROVE  /\ Open(req'[q].from) /\ req'[q].from \in Invites
             /\ req'[q].role = invite[req'[q].from].type /\ UNCHANGED invite
  <2> DEFINE next == [Idle EXCEPT !.at = "loaded", !.from = i, !.token = invite[i].token,
                                  !.role = invite[i].type, !.email = invite[i].email]
  <2>1. invite[i].token \in 0 .. MaxToken /\ invite[i].type \in InviteTypes
        /\ invite[i].email \in Emails \cup {None}
    BY <1>1 DEF AcceptInvitation, Open, Sent, BaseInv, TypeOK, InviteRow
  <2>2. next \in Request /\ next.from = i /\ next.role = invite[i].type
    BY <2>1 DEF Request, Steps
  <2>3. Goes(r, next) /\ Open(i) /\ UNCHANGED invite
    BY <1>1 DEF AcceptInvitation, Begins
  <2> HIDE DEF next
  <2> QED
    BY <1>1, <2>2, <2>3, GoesLemma DEF BaseInv, TypeOK
<1>2. ASSUME NEW r \in Requests, NEW e \in Emails, CheckEmail(r, e), req'[q] # req[q]
      PROVE  Remembers(q)
  <2> DEFINE mid == [req[r] EXCEPT !.at = "accept"]
             next == [mid EXCEPT !.email = e]
  <2>1. req[r] \in Request /\ req[r].at = "loaded"
    BY <1>2 DEF CheckEmail, At, BaseInv, TypeOK
  <2>2. mid \in Request /\ mid.from = req[r].from /\ mid.role = req[r].role
    BY <2>1 DEF Request, Steps
  <2>3. next \in Request /\ next.from = req[r].from /\ next.role = req[r].role
    BY <2>2 DEF Request
  <2>4. Goes(r, next)
    BY <1>2 DEF CheckEmail
  <2> HIDE DEF next, mid
  <2> QED
    BY <1>2, <2>1, <2>3, <2>4, GoesLemma DEF BaseInv, TypeOK, Remembers
<1>3. ASSUME NEW r \in Requests, NEW u \in Users, Login(r, u) PROVE req'[q] = req[q]
  <2> DEFINE next == [Idle EXCEPT !.at = "login", !.user = u, !.pass = user[u].pass,
                                  !.version = user[u].version]
  <2>1. user[u].pass \in 0 .. MaxPass /\ user[u].version \in 0 .. MaxVersion
    BY <1>3 DEF Login, Created, BaseInv, TypeOK, UserRow
  <2>2. next \in Request /\ next.at = "login"
    BY <2>1 DEF Request, Steps
  <2>3. Goes(r, next)
    BY <1>3 DEF Login, Begins
  <2> HIDE DEF next
  <2> QED
    BY <2>2, <2>3, GoesLemma DEF BaseInv, TypeOK
<1>4. ASSUME NEW r \in Requests, UpdatePassword(r) PROVE req'[q] = req[q]
  <2>1. req[r].user \in Users /\ Created(req[r].user)
    BY <1>4, NoneAssumption DEF UpdatePassword, At, BaseInv, Whole, OwnersExist
  <2> QED
    BY <1>4, <2>1, PasswordLemma DEF BaseInv
<1>5. req'[q] = req[q] => Remembers(q)
  BY DEF Remembers
<1> QED
  BY <1>1, <1>2, <1>3, <1>4, <1>5, RequestsStep DEF Watched

LEMMA SignupInit == Init => SignupInv
  BY IdleLemma DEF Init, SignupInv, EmailsAreUnique, AcceptsMatch, AcceptedIsBacked, Created, Sent

LEMMA EmailsStep == BaseInv /\ [Next]_vars /\ EmailsAreUnique => EmailsAreUnique'
<1> SUFFICES ASSUME BaseInv, [Next]_vars, EmailsAreUnique,
                    NEW u \in Users, NEW v \in Users, u # v,
                    user'[u] # None, user'[v] # None, user'[u].email = user'[v].email
             PROVE  FALSE
  BY DEF EmailsAreUnique, Created
<1>1. ASSUME NEW w \in Users, NEW x \in Users, w # x, user'[x] # None, Enters(w)
      PROVE  user'[w].email # user'[x].email
  <2>1. PICK r \in Requests : CommitRegister(r, w) \/ CommitAccept(r, w)
    BY <1>1 DEF Enters
  <2>2. Insert(r, w) /\ req[r].email \in Emails
    BY <2>1 DEF CommitRegister, CommitAccept, Ends, At, BaseInv, Whole
  <2>3. user'[w].email = req[r].email /\ ~Taken(req[r].email) /\ user'[x] = user[x]
    BY <1>1, <2>2, InsertLemma DEF BaseInv
  <2> QED
    BY <1>1, <2>3 DEF Taken, Created
<1>2. CASE Created(u) /\ Created(v)
  BY <1>2, UsersStep DEF Kept, EmailsAreUnique
<1>3. CASE ~Created(u)
  BY <1>1, <1>3, UsersStep
<1>4. CASE ~Created(v)
  BY <1>1, <1>4, UsersStep
<1> QED
  BY <1>2, <1>3, <1>4

LEMMA AcceptsMatchStep == BaseInv /\ [Next]_vars /\ AcceptsMatch => AcceptsMatch'
<1> SUFFICES ASSUME BaseInv, [Next]_vars, AcceptsMatch,
                    NEW q \in Requests, req'[q].at \in {"loaded", "accept"}
             PROVE  /\ invite'[req'[q].from] # None
                    /\ invite'[req'[q].from] # Deleted =>
                         invite'[req'[q].from].type = req'[q].role
  BY DEF AcceptsMatch, Sent
<1>1. CASE Remembers(q)
  <2> DEFINE i == req[q].from
  <2>1. i \in Invites /\ req'[q].from = i /\ req'[q].role = req[q].role
    BY <1>1 DEF Remembers, BaseInv, Whole
  <2>2. invite[i] # None /\ (invite[i] # Deleted => invite[i].type = req[q].role)
    BY <1>1 DEF Remembers, AcceptsMatch, Sent
  <2> HIDE DEF i
  <2>3. CASE Untouched(i)
    BY <2>1, <2>2, <2>3 DEF Untouched
  <2>4. CASE Changes(i) \/ \E r \in Requests, u \in Users : AcceptedBy(i, r, u)
    BY <2>1, <2>2, <2>4, InviteRows DEF Changes, AcceptedBy, Sent
  <2>5. CASE invite'[i] = Deleted
    BY <2>1, <2>5, DeletedAssumption
  <2>6. ~Arrives(i)
    BY <2>2 DEF Arrives
  <2> QED
    BY <2>1, <2>3, <2>4, <2>5, <2>6, InvitesStep
<1>2. CASE /\ Open(req'[q].from) /\ req'[q].from \in Invites
           /\ req'[q].role = invite[req'[q].from].type /\ UNCHANGED invite
  BY <1>2 DEF Open, Sent
<1> QED
  BY <1>1, <1>2, AcceptsStep

LEMMA AcceptedStep ==
  BaseInv /\ [Next]_vars /\ AcceptsMatch /\ AcceptedIsBacked => AcceptedIsBacked'
<1> SUFFICES ASSUME BaseInv, [Next]_vars, AcceptsMatch, AcceptedIsBacked,
                    NEW i \in Invites, invite'[i] \notin {None, Deleted}, invite'[i].accepted
             PROVE  \E u \in Users : /\ user'[u] # None
                                     /\ user'[u].from = i /\ user'[u].role = invite'[i].type
                                     /\ invite'[i].type = "tenant" => invite'[i].tenant = u
  BY DEF AcceptedIsBacked, Created, Sent
<1>1. CASE Untouched(i) \/ Changes(i)
  <2>1. /\ Sent(i) /\ invite[i].accepted
        /\ invite'[i].type = invite[i].type /\ invite'[i].tenant = invite[i].tenant
    BY <1>1 DEF Untouched, Changes, Sent
  <2>2. PICK u \in Users : /\ Created(u) /\ user[u].from = i /\ user[u].role = invite[i].type
                           /\ invite[i].type = "tenant" => invite[i].tenant = u
    BY <2>1 DEF AcceptedIsBacked
  <2> QED
    BY <2>1, <2>2, UsersStep DEF Kept
<1>2. ASSUME NEW r \in Requests, NEW u \in Users, AcceptedBy(i, r, u)
      PROVE  /\ user'[u] # None /\ user'[u].from = i /\ user'[u].role = invite'[i].type
             /\ invite'[i].type = "tenant" => invite'[i].tenant = u
  <2>1. CommitAccept(r, u) /\ i = req[r].from /\ Sent(i)
    BY <1>2 DEF AcceptedBy
  <2>2. Insert(r, u) /\ req[r].at = "accept" /\ req[r].email \in Emails
    BY <2>1 DEF CommitAccept, At, BaseInv, Whole
  <2>3. invite[i].type = req[r].role
    BY <2>1, <2>2 DEF AcceptsMatch
  <2>4. user'[u] # None /\ user'[u].from = i /\ user'[u].role = req[r].role
    BY <2>1, <2>2, InsertLemma DEF BaseInv
  <2> QED
    BY <1>2, <2>3, <2>4 DEF AcceptedBy
<1> QED
  BY <1>1, <1>2, InvitesStep DEF Arrives

LEMMA SignupStep == BaseInv /\ SignupInv /\ [Next]_vars => SignupInv'
  BY EmailsStep, AcceptsMatchStep, AcceptedStep DEF SignupInv

(* No two accounts have one address (users.email is UNIQUE, whatever the   *)
(* checks before the insert have seen).                                    *)
THEOREM NoEmailTwice == Spec => []EmailsAreUnique
<1>1. SignupInv => EmailsAreUnique
  BY DEF SignupInv
<1> QED
  BY <1>1, BaseInit, BaseStep, SignupInit, SignupStep, PTL DEF Spec

(* An accepted invitation has its account, however often it was resent,    *)
(* deleted or accepted again meanwhile.                                    *)
THEOREM EveryAcceptedIsBacked == Spec => []AcceptedIsBacked
<1>1. SignupInv => AcceptedIsBacked
  BY DEF SignupInv
<1> QED
  BY <1>1, BaseInit, BaseStep, SignupInit, SignupStep, PTL DEF Spec

-------------------------------------------------------------------------------
(* Sessions.                                                               *)

LEMMA WritesSettled ==
  ASSUME BaseInv, [Next]_vars
  PROVE  UNCHANGED settled \/ \E r \in Requests : IncrementTokenVersion(r)
<1>1. ASSUME NEW r \in Requests, Signup(r) PROVE UNCHANGED settled
  BY <1>1 DEF Signup, Register, CommitRegister, CreateInvitation, CreateEmployeeInvitation, CheckPending, InsertInvitation,
     AcceptInvitation, ResendInvitation, DeleteInvitation, CheckEmail, CommitAccept,
     RefreshToken, RemoveInvitation
<1>2. ASSUME NEW r \in Requests, Session(r)
      PROVE  UNCHANGED settled \/ IncrementTokenVersion(r)
  BY <1>2 DEF Session, Login, VerifyEmail, SignLogin, IssueTokens, ResetPassword,
     UpdatePassword, MarkUsed, DeleteForUser
<1> QED
  BY <1>1, <1>2 DEF Next, vars, Stops, InvitationExpires, Logout, ForgotPassword, LinkExpires

LEMMA WritesCookies ==
  ASSUME BaseInv, [Next]_vars
  PROVE  \/ UNCHANGED cookies
         \/ \E r \in Requests, u \in Users : CommitRegister(r, u)
         \/ \E r \in Requests : SignLogin(r) \/ IssueTokens(r)
<1>1. ASSUME NEW r \in Requests, Signup(r)
      PROVE  UNCHANGED cookies \/ \E u \in Users : CommitRegister(r, u)
  BY <1>1 DEF Signup, Register, CreateInvitation, CreateEmployeeInvitation, CheckPending, InsertInvitation,
     AcceptInvitation, ResendInvitation, DeleteInvitation, CheckEmail, CommitAccept,
     RefreshToken, RemoveInvitation
<1>2. ASSUME NEW r \in Requests, Session(r)
      PROVE  UNCHANGED cookies \/ SignLogin(r) \/ IssueTokens(r)
  BY <1>2 DEF Session, Login, VerifyEmail, ResetPassword, UpdatePassword,
     IncrementTokenVersion, MarkUsed, DeleteForUser
<1> QED
  BY <1>1, <1>2 DEF Next, vars, Stops, InvitationExpires, Logout, ForgotPassword, LinkExpires

(* An account is settled on a password only together with a new version.   *)
LEMMA SettledStep ==
  ASSUME BaseInv, SettledIsWritten, [Next]_vars, NEW u \in Users
  PROVE  \/ settled'[u] = settled[u]
         \/ /\ Created(u) /\ user'[u].version > user[u].version
            /\ user'[u].pass = user[u].pass /\ settled'[u] <= user[u].pass
<1>1. CASE UNCHANGED settled
  BY <1>1
<1>2. ASSUME NEW r \in Requests, IncrementTokenVersion(r), settled'[u] # settled[u]
      PROVE  /\ Created(u) /\ user'[u].version > user[u].version
             /\ user'[u].pass = user[u].pass /\ settled'[u] <= user[u].pass
  <2>1. /\ req[r].at = "written" /\ NewVersion(req[r].user)
        /\ settled' = [settled EXCEPT ![req[r].user] =
                         IF @ < req[r].pass THEN req[r].pass ELSE @]
    BY <1>2 DEF IncrementTokenVersion, Moves, At
  <2>2. req[r].user \in Users /\ Created(req[r].user)
    BY <2>1, NoneAssumption DEF BaseInv, Whole, OwnersExist
  <2>3. u = req[r].user /\ settled'[u] = req[r].pass
    BY <1>2, <2>1, <2>2 DEF BaseInv, TypeOK
  <2>4. req[r].pass <= user[u].pass
    BY <2>1, <2>3 DEF SettledIsWritten
  <2>5. /\ user[u] \in UserRow /\ user'[u].pass = user[u].pass
        /\ user'[u].version = user[u].version + 1
    BY <2>1, <2>2, <2>3, VersionLemma DEF BaseInv
  <2>6. user[u].version \in Int
    BY <2>5 DEF UserRow
  <2> QED
    BY <2>2, <2>3, <2>4, <2>5, <2>6
<1> QED
  BY <1>1, <1>2, WritesSettled

(* A log-in and a password written, as the request has read them.          *)
LEMMA LoginReads ==
  ASSUME BaseInv, NEW q \in Requests, NEW r \in Requests, NEW u \in Users, Login(r, u), req'[q] # req[q]
  PROVE  /\ Created(u) /\ req'[q].at = "login" /\ req'[q].user = u /\ req'[q].pass = user[u].pass
         /\ req'[q].version = user[u].version /\ UNCHANGED <<user, settled>>
<1> DEFINE next == [Idle EXCEPT !.at = "login", !.user = u, !.pass = user[u].pass,
                                !.version = user[u].version]
<1>1. user[u].pass \in 0 .. MaxPass /\ user[u].version \in 0 .. MaxVersion
  BY DEF Login, Created, BaseInv, TypeOK, UserRow
<1>2. /\ next \in Request /\ next.at = "login" /\ next.user = u
      /\ next.pass = user[u].pass /\ next.version = user[u].version
  BY <1>1, IdleLemma DEF Request, Steps
<1>3. Goes(r, next) /\ Created(u) /\ UNCHANGED <<user, settled>>
  BY DEF Login, Begins
<1> HIDE DEF next
<1> QED
  BY <1>2, <1>3, GoesLemma DEF BaseInv, TypeOK

LEMMA PasswordReads ==
  ASSUME BaseInv, NEW q \in Requests, NEW r \in Requests, UpdatePassword(r), req'[q] # req[q]
  PROVE  req'[q].at = "written" /\ req'[q].pass = user'[req'[q].user].pass
<1>1. req[r].user \in Users /\ Created(req[r].user)
  BY NoneAssumption DEF UpdatePassword, At, BaseInv, Whole, OwnersExist
<1> QED
  BY <1>1, PasswordLemma DEF BaseInv

(* A request that keeps a password or a version has just read it, or has   *)
(* it from before.                                                         *)
LEMMA SessionReadsStep ==
  ASSUME BaseInv, [Next]_vars, NEW q \in Requests, req'[q].at \in {"login", "written"}
  PROVE  \/ req'[q] = req[q] /\ req[q].user \in Users /\ Created(req[q].user)
         \/ /\ req'[q].at = "written" /\ req'[q].pass = user'[req'[q].user].pass
         \/ \E u \in Users :
              /\ Created(u) /\ req'[q].at = "login" /\ req'[q].user = u
              /\ req'[q].pass = user[u].pass /\ req'[q].version = user[u].version
              /\ UNCHANGED <<user, settled>>
<1> USE IdleLemma
<1>1. CASE req'[q] = req[q]
  BY <1>1, NoneAssumption DEF BaseInv, Whole, OwnersExist
<1>2. ASSUME NEW r \in Requests, NEW i \in Invites, AcceptInvitation(r, i) PROVE req'[q] = req[q]
  <2> DEFINE next == [Idle EXCEPT !.at = "loaded", !.from = i, !.token = invite[i].token,
                                  !.role = invite[i].type, !.email = invite[i].email]
  <2>1. invite[i].token \in 0 .. MaxToken /\ invite[i].type \in InviteTypes
        /\ invite[i].email \in Emails \cup {None}
    BY <1>2 DEF AcceptInvitation, Open, Sent, BaseInv, TypeOK, InviteRow
  <2>2. next \in Request /\ next.at = "loaded"
    BY <2>1 DEF Request, Steps
  <2>3. Goes(r, next)
    BY <1>2 DEF AcceptInvitation, Begins
  <2> HIDE DEF next
  <2> QED
    BY <2>2, <2>3, GoesLemma DEF BaseInv, TypeOK
<1>3. ASSUME NEW r \in Requests, NEW e \in Emails, CheckEmail(r, e) PROVE req'[q] = req[q]
  <2> DEFINE mid == [req[r] EXCEPT !.at = "accept"]
             next == [mid EXCEPT !.email = e]
  <2>1. req[r] \in Request
    BY DEF BaseInv, TypeOK
  <2>2. mid \in Request /\ mid.at = "accept"
    BY <2>1 DEF Request, Steps
  <2>3. next \in Request /\ next.at = "accept"
    BY <2>2 DEF Request
  <2>4. Goes(r, next)
    BY <1>3 DEF CheckEmail
  <2> HIDE DEF next, mid
  <2> QED
    BY <2>3, <2>4, GoesLemma DEF BaseInv, TypeOK
<1>4. CASE \E r \in Requests, u \in Users : Login(r, u)
  BY <1>1, <1>4, LoginReads
<1>5. CASE \E r \in Requests : UpdatePassword(r)
  BY <1>1, <1>5, PasswordReads
<1> QED
  BY <1>1, <1>2, <1>3, <1>4, <1>5, RequestsStep DEF Watched

(* The numbers a row, a request and a cookie hold.                         *)
LEMMA Numbers ==
  ASSUME TypeOK
  PROVE  /\ \A u \in Users : Created(u) => user[u].pass \in Nat /\ user[u].version \in Nat
         /\ \A u \in Users : settled[u] \in Nat
         /\ \A q \in Requests : req[q].pass \in Nat /\ req[q].version \in Nat
         /\ \A c \in cookies : c.user \in Users /\ c.pass \in Nat /\ c.version \in Nat
  BY BoundAssumption DEF TypeOK, Created, UserRow, Request, Cookie

LEMMA SessionInit == Init => SessionInv
  BY IdleLemma
  DEF Init, SessionInv, SettledIsWritten, VersionsArePast, LoginsAreCurrent, OldPasswordsAreOut, Created

LEMMA SettledIsWrittenStep == BaseInv /\ [Next]_vars /\ SettledIsWritten => SettledIsWritten'
<1> SUFFICES ASSUME BaseInv, [Next]_vars, SettledIsWritten PROVE SettledIsWritten'
  OBVIOUS
<1>1. BaseInv'
  BY BaseStep
<1>2. ASSUME NEW u \in Users
      PROVE  IF user'[u] # None THEN settled'[u] <= user'[u].pass ELSE settled'[u] = 0
  <2>1. CASE Created(u)
    <3>1. Kept(u) /\ settled[u] <= user[u].pass
      BY <2>1, UsersStep DEF SettledIsWritten
    <3>2. user[u].pass \in Nat /\ settled[u] \in Nat
      BY <2>1, Numbers DEF BaseInv
    <3>3. user'[u] # None /\ user'[u].pass >= user[u].pass /\ user'[u].pass \in Nat /\ settled'[u] \in Nat
      BY <3>1, <1>1, BoundAssumption DEF Kept, BaseInv, TypeOK, UserRow
    <3> QED
      BY <3>1, <3>2, <3>3, SettledStep
  <2>2. CASE ~Created(u)
    <3>1. settled'[u] = 0
      BY <2>2, SettledStep DEF SettledIsWritten
    <3>2. user'[u] # None => user'[u].pass \in Nat
      BY <1>1, BoundAssumption DEF BaseInv, TypeOK, UserRow
    <3> QED
      BY <3>1, <3>2
  <2> QED
    BY <2>1, <2>2
<1>3. ASSUME NEW q \in Requests, req'[q].at = "written"
      PROVE  req'[q].pass <= user'[req'[q].user].pass
  <2>1. CASE req'[q] = req[q] /\ req[q].user \in Users /\ Created(req[q].user)
    <3>1. req[q].pass <= user[req[q].user].pass
      BY <1>3, <2>1 DEF SettledIsWritten
    <3>2. user'[req[q].user].pass >= user[req[q].user].pass /\ user'[req[q].user] # None
      BY <2>1, UsersStep DEF Kept
    <3>3. /\ req[q].pass \in Nat /\ user[req[q].user].pass \in Nat
          /\ user'[req[q].user].pass \in Nat
      BY <1>1, <2>1, <3>2, Numbers, BoundAssumption DEF BaseInv, TypeOK, UserRow
    <3> QED
      BY <2>1, <3>1, <3>2, <3>3
  <2>2. CASE req'[q].pass = user'[req'[q].user].pass
    <3>1. req'[q].pass \in Nat
      BY <1>1, BoundAssumption DEF BaseInv, TypeOK, Request
    <3> QED
      BY <2>2, <3>1
  <2> QED
    BY <1>3, <2>1, <2>2, SessionReadsStep
<1> QED
  BY <1>2, <1>3 DEF SettledIsWritten, Created

(* Where a cookie comes from.                                              *)
NewCookie(c) ==
  \/ \E r \in Requests : /\ req[r].at = "login" /\ c.user = req[r].user
                         /\ c.pass = req[r].pass /\ c.version = req[r].version
  \/ c.pass = user[c.user].pass /\ c.version = user[c.user].version

LEMMA CookiesStep ==
  ASSUME BaseInv, [Next]_vars, NEW c \in cookies'
  PROVE  \/ c \in cookies
         \/ /\ c.user \in Users /\ Created(c.user)
            /\ NewCookie(c) /\ UNCHANGED <<user, settled>>
         \/ /\ c.user \in Users /\ ~Created(c.user) /\ UNCHANGED settled
            /\ c.pass = 0 /\ c.version = 0 /\ user'[c.user].version = 0
<1>1. CASE UNCHANGED cookies
  BY <1>1
<1>2. ASSUME NEW r \in Requests, NEW u \in Users, CommitRegister(r, u), c \notin cookies
      PROVE  /\ c.user \in Users /\ ~Created(c.user) /\ UNCHANGED settled
             /\ c.pass = 0 /\ c.version = 0 /\ user'[c.user].version = 0
  <2>1. c = [user |-> u, pass |-> 0, version |-> 0] /\ UNCHANGED settled /\ Insert(r, u)
    BY <1>2 DEF CommitRegister
  <2>2. req[r].email \in Emails
    BY <1>2 DEF CommitRegister, Ends, At, BaseInv, Whole
  <2> QED
    BY <2>1, <2>2, InsertLemma DEF BaseInv
<1>3. ASSUME NEW r \in Requests, SignLogin(r), c \notin cookies
      PROVE  /\ c.user \in Users /\ Created(c.user)
             /\ NewCookie(c) /\ UNCHANGED <<user, settled>>
  <2>1. /\ c = [user |-> req[r].user, pass |-> req[r].pass, version |-> req[r].version]
        /\ UNCHANGED <<user, settled>> /\ req[r].at = "login"
    BY <1>3 DEF SignLogin, Ends, At
  <2>2. req[r].user \in Users /\ Created(req[r].user)
    BY <2>1, NoneAssumption DEF BaseInv, Whole, OwnersExist
  <2> QED
    BY <2>1, <2>2 DEF NewCookie
<1>4. ASSUME NEW r \in Requests, IssueTokens(r), c \notin cookies
      PROVE  /\ c.user \in Users /\ Created(c.user)
             /\ NewCookie(c) /\ UNCHANGED <<user, settled>>
  <2>1. c = CookieOf(req[r].user) /\ UNCHANGED <<user, settled>> /\ req[r].at = "issue"
    BY <1>4 DEF IssueTokens, Ends, At
  <2>2. req[r].user \in Users /\ Created(req[r].user)
    BY <2>1, NoneAssumption DEF BaseInv, Whole, OwnersExist
  <2> QED
    BY <2>1, <2>2 DEF NewCookie, CookieOf
<1> QED
  BY <1>1, <1>2, <1>3, <1>4, WritesCookies

LEMMA VersionsArePastStep == BaseInv /\ [Next]_vars /\ VersionsArePast => VersionsArePast'
<1> SUFFICES ASSUME BaseInv, [Next]_vars, VersionsArePast PROVE VersionsArePast'
  OBVIOUS
<1>1. BaseInv'
  BY BaseStep
<1>2. ASSUME NEW u \in Users, Created(u)
      PROVE  user[u].version \in Nat /\ user'[u].version \in Nat /\ user'[u].version >= user[u].version
  <2>1. Kept(u)
    BY <1>2, UsersStep
  <2> QED
    BY <1>1, <1>2, <2>1, Numbers, BoundAssumption DEF Kept, BaseInv, TypeOK, UserRow
<1>3. ASSUME NEW c \in cookies' PROVE c.version <= user'[c.user].version
  <2>1. CASE c \in cookies
    <3>1. c.user \in Users /\ Created(c.user) /\ c.version \in Nat /\ c.version <= user[c.user].version
      BY <2>1, Numbers DEF BaseInv, OwnersExist, VersionsArePast
    <3> QED
      BY <1>2, <3>1
  <2>2. CASE c.user \in Users /\ Created(c.user) /\ NewCookie(c) /\ UNCHANGED user
    BY <1>2, <2>2 DEF NewCookie, VersionsArePast
  <2>3. CASE c.version = 0 /\ user'[c.user].version = 0
    BY <2>3
  <2> QED
    BY <2>1, <2>2, <2>3, CookiesStep
<1>4. ASSUME NEW q \in Requests, req'[q].at = "login"
      PROVE  req'[q].version <= user'[req'[q].user].version
  <2>1. CASE req'[q] = req[q] /\ req[q].user \in Users /\ Created(req[q].user)
    <3>1. req[q].version <= user[req[q].user].version /\ req[q].version \in Nat
      BY <1>4, <2>1, Numbers DEF VersionsArePast, BaseInv
    <3> QED
      BY <1>2, <2>1, <3>1
  <2>2. ASSUME NEW u \in Users, Created(u), req'[q].user = u, req'[q].version = user[u].version,
               UNCHANGED user
        PROVE  req'[q].version <= user'[req'[q].user].version
    BY <1>2, <2>2
  <2> QED
    BY <1>4, <2>1, <2>2, SessionReadsStep
<1> QED
  BY <1>3, <1>4 DEF VersionsArePast

LEMMA LoginsAreCurrentStep ==
  BaseInv /\ [Next]_vars /\ SettledIsWritten /\ VersionsArePast /\ LoginsAreCurrent
    => LoginsAreCurrent'
<1> SUFFICES ASSUME BaseInv, [Next]_vars, SettledIsWritten, VersionsArePast, LoginsAreCurrent,
                    NEW q \in Requests, req'[q].at = "login",
                    req'[q].version = user'[req'[q].user].version
             PROVE  req'[q].pass >= settled'[req'[q].user]
  BY DEF LoginsAreCurrent
<1>1. CASE req'[q] = req[q] /\ req[q].user \in Users /\ Created(req[q].user)
  <2> DEFINE u == req[q].user
  <2>1. req[q].version <= user[u].version /\ req[q].version \in Nat /\ user[u].version \in Nat
    BY <1>1, Numbers DEF VersionsArePast, BaseInv
  <2>2. user'[u].version >= user[u].version
    BY <1>1, UsersStep DEF Kept
  <2>3. user'[u].version = user[u].version
    BY <1>1, <2>1, <2>2
  <2>4. settled'[u] = settled[u]
    BY <1>1, <2>1, <2>3, SettledStep
  <2>5. req[q].pass >= settled[u]
    BY <1>1, <2>3 DEF LoginsAreCurrent
  <2> QED
    BY <1>1, <2>4, <2>5
<1>2. ASSUME NEW u \in Users, Created(u), req'[q].user = u, req'[q].pass = user[u].pass,
             UNCHANGED settled
      PROVE  req'[q].pass >= settled'[req'[q].user]
  <2>1. settled[u] <= user[u].pass /\ settled[u] \in Nat /\ user[u].pass \in Nat
    BY <1>2, Numbers DEF SettledIsWritten, BaseInv
  <2> QED
    BY <1>2, <2>1
<1> QED
  BY <1>1, <1>2, SessionReadsStep

LEMMA OldPasswordsStep ==
  BaseInv /\ [Next]_vars /\ SessionInv => OldPasswordsAreOut'
<1> SUFFICES ASSUME BaseInv, [Next]_vars, SessionInv,
                    NEW c \in cookies', user'[c.user].version = c.version
             PROVE  c.pass >= settled'[c.user]
  BY DEF OldPasswordsAreOut, Refreshes
<1> USE DEF SessionInv
<1>1. CASE c \in cookies
  <2> DEFINE u == c.user
  <2>1. /\ u \in Users /\ Created(u) /\ c.version \in Nat /\ user[u].version \in Nat
        /\ c.version <= user[u].version
    BY <1>1, Numbers DEF BaseInv, OwnersExist, VersionsArePast
  <2>2. user'[u].version >= user[u].version
    BY <2>1, UsersStep DEF Kept
  <2>3. user'[u].version = user[u].version
    BY <2>1, <2>2
  <2>4. settled'[u] = settled[u]
    BY <2>1, <2>3, SettledStep
  <2>5. c.pass >= settled[u]
    BY <1>1, <2>3 DEF OldPasswordsAreOut, Refreshes
  <2> QED
    BY <2>4, <2>5
<1>2. CASE c.user \in Users /\ Created(c.user) /\ NewCookie(c) /\ UNCHANGED <<user, settled>>
  <2>1. /\ settled[c.user] <= user[c.user].pass
        /\ settled[c.user] \in Nat /\ user[c.user].pass \in Nat
    BY <1>2, Numbers DEF SettledIsWritten, BaseInv
  <2>2. CASE c.pass = user[c.user].pass
    BY <1>2, <2>1, <2>2
  <2>3. ASSUME NEW r \in Requests, req[r].at = "login", c.user = req[r].user,
               c.pass = req[r].pass, c.version = req[r].version
        PROVE  c.pass >= settled'[c.user]
    BY <1>2, <2>3 DEF LoginsAreCurrent
  <2> QED
    BY <1>2, <2>2, <2>3 DEF NewCookie
<1>3. CASE c.user \in Users /\ ~Created(c.user) /\ UNCHANGED settled /\ c.pass = 0
  BY <1>3 DEF SettledIsWritten
<1> QED
  BY <1>1, <1>2, <1>3, CookiesStep

LEMMA SessionStep == BaseInv /\ SessionInv /\ [Next]_vars => SessionInv'
  BY SettledIsWrittenStep, VersionsArePastStep, LoginsAreCurrentStep, OldPasswordsStep
  DEF SessionInv

(* A session that was opened on a password older than the last completed   *)
(* reset is not refreshed, even if its log-in was under way all the while. *)
THEOREM OldPasswordsStayOut == Spec => []OldPasswordsAreOut
<1>1. SessionInv => OldPasswordsAreOut
  BY DEF SessionInv
<1> QED
  BY <1>1, BaseInit, BaseStep, SessionInit, SessionStep, PTL DEF Spec

===============================================================================
