------------------------------- MODULE Accounts -------------------------------
(***************************************************************************)
(* How accounts come to be (registration, invitations) and how long their  *)
(* sessions last (refresh cookies, log-out, password reset).  A request    *)
(* reads, hashes a password and writes with other requests in between, and *)
(* may stop after any statement; only the transaction that creates an      *)
(* account is atomic.                                                      *)
(*                                                                         *)
(* Passwords are numbered in the order in which they are written, tokens   *)
(* of an invitation in the order in which they replace each other.  A      *)
(* tenant's row in tenants is inserted with its user and never deleted, so *)
(* one record stands for both (and createTenant finds none to add).  A     *)
(* reset link that is used, expired or deleted is not found any more: all  *)
(* three are Deleted.                                                      *)
(* Access tokens, ownership checks and plan limits, the verification of    *)
(* e-mail addresses and the mails themselves are left out.                 *)
(***************************************************************************)
EXTENDS Integers, FiniteSets

CONSTANTS
  Users,       \* identifiers of accounts
  Emails,      \* addresses
  Invites,     \* identifiers of invitations
  Links,       \* password-reset links
  Requests,    \* requests under way at once
  None,        \* no account, no address, no invitation; a row not yet inserted
  Deleted,     \* a row that is no more
  MaxPass,     \* bound: passwords written to one account after its first
  MaxVersion,  \* bound: token_version
  MaxToken     \* bound: tokens of one invitation after its first

ASSUME BoundAssumption == MaxPass \in Nat /\ MaxVersion \in Nat /\ MaxToken \in Nat

VARIABLES
  user,     \* users (and tenants)
  invite,   \* tenant_invitations
  link,     \* password_reset_tokens
  cookies,  \* every refresh token that was ever handed out
  settled,  \* history: the latest password whose reset has ended the old sessions
  req       \* what each request has read

vars == <<user, invite, link, cookies, settled, req>>

SelfRoles   == {"tenant", "landlord"}
InviteTypes == {"tenant", "employee"}
Steps == {"idle", "register", "invite", "insert", "loaded", "accept", "issue",
          "resend", "delete", "login", "reset", "written", "bumped", "marked"}

UserRow   == [email : Emails, role : SelfRoles \cup InviteTypes, from : Invites \cup {None},
              pass : 0 .. MaxPass, version : 0 .. MaxVersion]
InviteRow == [email : Emails \cup {None}, type : InviteTypes, token : 0 .. MaxToken,
              live : BOOLEAN, accepted : BOOLEAN, tenant : Users \cup {None}]
Cookie    == [user : Users, pass : 0 .. MaxPass, version : 0 .. MaxVersion]
Request   == [at : Steps, user : Users \cup {None}, email : Emails \cup {None},
              role : SelfRoles \cup InviteTypes, from : Invites \cup {None}, token : 0 .. MaxToken,
              link : Links \cup {None}, pass : 0 .. MaxPass, version : 0 .. MaxVersion]

ASSUME NoneAssumption    == None \notin Users \cup Emails \cup Invites \cup Links \cup UserRow
ASSUME DeletedAssumption == Deleted \notin Users \cup {None} /\ InviteRow \cap {None, Deleted} = {}

TypeOK ==
  /\ user    \in [Users -> UserRow \cup {None}]
  /\ invite  \in [Invites -> InviteRow \cup {None, Deleted}]
  /\ link    \in [Links -> Users \cup {None, Deleted}]
  /\ cookies \in SUBSET Cookie
  /\ settled \in [Users -> 0 .. MaxPass]
  /\ req     \in [Requests -> Request]

Idle == [at |-> "idle", user |-> None, email |-> None, role |-> "tenant", from |-> None,
         token |-> 0, link |-> None, pass |-> 0, version |-> 0]

Init ==
  /\ user    = [u \in Users |-> None]
  /\ invite  = [i \in Invites |-> None]
  /\ link    = [l \in Links |-> None]
  /\ cookies = {}
  /\ settled = [u \in Users |-> 0]
  /\ req     = [r \in Requests |-> Idle]

-------------------------------------------------------------------------------
(* What the queries answer.                                                *)

Created(u)   == user[u] # None
Taken(e)     == \E u \in Users : Created(u) /\ user[u].email = e
Sent(i)      == invite[i] \notin {None, Deleted}
Open(i)      == Sent(i) /\ ~invite[i].accepted
Pending(e)   == \E i \in Invites : Open(i) /\ invite[i].live /\ invite[i].email = e
ValidLink(l) == link[l] \notin {None, Deleted}
Refreshes(c) == user[c.user].version = c.version

CookieOf(u) == [user |-> u, pass |-> user[u].pass, version |-> user[u].version]

(* A request moves on to its next statement, or ends.                      *)
Goes(r, next) == req' = [req EXCEPT ![r] = next]
At(r, step)   == req[r].at = step
Begins(r, next) == At(r, "idle") /\ Goes(r, next)
Moves(r, from, to) == At(r, from) /\ Goes(r, [req[r] EXCEPT !.at = to])
Ends(r, from) == At(r, from) /\ Goes(r, Idle)

(* The row a request inserts: users.email is unique.                       *)
Insert(r, u) ==
  /\ ~Created(u)
  /\ ~Taken(req[r].email)
  /\ user' = [user EXCEPT ![u] = [email |-> req[r].email, role |-> req[r].role,
                                  from |-> req[r].from, pass |-> 0, version |-> 0]]

-------------------------------------------------------------------------------
(* Registration.                                                           *)

Register(r, e, role) ==
  /\ ~Taken(e)
  /\ Begins(r, [Idle EXCEPT !.at = "register", !.email = e, !.role = role])
  /\ UNCHANGED <<user, invite, link, cookies, settled>>

CommitRegister(r, u) ==
  /\ Ends(r, "register")
  /\ Insert(r, u)
  /\ cookies' = cookies \cup {[user |-> u, pass |-> 0, version |-> 0]}
  /\ UNCHANGED <<invite, link, settled>>

-------------------------------------------------------------------------------
(* Invitations; one without an address is sent by text.                    *)

CreateInvitation(r, e, type) ==
  /\ ~Taken(e)
  /\ Begins(r, [Idle EXCEPT !.at = "invite", !.email = e, !.role = type])
  /\ UNCHANGED <<user, invite, link, cookies, settled>>

(* A team member's: the same checks, insert and messages, another type.    *)
CreateEmployeeInvitation(r, e) == CreateInvitation(r, e, "employee")

CheckPending(r) ==
  /\ ~(req[r].email # None /\ Pending(req[r].email))
  /\ Moves(r, "invite", "insert")
  /\ UNCHANGED <<user, invite, link, cookies, settled>>

InsertInvitation(r, i) ==
  /\ Ends(r, "insert")
  /\ invite[i] = None
  /\ invite' = [invite EXCEPT ![i] = [email |-> req[r].email, type |-> req[r].role, token |-> 0,
                                      live |-> TRUE, accepted |-> FALSE, tenant |-> None]]
  /\ UNCHANGED <<user, link, cookies, settled>>

InvitationExpires(i) ==
  /\ Sent(i) /\ invite[i].live
  /\ invite' = [invite EXCEPT ![i].live = FALSE]
  /\ UNCHANGED <<user, link, cookies, settled, req>>

(* The invitee follows the current link.                                   *)
AcceptInvitation(r, i) ==
  /\ Open(i) /\ invite[i].live
  /\ Begins(r, [Idle EXCEPT !.at = "loaded", !.from = i, !.token = invite[i].token,
                            !.role = invite[i].type, !.email = invite[i].email])
  /\ UNCHANGED <<user, invite, link, cookies, settled>>

(* The form's address goes before the invitation's.                        *)
CheckEmail(r, e) ==
  /\ ~Taken(e)
  /\ At(r, "loaded")
  /\ Goes(r, [req[r] EXCEPT !.at = "accept", !.email = e])
  /\ UNCHANGED <<user, invite, link, cookies, settled>>

(* The invitation is found again by its token: one that was resent or      *)
(* deleted meanwhile is not marked, and the account is created all the     *)
(* same.                                                                   *)
Accepted(r, u) ==
  LET i == req[r].from
  IN  IF Sent(i) /\ invite[i].token = req[r].token
      THEN [invite EXCEPT ![i].accepted = TRUE,
                          ![i].tenant = IF req[r].role = "tenant" THEN u ELSE None]
      ELSE invite

(* Mutation: the invitation is marked although the insert has failed.      *)
CommitAcceptAnyway(r, u) ==
  /\ At(r, "accept")
  /\ IF Taken(req[r].email) THEN ~Created(u) /\ UNCHANGED user ELSE Insert(r, u)
  /\ invite' = Accepted(r, u)
  /\ Goes(r, [Idle EXCEPT !.at = "issue", !.user = u])
  /\ UNCHANGED <<link, cookies, settled>>

CommitAccept(r, u) ==
  /\ At(r, "accept")
  /\ Insert(r, u)
  /\ invite' = Accepted(r, u)
  /\ Goes(r, [Idle EXCEPT !.at = "issue", !.user = u])
  /\ UNCHANGED <<link, cookies, settled>>

ResendInvitation(r, i) ==
  /\ Open(i)
  /\ Begins(r, [Idle EXCEPT !.at = "resend", !.from = i])
  /\ UNCHANGED <<user, invite, link, cookies, settled>>

RefreshToken(r) ==
  LET i == req[r].from
  IN  /\ Ends(r, "resend")
      /\ Sent(i) => invite[i].token < MaxToken
      /\ invite' = IF Sent(i) THEN [invite EXCEPT ![i].token = @ + 1, ![i].live = TRUE] ELSE invite
      /\ UNCHANGED <<user, link, cookies, settled>>

DeleteInvitation(r, i) ==
  /\ Open(i)
  /\ Begins(r, [Idle EXCEPT !.at = "delete", !.from = i])
  /\ UNCHANGED <<user, invite, link, cookies, settled>>

RemoveInvitation(r) ==
  /\ Ends(r, "delete")
  /\ invite' = [invite EXCEPT ![req[r].from] = Deleted]
  /\ UNCHANGED <<user, link, cookies, settled>>

-------------------------------------------------------------------------------
(* Sessions.  A refresh is not an action: the token it hands out is equal  *)
(* to the one it was given (Refreshes).                                    *)

Login(r, u) ==
  /\ Created(u)
  /\ Begins(r, [Idle EXCEPT !.at = "login", !.user = u, !.pass = user[u].pass,
                            !.version = user[u].version])
  /\ UNCHANGED <<user, invite, link, cookies, settled>>

SignLogin(r) ==
  /\ Ends(r, "login")
  /\ cookies' = cookies \cup
       {[user |-> req[r].user, pass |-> req[r].pass, version |-> req[r].version]}
  /\ UNCHANGED <<user, invite, link, settled>>

(* A verification link may be good at any time.                            *)
VerifyEmail(r, u) ==
  /\ Created(u)
  /\ Begins(r, [Idle EXCEPT !.at = "issue", !.user = u])
  /\ UNCHANGED <<user, invite, link, cookies, settled>>

IssueTokens(r) ==
  /\ Ends(r, "issue")
  /\ cookies' = cookies \cup {CookieOf(req[r].user)}
  /\ UNCHANGED <<user, invite, link, settled>>

NewVersion(u) ==
  /\ user[u].version < MaxVersion
  /\ user' = [user EXCEPT ![u].version = @ + 1]

(* Any cookie that was ever handed out will do, an ended one too.          *)
Logout(c) ==
  /\ NewVersion(c.user)
  /\ UNCHANGED <<invite, link, cookies, settled, req>>

-------------------------------------------------------------------------------
(* Password reset: four statements, each a transaction of its own.         *)

ForgotPassword(u, l) ==
  /\ Created(u)
  /\ link[l] = None
  /\ link' = [link EXCEPT ![l] = u]
  /\ UNCHANGED <<user, invite, cookies, settled, req>>

LinkExpires(l) ==
  /\ ValidLink(l)
  /\ link' = [link EXCEPT ![l] = Deleted]
  /\ UNCHANGED <<user, invite, cookies, settled, req>>

ResetPassword(r, l) ==
  /\ ValidLink(l)
  /\ Begins(r, [Idle EXCEPT !.at = "reset", !.user = link[l], !.link = l])
  /\ UNCHANGED <<user, invite, link, cookies, settled>>

UpdatePassword(r) ==
  LET u == req[r].user
  IN  /\ At(r, "reset")
      /\ user[u].pass < MaxPass
      /\ user' = [user EXCEPT ![u].pass = @ + 1]
      /\ Goes(r, [req[r] EXCEPT !.at = "written", !.pass = user[u].pass + 1])
      /\ UNCHANGED <<invite, link, cookies, settled>>

(* Mutation: the sessions are left alone.                                  *)
IncrementNothing(r) ==
  LET u == req[r].user
  IN  /\ Moves(r, "written", "bumped")
      /\ settled' = [settled EXCEPT ![u] = IF @ < req[r].pass THEN req[r].pass ELSE @]
      /\ UNCHANGED <<user, invite, link, cookies>>

IncrementTokenVersion(r) ==
  LET u == req[r].user
  IN  /\ Moves(r, "written", "bumped")
      /\ NewVersion(u)
      /\ settled' = [settled EXCEPT ![u] = IF @ < req[r].pass THEN req[r].pass ELSE @]
      /\ UNCHANGED <<invite, link, cookies>>

MarkUsed(r) ==
  /\ Moves(r, "bumped", "marked")
  /\ link' = [link EXCEPT ![req[r].link] = Deleted]
  /\ UNCHANGED <<user, invite, cookies, settled>>

DeleteForUser(r) ==
  /\ Ends(r, "marked")
  /\ link' = [l \in Links |-> IF link[l] = req[r].user THEN Deleted ELSE link[l]]
  /\ UNCHANGED <<user, invite, cookies, settled>>

-------------------------------------------------------------------------------
(* A check refuses, a statement fails (two inserts of one address do), the *)
(* transaction is rolled back, or the process dies.                        *)
Stops(r) ==
  /\ ~At(r, "idle")
  /\ Goes(r, Idle)
  /\ UNCHANGED <<user, invite, link, cookies, settled>>

Signup(r) ==
  \/ \E e \in Emails, role \in SelfRoles : Register(r, e, role)
  \/ \E u \in Users : CommitRegister(r, u) \/ CommitAccept(r, u)
  \/ \E e \in Emails \cup {None} :
       CreateInvitation(r, e, "tenant") \/ CreateEmployeeInvitation(r, e)
  \/ CheckPending(r)
  \/ \E i \in Invites : InsertInvitation(r, i) \/ AcceptInvitation(r, i)
                        \/ ResendInvitation(r, i) \/ DeleteInvitation(r, i)
  \/ \E e \in Emails : CheckEmail(r, e)
  \/ RefreshToken(r)
  \/ RemoveInvitation(r)

Session(r) ==
  \/ \E u \in Users : Login(r, u) \/ VerifyEmail(r, u)
  \/ SignLogin(r)
  \/ IssueTokens(r)
  \/ \E l \in Links : ResetPassword(r, l)
  \/ UpdatePassword(r)
  \/ IncrementTokenVersion(r)
  \/ MarkUsed(r)
  \/ DeleteForUser(r)

Next ==
  \/ \E r \in Requests : Signup(r) \/ Session(r) \/ Stops(r)
  \/ \E i \in Invites : InvitationExpires(i)
  \/ \E c \in cookies : Logout(c)
  \/ \E u \in Users, l \in Links : ForgotPassword(u, l)
  \/ \E l \in Links : LinkExpires(l)

Spec == Init /\ [][Next]_vars

-------------------------------------------------------------------------------
(* No address ever has two accounts, although every check for one is made  *)
(* a password hash before the insert.                                      *)
EmailsAreUnique ==
  \A u, v \in Users : Created(u) /\ Created(v) /\ user[u].email = user[v].email => u = v

(* An invitation that is marked as accepted has an account of the invited  *)
(* kind that came from it, and a tenant's invitation points at it: what    *)
(* the landlord's list of tenants without a lease is made from.            *)
AcceptedIsBacked ==
  \A i \in Invites : Sent(i) /\ invite[i].accepted =>
    \E u \in Users :
      /\ Created(u)
      /\ user[u].from = i
      /\ user[u].role = invite[i].type
      /\ invite[i].type = "tenant" => invite[i].tenant = u

(* Once a reset has ended the old sessions, no session that was opened on  *)
(* an earlier password is refreshed, whatever was under way meanwhile.     *)
OldPasswordsAreOut ==
  \A c \in cookies : Refreshes(c) => c.pass >= settled[c.user]
===============================================================================
