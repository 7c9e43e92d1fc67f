----------------------------- MODULE Conversation -----------------------------
(***************************************************************************)
(* The AI-assisted conversations of one tenant and their landlord: the     *)
(* inbound e-mails and texts that webhooks hand over (and repeat), the     *)
(* threads they are routed to, the replies the AI drafts, and the sending  *)
(* of a draft, on the landlord's click or on the landlord's behalf.        *)
(*                                                                         *)
(* Every handler is a sequence of SQL statements and provider calls, and   *)
(* any other handler may run between two of them.  Each delivery (a post)  *)
(* creates at most one conversation, one thread message and one draft,     *)
(* which share its name; a post that sends its own draft is also the name  *)
(* of that approval.                                                       *)
(*                                                                         *)
(* Texts of messages, urgency, category, unread counts and the order of    *)
(* last_message_at are left out: of several active threads of one channel  *)
(* any may be picked.  All drafts fall into one 24-hour window.            *)
(***************************************************************************)
EXTENDS Integers, FiniteSets

CONSTANTS
  Posts,      \* webhook deliveries
  Clicks,     \* requests of the landlord to send or to dismiss a draft
  NoPost,     \* not a post: no conversation, no draft
  MailOf,     \* [Posts -> messages]; posts of one message are repeats of it
  Texts,      \* the messages that are SMS, the others are e-mails
  Urgent,     \* the messages that hold an escalation trigger word
  Limit,      \* AI_RATE_LIMIT_PER_DAY
  Features,   \* the endpoints and failures of this instance
  Serialized  \* TRUE: handlers run one at a time

Ops == Posts \cup Clicks

ASSUME NamesAssumption == Posts \cap Clicks = {} /\ NoPost \notin Posts
ASSUME PostsAssumption == IsFiniteSet(Posts) /\ IsFiniteSet(Clicks)
ASSUME LimitAssumption == Limit \in Nat \ {0}
ASSUME SerialAssumption == Serialized \in BOOLEAN

VARIABLES
  log,      \* notifications_log: the posts whose message is recorded
  conv,     \* ai_conversations.status of the conversation a post created
  thread,   \* ai_messages, role 'user': the posts appended to a thread
  draft,    \* ai_messages, role 'assistant': the draft a post led to
  born,     \* the order in which drafts were inserted (created_at)
  mode,     \* users.ai_enabled and ai_reply_mode of the landlord
  inbound,  \* the handler of each post
  op        \* each approval or dismissal

tables   == <<log, conv, thread, draft, born, mode>>
handlers == <<inbound, op>>
vars     == <<log, conv, thread, draft, born, mode, inbound, op>>

Modes == {"off", "approval", "auto"}

HandlerSteps == {"none", "log", "route", "create", "append", "triage", "limit", "draft",
                 "done", "dropped", "failed"}

ApprovalSteps == {"none", "find", "mark", "delete", "deliver", "unmark",
                  "delivered", "done", "dead"}

Handler == [pc : HandlerSteps, conv : Posts \cup {NoPost},
            seen : {"open", "escalated", "resolved"}, mode : Modes]

Approval == [pc : ApprovalSteps, kind : {"approve", "dismiss"}, conv : Posts \cup {NoPost},
             asked : Posts \cup {NoPost}, draft : Posts \cup {NoPost}]

TypeOK ==
  /\ log     \in SUBSET Posts
  /\ conv    \in [Posts -> {"none", "open", "escalated", "resolved"}]
  /\ thread  \in SUBSET Posts
  /\ draft   \in [Posts -> {"none", "pending", "sent", "dismissed"}]
  /\ born    \in [Posts -> Nat]
  /\ mode    \in Modes
  /\ inbound \in [Posts -> Handler]
  /\ op      \in [Ops -> Approval]

Init ==
  /\ log     = {}
  /\ conv    = [p \in Posts |-> "none"]
  /\ thread  = {}
  /\ draft   = [p \in Posts |-> "none"]
  /\ born    = [p \in Posts |-> 0]
  /\ mode   \in Modes
  /\ inbound = [p \in Posts |-> [pc |-> "none", conv |-> NoPost, seen |-> "open", mode |-> "off"]]
  /\ op      = [o \in Ops |-> [pc |-> "none", kind |-> "approve", conv |-> NoPost,
                               asked |-> NoPost, draft |-> NoPost]]

-----------------------------------------------------------------------------
(* What the queries return.                                                *)

IsText(p) == MailOf[p] \in Texts

(* The rows of notifications_log with the external_id of the post.  A text *)
(* is logged without one.                                                  *)
Recorded(p) == {q \in log : MailOf[q] = MailOf[p] /\ ~IsText(p)}

Active(p) == {c \in Posts : conv[c] \in {"open", "escalated"} /\ IsText(c) = IsText(p)}

DraftsIn(c) == {p \in Posts : inbound[p].conv = c /\ draft[p] = "pending"}

(* The one pending draft that a conversation offers, the newest.           *)
Pending(c) == {p \in DraftsIn(c) : \A q \in DraftsIn(c) : born[q] <= born[p]}

RecentReplies == {p \in Posts : draft[p] = "sent"}

Busy == \/ \E p \in Posts : inbound[p].pc \notin {"none", "done", "dropped", "failed"}
        \/ \E o \in Ops : op[o].pc \notin {"none", "delivered", "done", "dead"}

Quiet == Serialized => ~Busy

Goto(p, step) == inbound' = [inbound EXCEPT ![p].pc = step]

Handling(p, step, c, seen, m) ==
  inbound' = [inbound EXCEPT ![p] = [pc |-> step, conv |-> c, seen |-> seen, mode |-> m]]

OpGoto(o, step) == op' = [op EXCEPT ![o].pc = step]

Ask(o, kind, c, p) ==
  op' = [op EXCEPT ![o] = [pc |-> "find", kind |-> kind, conv |-> c, asked |-> p, draft |-> NoPost]]

-----------------------------------------------------------------------------
(* Inbound messages.                                                       *)

(* The webhook has answered 200 already.  An e-mail that is recorded is    *)
(* dropped; a text is never looked up.                                     *)
Receive(p) ==
  /\ Quiet
  /\ inbound[p].pc = "none"
  /\ Goto(p, IF Recorded(p) = {} THEN "log" ELSE "dropped")
  /\ UNCHANGED <<tables, op>>

(* Mutation: external_id is not unique.                                    *)
LogMailTwice(p) ==
  /\ inbound[p].pc = "log"
  /\ log' = log \cup {p}
  /\ Goto(p, "route")
  /\ UNCHANGED <<conv, thread, draft, born, mode, op>>

(* The unique external_id refuses the second row of an e-mail; the error   *)
(* ends the handler.                                                       *)
LogMail(p) ==
  /\ inbound[p].pc = "log"
  /\ IF Recorded(p) = {}
       THEN log' = log \cup {p} /\ Goto(p, "route")
       ELSE UNCHANGED log /\ Goto(p, "failed")
  /\ UNCHANGED <<conv, thread, draft, born, mode, op>>

RouteTo(p, c) == Handling(p, "append", c, conv[c], "off")

(* An e-mail that replies to one of a thread's goes to that thread, in     *)
(* whatever state it is; any other message to an active thread of its      *)
(* channel.                                                                *)
Route(p) ==
  /\ inbound[p].pc = "route"
  /\ \/ \E c \in Active(p) : RouteTo(p, c)
     \/ \E c \in Posts : "reply" \in Features /\ conv[c] # "none" /\ ~IsText(c) /\ ~IsText(p)
                         /\ RouteTo(p, c)
     \/ Active(p) = {} /\ Goto(p, "create")
  /\ UNCHANGED <<tables, op>>

CreateConversation(p) ==
  /\ inbound[p].pc = "create"
  /\ conv' = [conv EXCEPT ![p] = "open"]
  /\ Handling(p, "append", p, "open", "off")
  /\ UNCHANGED <<log, thread, draft, born, mode, op>>

(* Mutation: the state of the thread is not looked at.                     *)
AppendInboundAnyway(p) ==
  /\ inbound[p].pc = "append"
  /\ thread' = thread \cup {p}
  /\ Goto(p, "triage")
  /\ UNCHANGED <<log, conv, draft, born, mode, op>>

(* The AI stays out of a thread that was escalated when it was looked up.  *)
AppendInbound(p) ==
  /\ inbound[p].pc = "append"
  /\ thread' = thread \cup {p}
  /\ Goto(p, IF inbound[p].seen = "escalated" THEN "done" ELSE "triage")
  /\ UNCHANGED <<log, conv, draft, born, mode, op>>

(* A trigger word escalates; otherwise the landlord's settings are read.   *)
Triage(p) ==
  /\ inbound[p].pc = "triage"
  /\ IF MailOf[p] \in Urgent
       THEN conv' = [conv EXCEPT ![inbound[p].conv] = "escalated"] /\ Goto(p, "done")
       ELSE /\ UNCHANGED conv
            /\ IF mode = "off"
                 THEN Goto(p, "done")
                 ELSE Handling(p, "limit", inbound[p].conv, inbound[p].seen, mode)
  /\ UNCHANGED <<log, thread, draft, born, mode, op>>

(* Mutation: one reply more than the limit.                                *)
CheckLimitLate(p) ==
  /\ inbound[p].pc = "limit"
  /\ Goto(p, IF Cardinality(RecentReplies) > Limit THEN "done" ELSE "draft")
  /\ UNCHANGED <<tables, op>>

CheckLimit(p) ==
  /\ inbound[p].pc = "limit"
  /\ Goto(p, IF Cardinality(RecentReplies) >= Limit THEN "done" ELSE "draft")
  /\ UNCHANGED <<tables, op>>

(* Mutation: every draft is sent at once.                                  *)
AppendDraftAlwaysAuto(p) ==
  /\ inbound[p].pc = "draft"
  /\ draft' = [draft EXCEPT ![p] = "pending"]
  /\ born' = [born EXCEPT ![p] = Cardinality({q \in Posts : draft[q] # "none"})]
  /\ Goto(p, "done")
  /\ Ask(p, "approve", inbound[p].conv, NoPost)
  /\ UNCHANGED <<log, conv, thread, mode>>

(* The draft is generated and stored; in automatic mode its approval       *)
(* begins, which takes the newest draft of the thread.                     *)
AppendDraft(p) ==
  /\ inbound[p].pc = "draft"
  /\ draft' = [draft EXCEPT ![p] = "pending"]
  /\ born' = [born EXCEPT ![p] = Cardinality({q \in Posts : draft[q] # "none"})]
  /\ Goto(p, "done")
  /\ IF inbound[p].mode = "auto" THEN Ask(p, "approve", inbound[p].conv, NoPost) ELSE UNCHANGED op
  /\ UNCHANGED <<log, conv, thread, mode>>

(* A statement or the call to the AI fails, or the process dies: the       *)
(* message was acknowledged, and nobody resumes the handler.               *)
InboundFails(p) ==
  /\ "fail" \in Features
  /\ inbound[p].pc \notin {"none", "done", "dropped", "failed"}
  /\ Goto(p, "failed")
  /\ UNCHANGED <<tables, op>>

-----------------------------------------------------------------------------
(* Sending and dismissing drafts.                                          *)

Found(o, step, p) ==
  op' = [op EXCEPT ![o] = [pc |-> step, kind |-> op[o].kind, conv |-> op[o].conv,
                           asked |-> op[o].asked, draft |-> p]]

(* The landlord acts on a draft that was on the screen.                    *)
Click(o, kind, p) ==
  /\ Quiet
  /\ op[o].pc = "none"
  /\ draft[p] # "none"
  /\ Ask(o, kind, inbound[p].conv, p)
  /\ UNCHANGED <<tables, inbound>>

FindDraft(o) ==
  LET found == {p \in Pending(op[o].conv) : op[o].asked \in {NoPost, p}}
  IN
  /\ op[o].pc = "find"
  /\ \/ \E p \in found :
          Found(o, IF op[o].kind = "approve" THEN "mark" ELSE "delete", p)
     \/ found = {} /\ OpGoto(o, "done")
  /\ UNCHANGED <<tables, inbound>>

(* Mutation: the draft is stamped whatever its state.                      *)
MarkSentAgain(o) ==
  LET p == op[o].draft
  IN
  /\ op[o].pc = "mark"
  /\ draft' = [draft EXCEPT ![p] = "sent"]
  /\ OpGoto(o, "deliver")
  /\ UNCHANGED <<log, conv, thread, born, mode, inbound>>

(* The conditional update is the gate: who stamps the draft sends it.      *)
MarkSent(o) ==
  LET p == op[o].draft
  IN
  /\ op[o].pc = "mark"
  /\ IF draft[p] = "pending"
       THEN draft' = [draft EXCEPT ![p] = "sent"] /\ OpGoto(o, "deliver")
       ELSE UNCHANGED draft /\ OpGoto(o, "done")
  /\ UNCHANGED <<log, conv, thread, born, mode, inbound>>

DeleteDraft(o) ==
  LET p == op[o].draft
  IN
  /\ op[o].pc = "delete"
  /\ draft' = IF draft[p] = "pending" THEN [draft EXCEPT ![p] = "dismissed"] ELSE draft
  /\ OpGoto(o, "done")
  /\ UNCHANGED <<log, conv, thread, born, mode, inbound>>

(* A delivery is reported done, or failed: the provider refused it, or the *)
(* log could not be updated after it had gone out.                         *)
Deliver(o) ==
  /\ op[o].pc = "deliver"
  /\ OpGoto(o, "delivered") \/ OpGoto(o, "unmark")
  /\ UNCHANGED <<tables, inbound>>

Unmark(o) ==
  /\ op[o].pc = "unmark"
  /\ draft' = [draft EXCEPT ![op[o].draft] = "pending"]
  /\ OpGoto(o, "done")
  /\ UNCHANGED <<log, conv, thread, born, mode, inbound>>

(* The process dies, or a statement fails, the undo included.              *)
OpFails(o) ==
  /\ "fail" \in Features
  /\ op[o].pc \in {"find", "mark", "delete", "deliver", "unmark"}
  /\ OpGoto(o, IF op[o].pc \in {"deliver", "unmark"} THEN "dead" ELSE "done")
  /\ UNCHANGED <<tables, inbound>>

-----------------------------------------------------------------------------
(* The landlord's other requests, one statement each.                      *)

(* Resolve, escalate, or a direct edit of the status.                      *)
SetStatus(c, status) ==
  /\ "status" \in Features
  /\ Quiet
  /\ conv[c] # "none"
  /\ conv' = [conv EXCEPT ![c] = status]
  /\ UNCHANGED <<log, thread, draft, born, mode, handlers>>

SetMode(m) ==
  /\ "setting" \in Features
  /\ Quiet
  /\ mode' = m
  /\ UNCHANGED <<log, conv, thread, draft, born, handlers>>

-----------------------------------------------------------------------------
InboundStep(p) ==
  \/ Receive(p) \/ LogMail(p) \/ Route(p) \/ CreateConversation(p) \/ AppendInbound(p)
  \/ Triage(p) \/ CheckLimit(p) \/ AppendDraft(p) \/ InboundFails(p)

OpStep(o) ==
  \/ FindDraft(o) \/ MarkSent(o) \/ DeleteDraft(o) \/ Deliver(o) \/ Unmark(o) \/ OpFails(o)

Next ==
  \/ \E p \in Posts : InboundStep(p)
  \/ \E o \in Ops : OpStep(o)
  \/ \E o \in Clicks, k \in {"approve", "dismiss"}, p \in Posts : Click(o, k, p)
  \/ \E c \in Posts, s \in {"open", "escalated", "resolved"} : SetStatus(c, s)
  \/ \E m \in Modes : SetMode(m)

Spec == Init /\ [][Next]_vars

-----------------------------------------------------------------------------
(* Properties of every interleaving.                                       *)

(* The approvals that hold a draft's stamp: they carry it, delivered it,   *)
(* or died with it.                                                        *)
Holders(p) == {o \in Ops : op[o].draft = p /\ op[o].pc \in {"deliver", "unmark", "delivered", "dead"}}

(* A draft marked as sent is held by exactly one approval, and an unsent   *)
(* one by none: two clicks, or a click and an automatic reply, never send  *)
(* one draft twice, a failed delivery hands it back exactly once, and only *)
(* a handler that died can leave it marked without a reported delivery.    *)
SentByOne ==
  \A p \in Posts :
    /\ draft[p] = "sent" => \E o \in Ops : Holders(p) = {o}
    /\ draft[p] # "sent" => Holders(p) = {}

(* However often the webhook repeats an e-mail, and even when it processes *)
(* two repeats at once, the e-mail appears in a thread at most once.       *)
ThreadedOnce ==
  \A p, q \in thread : MailOf[p] = MailOf[q] /\ ~IsText(p) => p = q

-----------------------------------------------------------------------------
(* Properties of handlers that run one at a time.                          *)

(* A trigger word disables the AI: no draft is added to an escalated       *)
(* thread.                                                                 *)
SilentWhenEscalated ==
  [][\A p \in Posts : draft[p] = "none" /\ draft'[p] # "none"
                        => conv[inbound[p].conv] # "escalated"]_vars

(* With automatic replies only, the AI sends no more than its daily limit, *)
(* failed deliveries and changes of the settings included.                 *)
RepliesAreCapped == Cardinality(RecentReplies) <= Limit

(* No reply goes out on the landlord's behalf unless automatic replies are *)
(* switched on.                                                            *)
AutoOnlyWhenOptedIn ==
  [][\A p \in Posts : op[p].pc = "mark" /\ op'[p].pc = "deliver" => mode = "auto"]_vars
=============================================================================
