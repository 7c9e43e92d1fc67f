-------------------------- MODULE ConversationProofs --------------------------
(***************************************************************************)
(* Theorems about Conversation for every set of posts and clicks, every    *)
(* repetition of messages, and every combination of features.              *)
(***************************************************************************)
EXTENDS Conversation, FiniteSetTheorems, TLAPS

-----------------------------------------------------------------------------
(* Types.                                                                  *)

LEMMA GotoType ==
  ASSUME TypeOK, NEW p \in Posts, NEW step \in HandlerSteps, Goto(p, step)
  PROVE  inbound' \in [Posts -> Handler]
  BY DEF TypeOK, Goto, Handler

LEMMA OpGotoType ==
  ASSUME TypeOK, NEW o \in Ops, NEW step \in ApprovalSteps, OpGoto(o, step)
  PROVE  op' \in [Ops -> Approval]
  BY DEF TypeOK, OpGoto, Approval

LEMMA HandlingType ==
  ASSUME TypeOK, NEW p \in Posts, NEW step \in HandlerSteps, NEW c \in Posts \cup {NoPost},
         NEW seen \in {"open", "escalated", "resolved"}, NEW m \in Modes,
         Handling(p, step, c, seen, m)
  PROVE  inbound' \in [Posts -> Handler]
  BY DEF TypeOK, Handling, Handler

LEMMA AskType ==
  ASSUME TypeOK, NEW o \in Ops, NEW kind \in {"approve", "dismiss"},
         NEW c \in Posts \cup {NoPost}, NEW p \in Posts \cup {NoPost}, Ask(o, kind, c, p)
  PROVE  op' \in [Ops -> Approval]
  BY DEF TypeOK, Ask, Approval, ApprovalSteps

LEMMA FoundType ==
  ASSUME TypeOK, NEW o \in Ops, NEW step \in ApprovalSteps, NEW p \in Posts, Found(o, step, p)
  PROVE  op' \in [Ops -> Approval]
<1>1. op[o] \in Approval
  BY DEF TypeOK
<1> QED  BY <1>1 DEF TypeOK, Found, Approval

LEMMA InboundType ==
  ASSUME TypeOK, NEW p \in Posts, InboundStep(p)
  PROVE  TypeOK'
<1> USE DEF tables, HandlerSteps
<1>1. CASE Receive(p)
  BY <1>1, GotoType DEF Receive, TypeOK
<1>2. CASE LogMail(p)
  BY <1>2, GotoType DEF LogMail, TypeOK
<1>3. CASE Route(p)
  <2>1. CASE Goto(p, "create")
    BY <1>3, <2>1, GotoType DEF Route, TypeOK
  <2>2. ASSUME NEW c \in Posts, conv[c] # "none", RouteTo(p, c)
        PROVE  inbound' \in [Posts -> Handler]
    <3>1. conv[c] \in {"open", "escalated", "resolved"} /\ "off" \in Modes
      BY <2>2 DEF TypeOK, Modes
    <3> QED  BY <2>2, <3>1, HandlingType DEF RouteTo
  <2> QED  BY <1>3, <2>1, <2>2 DEF Route, Active, TypeOK
<1>4. CASE CreateConversation(p)
  <2>1. inbound' \in [Posts -> Handler]
    BY <1>4, HandlingType DEF CreateConversation, Modes
  <2> QED  BY <1>4, <2>1 DEF CreateConversation, TypeOK
<1>5. CASE AppendInbound(p)
  BY <1>5, GotoType DEF AppendInbound, TypeOK
<1>6. CASE Triage(p)
  <2>1. inbound' \in [Posts -> Handler]
    <3>1. /\ inbound[p].conv \in Posts \cup {NoPost} /\ mode \in Modes
          /\ inbound[p].seen \in {"open", "escalated", "resolved"}
      BY DEF TypeOK, Handler
    <3> QED  BY <1>6, <3>1, GotoType, HandlingType DEF Triage
  <2> QED  BY <1>6, <2>1 DEF Triage, TypeOK
<1>7. CASE CheckLimit(p)
  BY <1>7, GotoType DEF CheckLimit, TypeOK
<1>8. CASE AppendDraft(p)
  <2>1. Cardinality({q \in Posts : draft[q] # "none"}) \in Nat
    BY PostsAssumption, FS_Subset, FS_CardinalityType
  <2>2. op' \in [Ops -> Approval]
    <3>1. inbound[p].conv \in Posts \cup {NoPost} /\ p \in Ops
      BY DEF TypeOK, Handler, Ops
    <3> QED  BY <1>8, <3>1, AskType DEF AppendDraft, TypeOK
  <2>3. inbound' \in [Posts -> Handler]
    BY <1>8, GotoType DEF AppendDraft
  <2> QED  BY <1>8, <2>1, <2>2, <2>3 DEF AppendDraft, TypeOK
<1>9. CASE InboundFails(p)
  BY <1>9, GotoType DEF InboundFails, TypeOK
<1> QED
  BY <1>1, <1>2, <1>3, <1>4, <1>5, <1>6, <1>7, <1>8, <1>9 DEF InboundStep

LEMMA OpType ==
  ASSUME TypeOK, NEW o \in Ops, OpStep(o)
  PROVE  TypeOK'
<1> USE DEF tables, ApprovalSteps
<1>1. CASE FindDraft(o)
  <2>1. op' \in [Ops -> Approval]
    <3>1. Pending(op[o].conv) \subseteq Posts
      BY DEF Pending, DraftsIn
    <3> QED  BY <1>1, <3>1, OpGotoType, FoundType DEF FindDraft
  <2> QED  BY <1>1, <2>1 DEF FindDraft, TypeOK
<1>2. CASE MarkSent(o)
  BY <1>2, OpGotoType DEF MarkSent, TypeOK
<1>3. CASE DeleteDraft(o)
  BY <1>3, OpGotoType DEF DeleteDraft, TypeOK
<1>4. CASE Deliver(o)
  BY <1>4, OpGotoType DEF Deliver, TypeOK
<1>5. CASE Unmark(o)
  BY <1>5, OpGotoType DEF Unmark, TypeOK
<1>6. CASE OpFails(o)
  BY <1>6, OpGotoType DEF OpFails, TypeOK
<1> QED  BY <1>1, <1>2, <1>3, <1>4, <1>5, <1>6 DEF OpStep

LEMMA TypeStep == TypeOK /\ [Next]_vars => TypeOK'
<1> SUFFICES ASSUME TypeOK, [Next]_vars PROVE TypeOK'
  OBVIOUS
<1> USE DEF tables, handlers
<1>1. ASSUME NEW o \in Clicks, NEW k \in {"approve", "dismiss"}, NEW p \in Posts, Click(o, k, p)
      PROVE  TypeOK'
  <2>1. op' \in [Ops -> Approval]
    <3>1. inbound[p].conv \in Posts \cup {NoPost} /\ o \in Ops
      BY DEF TypeOK, Handler, Ops
    <3> QED  BY <1>1, <3>1, AskType DEF Click
  <2> QED  BY <1>1, <2>1 DEF Click, TypeOK
<1>2. ASSUME NEW c \in Posts, NEW s \in {"open", "escalated", "resolved"}, SetStatus(c, s)
      PROVE  TypeOK'
  BY <1>2 DEF SetStatus, TypeOK
<1>3. ASSUME NEW m \in Modes, SetMode(m) PROVE TypeOK'
  BY <1>3 DEF SetMode, TypeOK
<1>4. CASE UNCHANGED vars
  BY <1>4 DEF vars, TypeOK
<1> QED  BY <1>1, <1>2, <1>3, <1>4, InboundType, OpType DEF Next

LEMMA TypeInit == Init => TypeOK
  BY DEF Init, TypeOK, Handler, Approval, HandlerSteps, ApprovalSteps, Modes

(* Every table and every handler keeps its type (TypeOK).                  *)
THEOREM TypeCorrect == Spec => []TypeOK
  BY TypeInit, TypeStep, PTL DEF Spec

-----------------------------------------------------------------------------
(* One approval holds a sent draft.                                        *)

(* The steps of a handler before it has a draft.                           *)
Early == {"none", "log", "route", "create", "append", "triage", "limit", "draft"}

(* A handler that has not come to its draft has none, and none is being    *)
(* sent for it.                                                            *)
Undrafted == \A p \in Posts : inbound[p].pc \in Early => draft[p] = "none" /\ op[p].pc = "none"

(* An approval that is past its query has found a draft.                   *)
Targeted ==
  \A o \in Ops : op[o].pc \in {"mark", "delete", "deliver", "unmark"} => op[o].draft \in Posts

Stamps == Undrafted /\ Targeted /\ SentByOne

LEMMA StampsInit == Init => Stamps
  BY DEF Init, Stamps, Undrafted, Targeted, SentByOne, Holders, Ops

(* A step that stamps nothing and moves no approval among its holders.     *)
LEMMA HoldersKept ==
  ASSUME SentByOne, UNCHANGED <<draft, op>>
  PROVE  SentByOne'
  BY DEF SentByOne, Holders

LEMMA StampsInbound ==
  ASSUME TypeOK, Stamps, NEW p \in Posts, InboundStep(p)
  PROVE  Stamps'
<1> USE DEF tables, Early
<1>1. CASE AppendDraft(p)
  <2>1. draft[p] = "none" /\ op[p].pc = "none" /\ p \in Ops
    BY <1>1 DEF AppendDraft, Stamps, Undrafted, Ops
  <2>2. /\ draft' = [draft EXCEPT ![p] = "pending"]
        /\ inbound' = [inbound EXCEPT ![p].pc = "done"]
        /\ \A o \in Ops : o # p => op'[o] = op[o]
        /\ op'[p].pc \in {"none", "find"}
    BY <1>1, <2>1 DEF AppendDraft, Goto, Ask, TypeOK, Approval
  <2>3. \A q \in Posts : Holders(q)' = Holders(q)
    BY <2>1, <2>2 DEF Holders
  <2>4. SentByOne'
    BY <2>1, <2>2, <2>3 DEF Stamps, SentByOne, TypeOK
  <2>5. Undrafted'
    BY <2>2 DEF Stamps, Undrafted, TypeOK, Handler, Ops
  <2>6. Targeted'
    BY <2>2 DEF Stamps, Targeted
  <2> QED  BY <2>4, <2>5, <2>6 DEF Stamps
<1>2. CASE ~AppendDraft(p)
  <2>1. UNCHANGED <<draft, op>>
    BY <1>2 DEF InboundStep, Receive, LogMail, Route, CreateConversation, AppendInbound, Triage,
                CheckLimit, InboundFails
  <2>2. inbound[p].pc \in Early /\ \A q \in Posts : q # p => inbound'[q] = inbound[q]
    BY <1>2 DEF InboundStep, Receive, LogMail, Route, RouteTo, Handling, CreateConversation, AppendInbound,
                Triage, CheckLimit, InboundFails, Goto, TypeOK, Handler, HandlerSteps
  <2>3. SentByOne'
    BY <2>1, HoldersKept DEF Stamps
  <2>4. Undrafted' /\ Targeted'
    BY <2>1, <2>2 DEF Stamps, Undrafted, Targeted
  <2> QED  BY <2>3, <2>4 DEF Stamps
<1> QED  BY <1>1, <1>2

LEMMA StampsOp ==
  ASSUME TypeOK, Stamps, NEW o \in Ops, OpStep(o)
  PROVE  Stamps'
<1> USE DEF tables, Early
<1>1. UNCHANGED inbound /\ op[o].pc # "none" /\ \A x \in Ops : x # o => op'[x] = op[x]
  BY DEF OpStep, FindDraft, Found, MarkSent, DeleteDraft, Deliver, Unmark, OpFails, OpGoto, TypeOK
<1>2. \A p \in Posts : o = p => inbound[p].pc \notin Early
  BY <1>1 DEF Stamps, Undrafted
<1>3. ASSUME \A p \in Posts : draft[p] = "none" => draft'[p] = "none" PROVE Undrafted'
  BY <1>1, <1>2, <1>3 DEF Stamps, Undrafted, Ops
<1>4. ASSUME UNCHANGED draft, \A p \in Posts : Holders(p)' = Holders(p) PROVE SentByOne'
  BY <1>4 DEF Stamps, SentByOne
<1>5. CASE FindDraft(o)
  <2>1. op'[o].pc \in {"mark", "delete", "done"} /\ op[o].pc = "find" /\ UNCHANGED draft
    BY <1>5 DEF FindDraft, OpGoto, Found, TypeOK, Approval
  <2>2. op'[o].pc \in {"mark", "delete"} => op'[o].draft \in Posts
    BY <1>5 DEF FindDraft, OpGoto, Found, Pending, DraftsIn, TypeOK, Approval
  <2>3. SentByOne'
    BY <1>1, <1>4, <2>1 DEF Holders
  <2>4. Targeted'
    BY <1>1, <2>1, <2>2 DEF Stamps, Targeted
  <2> QED  BY <1>3, <2>1, <2>3, <2>4 DEF Stamps
<1>6. CASE MarkSent(o)
  <2> DEFINE p == op[o].draft
  <2>1. p \in Posts /\ op[o].pc = "mark" /\ op'[o].draft = p
    BY <1>6 DEF MarkSent, OpGoto, Stamps, Targeted, TypeOK, Approval
  <2>2. CASE draft[p] = "pending"
    <3>1. draft' = [draft EXCEPT ![p] = "sent"] /\ op'[o].pc = "deliver"
      BY <1>6, <2>2 DEF MarkSent, OpGoto, TypeOK, Approval
    <3>2. Holders(p) = {} /\ Holders(p)' = {o}
      BY <1>1, <2>1, <2>2, <3>1 DEF Holders, Stamps, SentByOne
    <3>3. \A q \in Posts : q # p => Holders(q)' = Holders(q)
      BY <1>1, <2>1, <3>1 DEF Holders
    <3>4. SentByOne'
      BY <2>1, <3>1, <3>2, <3>3 DEF Stamps, SentByOne, TypeOK
    <3>5. Targeted'
      BY <1>1, <2>1 DEF Stamps, Targeted
    <3>6. Undrafted'
      BY <1>3, <2>1, <2>2, <3>1 DEF TypeOK
    <3> QED  BY <3>4, <3>5, <3>6 DEF Stamps
  <2>3. CASE draft[p] # "pending"
    <3>1. UNCHANGED draft /\ op'[o].pc = "done"
      BY <1>6, <2>3 DEF MarkSent, OpGoto, TypeOK, Approval
    <3>2. SentByOne'
      BY <1>1, <1>4, <2>1, <3>1 DEF Holders
    <3>3. Targeted'
      BY <1>1, <3>1 DEF Stamps, Targeted
    <3> QED  BY <1>3, <3>1, <3>2, <3>3 DEF Stamps
  <2> QED  BY <2>2, <2>3
<1>7. CASE DeleteDraft(o)
  <2> DEFINE p == op[o].draft
  <2>1. p \in Posts /\ op[o].pc = "delete" /\ op'[o].pc = "done"
    BY <1>7 DEF DeleteDraft, OpGoto, Stamps, Targeted, TypeOK, Approval
  <2>2. \A q \in Posts : Holders(q)' = Holders(q)
    BY <1>1, <2>1 DEF Holders
  <2>3. \A q \in Posts : draft'[q] = draft[q] \/ (draft[q] = "pending" /\ draft'[q] = "dismissed")
    BY <1>7, <2>1 DEF DeleteDraft, TypeOK
  <2>4. SentByOne'
    BY <2>2, <2>3 DEF Stamps, SentByOne
  <2>5. Targeted'
    BY <1>1, <2>1 DEF Stamps, Targeted
  <2> QED  BY <1>3, <2>3, <2>4, <2>5 DEF Stamps
<1>8. CASE Unmark(o)
  <2> DEFINE p == op[o].draft
  <2>1. p \in Posts /\ op[o].pc = "unmark" /\ op'[o].pc = "done" /\ op'[o].draft = p
    BY <1>8 DEF Unmark, OpGoto, Stamps, Targeted, TypeOK, Approval
  <2>2. o \in Holders(p)
    BY <2>1 DEF Holders
  <2>3. draft[p] = "sent" /\ Holders(p) = {o}
    BY <2>1, <2>2 DEF Stamps, SentByOne
  <2>4. draft' = [draft EXCEPT ![p] = "pending"]
    BY <1>8 DEF Unmark
  <2>5. Holders(p)' = {}
    BY <1>1, <2>1, <2>3 DEF Holders
  <2>6. \A q \in Posts : q # p => Holders(q)' = Holders(q)
    BY <1>1, <2>1 DEF Holders
  <2>7. SentByOne'
    BY <2>1, <2>4, <2>5, <2>6 DEF Stamps, SentByOne, TypeOK
  <2>8. Targeted'
    BY <1>1, <2>1 DEF Stamps, Targeted
  <2>9. Undrafted'
    BY <1>3, <2>1, <2>3, <2>4 DEF TypeOK
  <2> QED  BY <2>7, <2>8, <2>9 DEF Stamps
<1>9. CASE Deliver(o) \/ OpFails(o)
  <2>1. /\ UNCHANGED draft /\ op'[o].draft = op[o].draft
        /\ op[o].pc \in {"deliver", "unmark"} => op'[o].pc \in {"delivered", "unmark", "dead"}
        /\ op[o].pc \notin {"deliver", "unmark"} => op'[o].pc = "done"
        /\ op[o].pc \in {"find", "mark", "delete", "deliver", "unmark"}
    BY <1>9 DEF Deliver, OpFails, OpGoto, TypeOK, Approval
  <2>2. \A q \in Posts : Holders(q)' = Holders(q)
    BY <1>1, <2>1 DEF Holders
  <2>3. Targeted'
    BY <1>1, <2>1 DEF Stamps, Targeted
  <2> QED  BY <1>3, <1>4, <2>1, <2>2, <2>3 DEF Stamps
<1> QED  BY <1>5, <1>6, <1>7, <1>8, <1>9 DEF OpStep

LEMMA StampsStep == TypeOK /\ Stamps /\ [Next]_vars => Stamps'
<1> SUFFICES ASSUME TypeOK, Stamps, [Next]_vars PROVE Stamps'
  OBVIOUS
<1> USE DEF tables, handlers
<1>1. ASSUME NEW o \in Clicks, NEW k \in {"approve", "dismiss"}, NEW p \in Posts, Click(o, k, p)
      PROVE  Stamps'
  <2>1. /\ UNCHANGED <<draft, inbound>> /\ op[o].pc = "none" /\ op'[o].pc = "find"
        /\ o \in Ops /\ o \notin Posts /\ \A x \in Ops : x # o => op'[x] = op[x]
    BY <1>1, NamesAssumption DEF Click, Ask, TypeOK, Ops
  <2>2. \A q \in Posts : Holders(q)' = Holders(q)
    BY <2>1 DEF Holders
  <2>3. SentByOne'
    BY <2>1, <2>2 DEF Stamps, SentByOne
  <2>4. Undrafted' /\ Targeted'
    BY <2>1 DEF Stamps, Undrafted, Targeted, Ops
  <2> QED  BY <2>3, <2>4 DEF Stamps
<1>2. ASSUME UNCHANGED <<draft, op, inbound>> PROVE Stamps'
  BY <1>2, HoldersKept DEF Stamps, Undrafted, Targeted
<1>3. ASSUME NEW c \in Posts, NEW s \in {"open", "escalated", "resolved"}, SetStatus(c, s)
      PROVE  Stamps'
  BY <1>2, <1>3 DEF SetStatus
<1>4. ASSUME NEW m \in Modes, SetMode(m) PROVE Stamps'
  BY <1>2, <1>4 DEF SetMode
<1>5. CASE UNCHANGED vars
  BY <1>2, <1>5 DEF vars
<1> QED  BY <1>1, <1>3, <1>4, <1>5, StampsInbound, StampsOp DEF Next

(* A draft marked as sent is held by exactly one approval, an unsent one   *)
(* by none (SentByOne), whatever clicks, automatic replies, failed         *)
(* deliveries and deaths of handlers interleave.                           *)
THEOREM SentByOneHolds == Spec => []SentByOne
<1>1. Stamps => SentByOne
  BY DEF Stamps
<1> QED  BY <1>1, TypeInit, TypeStep, StampsInit, StampsStep, PTL DEF Spec

-----------------------------------------------------------------------------
(* An e-mail enters a thread once.                                         *)

(* A handler past the log has its row, an appended message too, and no two *)
(* rows record one e-mail.                                                 *)
Records ==
  /\ \A p \in Posts :
       inbound[p].pc \in {"route", "create", "append", "triage", "limit", "draft"} => p \in log
  /\ thread \subseteq log
  /\ \A p, q \in log : MailOf[p] = MailOf[q] /\ ~IsText(p) => p = q

LEMMA RecordsStep == TypeOK /\ Records /\ [Next]_vars => Records'
<1> SUFFICES ASSUME TypeOK, Records, [Next]_vars PROVE Records'
  OBVIOUS
<1> USE DEF tables, handlers
<1>1. ASSUME NEW p \in Posts, LogMail(p) PROVE Records'
  <2>1. /\ \A q \in Posts : q # p => inbound'[q] = inbound[q]
        /\ UNCHANGED thread
    BY <1>1 DEF LogMail, Goto, TypeOK
  <2>2. CASE Recorded(p) = {}
    <3>1. log' = log \cup {p}
      BY <1>1, <2>2 DEF LogMail
    <3>2. \A q \in log : MailOf[q] = MailOf[p] => IsText(p)
      BY <2>2 DEF Recorded
    <3>3. \A r, q \in log' : MailOf[r] = MailOf[q] /\ ~IsText(r) => r = q
      BY <3>1, <3>2 DEF Records, IsText
    <3> QED  BY <2>1, <3>1, <3>3 DEF Records, IsText
  <2>3. CASE Recorded(p) # {}
    <3>1. log' = log /\ inbound'[p].pc = "failed"
      BY <1>1, <2>3 DEF LogMail, Goto, TypeOK, Handler
    <3> QED  BY <2>1, <3>1 DEF Records, IsText
  <2> QED  BY <2>2, <2>3
<1>2. ASSUME NEW p \in Posts, InboundStep(p), ~LogMail(p) PROVE Records'
  <2>1. /\ UNCHANGED log
        /\ \A q \in Posts : q # p => inbound'[q] = inbound[q]
        /\ inbound'[p].pc \in {"route", "create", "append", "triage", "limit", "draft"}
             => inbound[p].pc \in {"route", "create", "append", "triage", "limit", "draft"}
    BY <1>2 DEF InboundStep, Receive, Route, RouteTo, Handling, CreateConversation, AppendInbound,
                Triage, CheckLimit, AppendDraft, InboundFails, Goto, TypeOK, Handler
  <2>2. thread' = thread \/ (thread' = thread \cup {p} /\ inbound[p].pc = "append")
    BY <1>2 DEF InboundStep, Receive, Route, CreateConversation, AppendInbound,
                Triage, CheckLimit, AppendDraft, InboundFails
  <2> QED  BY <2>1, <2>2 DEF Records, IsText
<1>3. ASSUME UNCHANGED <<log, thread, inbound>> PROVE Records'
  BY <1>3 DEF Records, IsText
<1>4. ASSUME NEW o \in Ops, OpStep(o) PROVE Records'
  BY <1>3, <1>4 DEF OpStep, FindDraft, MarkSent, DeleteDraft, Deliver, Unmark, OpFails
<1>5. ASSUME NEW o \in Clicks, NEW k \in {"approve", "dismiss"}, NEW p \in Posts, Click(o, k, p)
      PROVE  Records'
  BY <1>3, <1>5 DEF Click
<1>6. ASSUME NEW c \in Posts, NEW s \in {"open", "escalated", "resolved"}, SetStatus(c, s)
      PROVE  Records'
  BY <1>3, <1>6 DEF SetStatus
<1>7. ASSUME NEW m \in Modes, SetMode(m) PROVE Records'
  BY <1>3, <1>7 DEF SetMode
<1>8. CASE UNCHANGED vars
  BY <1>3, <1>8 DEF vars
<1> QED  BY <1>1, <1>2, <1>4, <1>5, <1>6, <1>7, <1>8 DEF Next

(* However often and however concurrently an e-mail is delivered, it is    *)
(* appended to a thread at most once (ThreadedOnce).                       *)
THEOREM ThreadedOnceHolds == Spec => []ThreadedOnce
<1>1. Init => Records
  BY DEF Init, Records
<1>2. TypeOK /\ Records => ThreadedOnce
  BY DEF Records, ThreadedOnce, TypeOK
<1> QED  BY <1>1, <1>2, TypeInit, TypeStep, RecordsStep, PTL DEF Spec
-----------------------------------------------------------------------------
(* Handlers that run one at a time.                                        *)

Idle(p)    == inbound[p].pc \in {"none", "done", "dropped", "failed"}
Resting(o) == op[o].pc \in {"none", "delivered", "done", "dead"}

(* At most one handler is at work.                                         *)
OneAtWork ==
  /\ \A p, q \in Posts : p = q \/ Idle(p) \/ Idle(q)
  /\ \A o, x \in Ops : o = x \/ Resting(o) \/ Resting(x)
  /\ \A p \in Posts, o \in Ops : Idle(p) \/ Resting(o)

(* What a handler has read of its thread and of the settings still stands, *)
(* and what is sent on the landlord's behalf is still to be.               *)
ReadsStand ==
  /\ \A p \in Posts :
       /\ inbound[p].pc = "append" => inbound[p].seen = conv[inbound[p].conv]
       /\ inbound[p].pc \in {"triage", "limit", "draft"} => conv[inbound[p].conv] # "escalated"
       /\ inbound[p].pc \in {"limit", "draft"} => inbound[p].mode = mode
  /\ \A p \in Posts : op[p].pc \in {"find", "mark"} => mode = "auto"

(* A reply that is decided on has room under the limit.                    *)
Room ==
  /\ Cardinality(RecentReplies) <= Limit
  /\ \A p \in Posts : inbound[p].pc = "draft" => Cardinality(RecentReplies) < Limit
  /\ \A o \in Ops : op[o].pc \in {"find", "mark"} => Cardinality(RecentReplies) < Limit

LEMMA NobodyAtWork ==
  ASSUME Serialized = TRUE, Quiet
  PROVE  /\ \A p \in Posts : Idle(p)
         /\ \A o \in Ops : Resting(o)
  BY DEF Quiet, Busy, Idle, Resting

(* While a message is handled nothing else moves; it is handed over to its *)
(* own approval, if at all, as its handling ends.                          *)
LEMMA MessageAlone ==
  ASSUME TypeOK, Undrafted, OneAtWork, Serialized = TRUE, NEW p \in Posts, InboundStep(p)
  PROVE  /\ \A q \in Posts \ {p} : Idle(q) /\ inbound'[q] = inbound[q]
         /\ \A o \in Ops : Resting(o)
         /\ UNCHANGED mode
         /\ \/ UNCHANGED <<op, draft>>
            \/ /\ inbound[p].pc = "draft" /\ inbound'[p].pc = "done"
               /\ draft[p] = "none" /\ draft' = [draft EXCEPT ![p] = "pending"]
               /\ \/ UNCHANGED op
                  \/ /\ inbound[p].mode = "auto" /\ op'[p].pc = "find"
                     /\ \A o \in Ops \ {p} : op'[o] = op[o]
<1> USE DEF tables
<1>1. \A q \in Posts \ {p} : inbound'[q] = inbound[q]
  BY DEF InboundStep, Receive, LogMail, Route, RouteTo, Handling, CreateConversation,
         AppendInbound, Triage, CheckLimit, AppendDraft, InboundFails, Goto, TypeOK
<1>2. ((\A q \in Posts : Idle(q)) /\ (\A o \in Ops : Resting(o))) \/ ~Idle(p)
  <2>1. CASE Receive(p)
    BY <2>1, NobodyAtWork DEF Receive
  <2>2. CASE ~Receive(p)
    BY <2>2 DEF InboundStep, LogMail, Route, CreateConversation, AppendInbound,
                Triage, CheckLimit, AppendDraft, InboundFails, Idle
  <2> QED  BY <2>1, <2>2
<1>3. (\A q \in Posts \ {p} : Idle(q)) /\ (\A o \in Ops : Resting(o))
  BY <1>2 DEF OneAtWork
<1>4. UNCHANGED mode
  BY DEF InboundStep, Receive, LogMail, Route, CreateConversation, AppendInbound, Triage,
         CheckLimit, AppendDraft, InboundFails
<1>5. CASE AppendDraft(p)
  <2>1. /\ inbound[p].pc = "draft" /\ inbound'[p].pc = "done"
        /\ draft' = [draft EXCEPT ![p] = "pending"]
    BY <1>5 DEF AppendDraft, Goto, TypeOK, Handler
  <2>2. draft[p] = "none"
    BY <2>1 DEF Undrafted, Early
  <2>3. \/ UNCHANGED op
        \/ /\ inbound[p].mode = "auto" /\ op'[p].pc = "find"
           /\ \A o \in Ops \ {p} : op'[o] = op[o]
    BY <1>5 DEF AppendDraft, Ask, TypeOK, Ops
  <2> QED  BY <1>1, <1>3, <1>4, <2>1, <2>2, <2>3
<1>6. CASE ~AppendDraft(p)
  <2>1. UNCHANGED <<op, draft>>
    BY <1>6 DEF InboundStep, Receive, LogMail, Route, CreateConversation, AppendInbound, Triage,
                CheckLimit, InboundFails
  <2> QED  BY <1>1, <1>3, <1>4, <2>1
<1> QED  BY <1>5, <1>6

(* While an approval is at work nothing else moves.                        *)
LEMMA ApprovalAlone ==
  ASSUME TypeOK, OneAtWork, NEW o \in Ops, OpStep(o)
  PROVE  /\ \A p \in Posts : Idle(p)
         /\ \A x \in Ops \ {o} : Resting(x) /\ op'[x] = op[x]
         /\ UNCHANGED <<inbound, conv, mode>>
         /\ op[o].pc \in {"find", "mark", "delete", "deliver", "unmark"}
         /\ op'[o].pc # "find"
         /\ op'[o].pc = "mark" => op[o].pc = "find"
<1> USE DEF tables
<1>1. op[o].pc \in {"find", "mark", "delete", "deliver", "unmark"}
  BY DEF OpStep, FindDraft, MarkSent, DeleteDraft, Deliver, Unmark, OpFails
<1>2. (\A p \in Posts : Idle(p)) /\ (\A x \in Ops \ {o} : Resting(x))
  BY <1>1 DEF OneAtWork, Resting
<1>3. (\A x \in Ops \ {o} : op'[x] = op[x]) /\ UNCHANGED <<inbound, conv, mode>>
  BY DEF OpStep, FindDraft, Found, MarkSent, DeleteDraft, Deliver, Unmark, OpFails, OpGoto, TypeOK
<1>4. op'[o].pc # "find" /\ (op'[o].pc = "mark" => op[o].pc = "find")
  BY DEF OpStep, FindDraft, Found, MarkSent, DeleteDraft, Deliver, Unmark, OpFails, OpGoto,
         TypeOK, Approval
<1> QED  BY <1>1, <1>2, <1>3, <1>4

(* The landlord's own requests wait until no handler is at work.           *)
LEMMA LandlordAlone ==
  ASSUME Serialized = TRUE,
         \/ \E o \in Clicks, k \in {"approve", "dismiss"}, p \in Posts : Click(o, k, p)
         \/ \E c \in Posts, s \in {"open", "escalated", "resolved"} : SetStatus(c, s)
         \/ \E m \in Modes : SetMode(m)
  PROVE  /\ \A p \in Posts : Idle(p)
         /\ \A o \in Ops : Resting(o)
         /\ UNCHANGED <<inbound, draft>>
  BY NobodyAtWork DEF Click, SetStatus, SetMode, tables, handlers

LEMMA OneAtWorkStep ==
  ASSUME TypeOK, Undrafted, OneAtWork, Serialized = TRUE, [Next]_vars
  PROVE  OneAtWork'
<1>1. ASSUME NEW p \in Posts, InboundStep(p) PROVE OneAtWork'
  <2>1. (\A q \in Posts \ {p} : Idle(q)') /\ \A o \in Ops \ {p} : Resting(o)'
    BY <1>1, MessageAlone DEF Idle, Resting
  <2>2. \A o \in Ops : Idle(p)' \/ Resting(o)'
    BY <1>1, MessageAlone DEF Idle, Resting
  <2> QED  BY <2>1, <2>2 DEF OneAtWork
<1>2. ASSUME NEW o \in Ops, OpStep(o) PROVE OneAtWork'
  <2>1. (\A p \in Posts : Idle(p)') /\ \A x \in Ops \ {o} : Resting(x)'
    BY <1>2, ApprovalAlone DEF Idle, Resting
  <2> QED  BY <2>1 DEF OneAtWork
<1>3. ASSUME NEW o \in Clicks, NEW k \in {"approve", "dismiss"}, NEW p \in Posts, Click(o, k, p)
      PROVE  OneAtWork'
  <2>1. \A q \in Posts : Idle(q)'
    BY <1>3, LandlordAlone DEF Idle
  <2>2. \A x \in Ops \ {o} : Resting(x)'
    BY <1>3, LandlordAlone DEF Click, Ask, Resting, TypeOK
  <2> QED  BY <2>1, <2>2 DEF OneAtWork
<1>4. CASE UNCHANGED <<inbound, op>>
  BY <1>4 DEF OneAtWork, Idle, Resting
<1>5. ASSUME NEW c \in Posts, NEW s \in {"open", "escalated", "resolved"}, SetStatus(c, s)
      PROVE  OneAtWork'
  BY <1>4, <1>5 DEF SetStatus, handlers
<1>6. ASSUME NEW m \in Modes, SetMode(m) PROVE OneAtWork'
  BY <1>4, <1>6 DEF SetMode, handlers
<1>7. CASE UNCHANGED vars
  BY <1>4, <1>7 DEF vars
<1> QED  BY <1>1, <1>2, <1>3, <1>5, <1>6, <1>7 DEF Next

(* What the handling of a message knows of its thread and of the settings. *)
LEMMA MessageReads ==
  ASSUME TypeOK, ReadsStand, NEW p \in Posts, InboundStep(p)
  PROVE  /\ inbound'[p].pc = "append" => inbound'[p].seen = conv'[inbound'[p].conv]
         /\ inbound'[p].pc \in {"triage", "limit", "draft"} => conv'[inbound'[p].conv] # "escalated"
         /\ inbound'[p].pc \in {"limit", "draft"} => inbound'[p].mode = mode'
<1> USE DEF tables
<1>1. inbound[p] \in Handler /\ inbound' \in [Posts -> Handler]
  BY InboundType DEF TypeOK
<1>2. CASE Receive(p) \/ LogMail(p) \/ InboundFails(p)
  BY <1>1, <1>2 DEF Receive, LogMail, InboundFails, Goto, TypeOK, Handler
<1>3. CASE Route(p)
  BY <1>1, <1>3 DEF Route, RouteTo, Handling, Goto, TypeOK, Handler
<1>4. CASE CreateConversation(p)
  BY <1>1, <1>4 DEF CreateConversation, Handling, TypeOK, Handler
<1>5. CASE AppendInbound(p)
  BY <1>1, <1>5 DEF AppendInbound, Goto, TypeOK, Handler, ReadsStand
<1>6. CASE Triage(p)
  BY <1>1, <1>6 DEF Triage, Handling, Goto, TypeOK, Handler, ReadsStand
<1>7. CASE CheckLimit(p)
  BY <1>1, <1>7 DEF CheckLimit, Goto, TypeOK, Handler, ReadsStand
<1>8. CASE AppendDraft(p)
  BY <1>1, <1>8 DEF AppendDraft, Goto, TypeOK, Handler
<1> QED  BY <1>2, <1>3, <1>4, <1>5, <1>6, <1>7, <1>8 DEF InboundStep

LEMMA ReadsStep ==
  ASSUME TypeOK, Undrafted, OneAtWork, ReadsStand, Serialized = TRUE, [Next]_vars
  PROVE  ReadsStand'
<1>1. ASSUME NEW p \in Posts, InboundStep(p) PROVE ReadsStand'
  <2>1. \A q \in Posts \ {p} :
          inbound'[q].pc \notin {"append", "triage", "limit", "draft"}
    BY <1>1, MessageAlone DEF Idle
  <2>2. \A q \in Posts : op'[q].pc \in {"find", "mark"} => q = p /\ inbound[p].pc = "draft"
                                                            /\ inbound[p].mode = "auto"
    BY <1>1, MessageAlone DEF Resting, Ops
  <2>3. \A q \in Posts : op'[q].pc \in {"find", "mark"} => mode' = "auto"
    BY <1>1, <2>2, MessageAlone DEF ReadsStand
  <2>4. /\ inbound'[p].pc = "append" => inbound'[p].seen = conv'[inbound'[p].conv]
        /\ inbound'[p].pc \in {"triage", "limit", "draft"}
             => conv'[inbound'[p].conv] # "escalated"
        /\ inbound'[p].pc \in {"limit", "draft"} => inbound'[p].mode = mode'
    BY <1>1, MessageReads
  <2> QED  BY <2>1, <2>3, <2>4 DEF ReadsStand
<1>2. ASSUME NEW o \in Ops, OpStep(o) PROVE ReadsStand'
  <2>1. \A q \in Posts : op'[q].pc \in {"find", "mark"} => op[q].pc \in {"find", "mark"}
    BY <1>2, ApprovalAlone DEF Ops
  <2>2. UNCHANGED <<inbound, conv, mode>>
    BY <1>2, ApprovalAlone
  <2> QED  BY <2>1, <2>2 DEF ReadsStand
<1>3. ASSUME \/ \E o \in Clicks, k \in {"approve", "dismiss"}, p \in Posts : Click(o, k, p)
             \/ \E c \in Posts, s \in {"open", "escalated", "resolved"} : SetStatus(c, s)
             \/ \E m \in Modes : SetMode(m)
      PROVE  ReadsStand'
  <2>1. \A p \in Posts : inbound'[p].pc \notin {"append", "triage", "limit", "draft"}
    BY <1>3, LandlordAlone DEF Idle
  <2>2. \A p \in Posts : op'[p] = op[p]
    BY <1>3, NamesAssumption DEF Click, Ask, SetStatus, SetMode, handlers, TypeOK, Ops
  <2>3. \A p \in Posts : op'[p].pc \notin {"find", "mark"}
    BY <1>3, <2>2, LandlordAlone DEF Resting, Ops
  <2> QED  BY <2>1, <2>3 DEF ReadsStand
<1>4. CASE UNCHANGED vars
  BY <1>4 DEF vars, ReadsStand
<1> QED  BY <1>1, <1>2, <1>3, <1>4 DEF Next

Serial == Undrafted /\ OneAtWork /\ ReadsStand

LEMMA SerialInit == Init => Serial
  BY DEF Init, Serial, Undrafted, OneAtWork, ReadsStand, Idle, Resting, Ops

LEMMA SerialStep ==
  ASSUME Serialized = TRUE
  PROVE  TypeOK /\ Stamps /\ Serial /\ [Next]_vars => Serial'
<1> SUFFICES ASSUME TypeOK, Stamps, Serial, [Next]_vars PROVE Serial'
  OBVIOUS
<1>1. Undrafted'
  BY StampsStep DEF Stamps
<1> QED  BY <1>1, OneAtWorkStep, ReadsStep DEF Serial

(* A draft appears only at the end of a message's handling.                *)
LEMMA DraftAppears ==
  ASSUME TypeOK, Stamps, Serial, Serialized = TRUE, [Next]_vars,
         NEW p \in Posts, draft[p] = "none", draft'[p] # "none"
  PROVE  inbound[p].pc = "draft"
<1>1. ASSUME NEW q \in Posts, InboundStep(q) PROVE inbound[p].pc = "draft"
  BY <1>1, MessageAlone DEF Serial, TypeOK
<1>2. ASSUME NEW o \in Ops, OpStep(o) PROVE FALSE
  <2>1. PICK q : q = op[o].draft
    OBVIOUS
  <2>2. draft' = draft \/ draft[q] = "pending" \/ op[o].pc = "unmark"
    BY <1>2, <2>1 DEF OpStep, FindDraft, MarkSent, DeleteDraft, Deliver, Unmark, OpFails, tables
  <2>3. draft' = draft \/ \E d \in {"pending", "sent", "dismissed"} : draft' = [draft EXCEPT ![q] = d]
    BY <1>2, <2>1 DEF OpStep, FindDraft, MarkSent, DeleteDraft, Deliver, Unmark, OpFails, tables
  <2>4. op[o].pc = "unmark" => q \in Posts /\ draft[q] = "sent"
    <3>1. HAVE op[o].pc = "unmark"
    <3>2. q \in Posts
      BY <2>1, <3>1 DEF Stamps, Targeted
    <3>3. o \in Holders(q)
      BY <2>1, <3>1 DEF Holders
    <3> QED  BY <3>2, <3>3 DEF Stamps, SentByOne
  <2> QED  BY <2>2, <2>3, <2>4 DEF TypeOK
<1>3. CASE UNCHANGED draft
  BY <1>3
<1>4. CASE \/ \E o \in Clicks, k \in {"approve", "dismiss"}, q \in Posts : Click(o, k, q)
           \/ \E c \in Posts, s \in {"open", "escalated", "resolved"} : SetStatus(c, s)
           \/ \E m \in Modes : SetMode(m)
  BY <1>3, <1>4, LandlordAlone
<1>5. CASE UNCHANGED vars
  BY <1>3, <1>5 DEF vars
<1> QED  BY <1>1, <1>2, <1>4, <1>5 DEF Next

(* The AI adds no draft to an escalated thread (SilentWhenEscalated), as   *)
(* long as handlers run one at a time.                                     *)
THEOREM EscalationSilences ==
  ASSUME Serialized = TRUE
  PROVE  Spec => SilentWhenEscalated
<1>1. TypeOK /\ Stamps /\ Serial /\ [Next]_vars
        => [\A p \in Posts : draft[p] = "none" /\ draft'[p] # "none"
                               => conv[inbound[p].conv] # "escalated"]_vars
  <2> SUFFICES ASSUME TypeOK, Stamps, Serial, [Next]_vars,
                      NEW p \in Posts, draft[p] = "none", draft'[p] # "none"
               PROVE  conv[inbound[p].conv] # "escalated"
    OBVIOUS
  <2>1. inbound[p].pc = "draft"
    BY DraftAppears
  <2> QED  BY <2>1 DEF Serial, ReadsStand
<1>2. TypeOK /\ Stamps /\ Serial /\ [Next]_vars => Serial'
  BY SerialStep
<1> QED
  BY <1>1, <1>2, TypeInit, TypeStep, StampsInit, StampsStep, SerialInit, PTL
  DEF Spec, SilentWhenEscalated

(* Nothing goes out on the landlord's behalf unless automatic replies are  *)
(* switched on (AutoOnlyWhenOptedIn), as long as handlers run one at a     *)
(* time.                                                                   *)
THEOREM AutoIsOptedIn ==
  ASSUME Serialized = TRUE
  PROVE  Spec => AutoOnlyWhenOptedIn
<1>1. Serial => [\A p \in Posts : op[p].pc = "mark" /\ op'[p].pc = "deliver" => mode = "auto"]_vars
  BY DEF Serial, ReadsStand
<1>2. TypeOK /\ Stamps /\ Serial /\ [Next]_vars => Serial'
  BY SerialStep
<1> QED
  BY <1>1, <1>2, TypeInit, TypeStep, StampsInit, StampsStep, SerialInit, PTL
  DEF Spec, AutoOnlyWhenOptedIn

LEMMA RepliesAreFinite ==
  /\ IsFiniteSet(RecentReplies) /\ Cardinality(RecentReplies) \in Nat
  /\ Limit \in Nat \ {0}
<1>1. IsFiniteSet(RecentReplies)
  BY PostsAssumption, FS_Subset DEF RecentReplies
<1> QED  BY <1>1, FS_CardinalityType, LimitAssumption

LEMMA RoomInit == Init => Room
<1> SUFFICES ASSUME Init PROVE Room
  OBVIOUS
<1>1. RecentReplies = {}
  BY DEF Init, RecentReplies
<1>2. Cardinality(RecentReplies) = 0
  BY <1>1, FS_EmptySet
<1>3. \A p \in Posts : inbound[p].pc # "draft"
  BY DEF Init
<1>4. \A o \in Ops : op[o].pc \notin {"find", "mark"}
  BY DEF Init
<1> QED  BY <1>2, <1>3, <1>4, LimitAssumption DEF Room

LEMMA RoomStep ==
  ASSUME TypeOK, Stamps, Serial, Room, Serialized = TRUE, Clicks = {}, [Next]_vars
  PROVE  Room'
<1> DEFINE N == Cardinality(RecentReplies)
<1>0. N \in Nat /\ Limit \in Nat \ {0} /\ IsFiniteSet(RecentReplies)
  BY RepliesAreFinite
<1>1. ASSUME NEW p \in Posts, InboundStep(p) PROVE Room'
  <2>1. RecentReplies' = RecentReplies
    BY <1>1, MessageAlone DEF Serial, TypeOK, RecentReplies
  <2>2. \A q \in Posts : inbound'[q].pc = "draft" => q = p
    BY <1>1, MessageAlone DEF Serial, Idle
  <2>3. inbound'[p].pc = "draft" => N < Limit
    <3>1. inbound'[p].pc = "draft" => CheckLimit(p)
      BY <1>1 DEF InboundStep, Receive, LogMail, Route, RouteTo, Handling, CreateConversation,
                  AppendInbound, Triage, AppendDraft, InboundFails, Goto, TypeOK, Handler
    <3>2. CheckLimit(p) /\ inbound'[p].pc = "draft" => ~(N >= Limit)
      BY DEF CheckLimit, Goto, TypeOK, Handler
    <3> QED  BY <1>0, <3>1, <3>2
  <2>4. \A o \in Ops : op'[o].pc \in {"find", "mark"} => inbound[p].pc = "draft"
    BY <1>1, MessageAlone DEF Serial, Resting
  <2> QED  BY <1>0, <2>1, <2>2, <2>3, <2>4 DEF Room
<1>2. ASSUME NEW o \in Ops, OpStep(o) PROVE Room'
  <2>1. (\A p \in Posts : inbound'[p].pc # "draft")
    BY <1>2, ApprovalAlone DEF Serial, Idle
  <2>2. \A x \in Ops : op'[x].pc \in {"find", "mark"}
                         => x = o /\ op[o].pc = "find" /\ op'[o].pc = "mark"
    BY <1>2, ApprovalAlone DEF Serial, Resting
  <2>3. CASE MarkSent(o) /\ draft[op[o].draft] = "pending"
    <3>1. PICK p \in Posts : p = op[o].draft
      BY <2>3 DEF MarkSent, Stamps, Targeted
    <3>2. draft' = [draft EXCEPT ![p] = "sent"]
      BY <2>3, <3>1 DEF MarkSent
    <3>3. RecentReplies' = RecentReplies \cup {p}
      BY <3>2 DEF TypeOK, RecentReplies
    <3>4. \/ Cardinality(RecentReplies \cup {p}) = N
          \/ Cardinality(RecentReplies \cup {p}) = N + 1
      BY <1>0, FS_AddElement, Zenon
    <3>5. N < Limit /\ \A x \in Ops : op'[x].pc \notin {"find", "mark"}
      BY <2>2, <2>3 DEF Room, MarkSent
    <3>6. Cardinality(RecentReplies') \in Nat /\ Cardinality(RecentReplies') <= N + 1
      BY <1>0, <3>3, <3>4
    <3> QED  BY <1>0, <2>1, <3>5, <3>6 DEF Room
  <2>4. CASE ~(MarkSent(o) /\ draft[op[o].draft] = "pending")
    <3>1. \A p \in Posts : draft'[p] = "sent" => draft[p] = "sent"
      BY <1>2, <2>4 DEF OpStep, FindDraft, MarkSent, DeleteDraft, Deliver, Unmark, OpFails,
                        tables, TypeOK
    <3>2. RecentReplies' \subseteq RecentReplies
      BY <3>1 DEF RecentReplies
    <3>3. Cardinality(RecentReplies') <= N
      BY <1>0, <3>2, FS_Subset
    <3>4. Cardinality(RecentReplies') \in Nat
      BY <1>0, <3>2, FS_Subset, FS_CardinalityType
    <3>5. N <= Limit /\ \A x \in Ops : op'[x].pc \in {"find", "mark"} => N < Limit
      BY <2>2 DEF Room
    <3> QED  BY <1>0, <2>1, <3>3, <3>4, <3>5 DEF Room
  <2> QED  BY <2>3, <2>4
<1>3. CASE UNCHANGED <<draft, inbound, op>>
  BY <1>3 DEF Room, RecentReplies
<1>4. ASSUME \/ \E c \in Posts, s \in {"open", "escalated", "resolved"} : SetStatus(c, s)
             \/ \E m \in Modes : SetMode(m)
      PROVE  Room'
  BY <1>3, <1>4 DEF SetStatus, SetMode, handlers
<1>5. CASE UNCHANGED vars
  BY <1>3, <1>5 DEF vars
<1> QED  BY <1>1, <1>2, <1>4, <1>5 DEF Next

(* With automatic replies only, one handler at a time, no more than the    *)
(* daily limit goes out (RepliesAreCapped), failed deliveries that are     *)
(* sent later included.                                                    *)
THEOREM RepliesStayCapped ==
  ASSUME Serialized = TRUE, Clicks = {}
  PROVE  Spec => []RepliesAreCapped
<1>1. TypeOK /\ Stamps /\ Serial /\ Room /\ [Next]_vars => Room'
  BY RoomStep
<1>2. TypeOK /\ Stamps /\ Serial /\ [Next]_vars => Serial'
  BY SerialStep
<1>3. Room => RepliesAreCapped
  BY DEF Room, RepliesAreCapped
<1> QED
  BY <1>1, <1>2, <1>3, TypeInit, TypeStep, StampsInit, StampsStep, SerialInit, RoomInit, PTL
  DEF Spec
=============================================================================
