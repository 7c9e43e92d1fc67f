----------------------------- MODULE UpkeepProofs -----------------------------
(***************************************************************************)
(* Proofs about Upkeep and the notices it sends, for any number of         *)
(* notices, files, handlers and instances, any days and any bounds.        *)
(*                                                                         *)
(* LogIsHonest needs that a notice a provider took is out (NoticesInv).    *)
(* RemindedOnce needs that a reminder which was sent lies outside the days *)
(* of its selection once the timers may go off anew, and that what a run   *)
(* has left was not sent (JobsInv).  FilesMatchRows needs that a handler   *)
(* about to write a row has its object for itself, and that an object      *)
(* which a removal has passed is gone (FilesInv).  SubmitterKnows needs    *)
(* that nobody changed a status between an update's read and its write     *)
(* (TicketInv).                                                            *)
(***************************************************************************)
EXTENDS Upkeep, TLAPS

-----------------------------------------------------------------------------
(* What the operators give.                                                *)

LEMMA NoticeFacts ==
  ASSUME NoticeTypeOK, NEW n \in Notes, notice[n] # None
  PROVE  /\ notice[n] \in Notice
         /\ notice[n].about \in Reminder \cup Matters \cup {None}
         /\ notice[n].by \in Instances \cup {None}
         /\ notice[n].way \in [Channels -> Settling \cup Ended]
  BY DEF NoticeTypeOK, Notice

(* A new notice.                                                           *)
LEMMA PostedFacts ==
  ASSUME NoticeTypeOK, NEW n \in Notes, NEW about \in Reminder \cup Matters \cup {None},
         NEW i \in Instances \cup {None}, NEW ways \in SUBSET Channels,
         notice' = Posted(n, about, i, ways)
  PROVE  /\ notice' \in [Notes -> Notice \cup {None}]
         /\ notice'[n] # None /\ notice'[n].about = about /\ notice'[n].by = i
         /\ \A c \in Channels : notice'[n].way[c] = IF c \in ways THEN "due" ELSE "skipped"
         /\ \A m \in Notes \ {n} : notice'[m] = notice[m]
<1> DEFINE new == [about |-> about, by |-> i,
                   way |-> [c \in Channels |-> IF c \in ways THEN "due" ELSE "skipped"]]
<1>1. new.way \in [Channels -> Settling \cup Ended]
  BY DEF Settling, Ended
<1>2. new \in Notice
  BY <1>1 DEF Notice
<1>3. notice' = [notice EXCEPT ![n] = new]
  BY DEF Posted
<1>4. notice'[n] = new /\ \A m \in Notes \ {n} : notice'[m] = notice[m]
  BY <1>3 DEF NoticeTypeOK
<1>5. notice' \in [Notes -> Notice \cup {None}]
  BY <1>2, <1>3 DEF NoticeTypeOK
<1>6. new # None
  BY <1>2, NoneIsNobody
<1> QED  BY <1>4, <1>5, <1>6

(* A channel of a notice moves on.                                         *)
LEMMA BecomesFacts ==
  ASSUME NoticeTypeOK, NEW n \in Notes, NEW c \in Channels, NEW new \in Settling \cup Ended,
         notice[n] # None, Becomes(n, c, new)
  PROVE  /\ notice' \in [Notes -> Notice \cup {None}]
         /\ notice'[n] # None /\ notice'[n].about = notice[n].about
         /\ notice'[n].way[c] = new
         /\ \A d \in Channels \ {c} : notice'[n].way[d] = notice[n].way[d]
         /\ \A m \in Notes \ {n} : notice'[m] = notice[m]
<1> DEFINE after == [notice[n] EXCEPT !.way = [notice[n].way EXCEPT ![c] = new]]
<1>1. notice[n] \in Notice /\ notice[n].way \in [Channels -> Settling \cup Ended]
  BY NoticeFacts
<1>2. [notice[n].way EXCEPT ![c] = new] \in [Channels -> Settling \cup Ended]
  BY <1>1
<1>3. after \in Notice /\ after.about = notice[n].about /\ after.way = [notice[n].way EXCEPT ![c] = new]
  BY <1>1, <1>2 DEF Notice
<1>4. notice' = [notice EXCEPT ![n] = after]
  BY DEF Becomes
<1>5. notice'[n] = after /\ \A m \in Notes \ {n} : notice'[m] = notice[m]
  BY <1>4 DEF NoticeTypeOK
<1>6. after # None
  BY <1>3, NoneIsNobody
<1>7. notice' \in [Notes -> Notice \cup {None}]
  BY <1>3, <1>4 DEF NoticeTypeOK
<1> HIDE DEF after
<1> QED  BY <1>1, <1>3, <1>5, <1>6, <1>7

(* The notices of a process that dies.                                     *)
LEMMA InterruptedFacts ==
  ASSUME NoticeTypeOK, NEW i \in Instances \cup {None}, NEW early \in {"skipped", "queued"},
         notice' = [n \in Notes |-> Interrupted(n, i, early)]
  PROVE  /\ notice' \in [Notes -> Notice \cup {None}]
         /\ \A n \in Notes :
              /\ notice'[n] = None <=> notice[n] = None
              /\ notice[n] # None =>
                   /\ notice'[n].about = notice[n].about
                   /\ \A c \in Channels : notice'[n].way[c] \in {notice[n].way[c], "queued", early}
<1>1. ASSUME NEW n \in Notes
      PROVE  /\ notice'[n] \in Notice \cup {None}
             /\ notice'[n] = None <=> notice[n] = None
             /\ notice[n] # None =>
                  /\ notice'[n].about = notice[n].about
                  /\ \A c \in Channels : notice'[n].way[c] \in {notice[n].way[c], "queued", early}
  <2>1. notice'[n] = Interrupted(n, i, early)
    OBVIOUS
  <2>2. CASE notice[n] = None \/ notice[n].by # i
    BY <2>1, <2>2 DEF Interrupted, NoticeTypeOK
  <2>3. CASE notice[n] # None /\ notice[n].by = i
    <3> DEFINE way == [c \in Channels |->
                  IF notice[n].way[c] = "due" THEN early
                  ELSE IF notice[n].way[c] \in Settling THEN "queued" ELSE notice[n].way[c]]
    <3>1. notice[n] \in Notice /\ notice[n].way \in [Channels -> Settling \cup Ended]
      BY <2>3, NoticeFacts
    <3>2. notice'[n] = [notice[n] EXCEPT !.way = way]
      BY <2>1, <2>3 DEF Interrupted
    <3>3. way \in [Channels -> Settling \cup Ended]
      BY <3>1 DEF Ended
    <3>4. \A c \in Channels : way[c] \in {notice[n].way[c], "queued", early}
      OBVIOUS
    <3> HIDE DEF way
    <3>5. notice'[n] \in Notice /\ notice'[n].about = notice[n].about /\ notice'[n].way = way
      BY <3>1, <3>2, <3>3 DEF Notice
    <3> QED  BY <2>3, <3>4, <3>5, NoneIsNobody
  <2> QED  BY <2>2, <2>3
<1> QED  BY <1>1

LEMMA DoubtedFacts ==
  ASSUME NoticeTypeOK, NEW why \in SUBSET Doubts, Doubted(why)
  PROVE  doubt' \in SUBSET Doubts /\ doubt' = doubt \cup why
  BY DEF NoticeTypeOK, Doubted

LEMMA OverlapFacts ==
  ASSUME NEW s \in Desks
  PROVE  /\ Overlap(s) \in SUBSET Doubts
         /\ "overlap" \notin Overlap(s) => \A t \in Desks \ {s} : task[t] = Idle
  BY DEF Overlap, Doubts

LEMMA RunFacts ==
  ASSUME NoticeTypeOK, NEW i \in Instances
  PROVE  /\ job[i] \in Run
         /\ job[i] # Idle => /\ job[i].left \in SUBSET Reminder
                            /\ job[i].now \in Notes \cup {None}
                            /\ job[i] \in [step : {"run"}, left : SUBSET Reminder, now : Notes \cup {None}]
  BY DEF NoticeTypeOK, Run

(* A run is not idle.                                                      *)
LEMMA RunsAreNotIdle ==
  ASSUME NEW left, NEW now
  PROVE  [step |-> "run", left |-> left, now |-> now] # Idle
<1>1. Idle.step = "idle" /\ [step |-> "run", left |-> left, now |-> now].step = "run"
  BY DEF Idle
<1> QED  BY <1>1

-----------------------------------------------------------------------------
(* Types.                                                                  *)

LEMMA SendMarkType ==
  ASSUME NoticeTypeOK, NEW n \in Notes, NEW c \in Channels, Send(n, c) \/ Mark(n, c)
  PROVE  NoticeTypeOK'
<1>1. PICK new \in Settling \cup Ended : notice[n] # None /\ Becomes(n, c, new)
  BY DEF Send, Mark, Is, Settling, Ended
<1>2. notice' \in [Notes -> Notice \cup {None}]
  BY <1>1, BecomesFacts
<1>3. UNCHANGED jobVars
  BY DEF Send, Mark
<1>4. out' \in SUBSET (Notes \X Channels)
  BY DEF Send, Mark, NoticeTypeOK
<1>5. doubt' = doubt \/ Doubted({"lost"}) \/ Doubted({"unreachable"}) \/ Doubted({})
  BY DEF Send, Mark
<1>6. doubt' \in SUBSET Doubts
  BY <1>5, DoubtedFacts DEF Doubts, NoticeTypeOK
<1> QED  BY <1>2, <1>3, <1>4, <1>6 DEF NoticeTypeOK, jobVars

LEMMA JobsType ==
  ASSUME NoticeTypeOK, NEW i \in Instances, Fires(i) \/ SendNext(i) \/ Finishes(i)
  PROVE  NoticeTypeOK'
<1>1. CASE Fires(i)
  <2>1. ASSUME NEW left \in {Selected, {}}
        PROVE  [step |-> "run", left |-> left, now |-> None] \in Run
    BY DEF Selected, Run
  <2>2. job' \in [Instances -> Run] /\ lock' \in Instances \cup {None}
    BY <1>1, <2>1 DEF Fires, NoticeTypeOK
  <2>3. doubt' = doubt \/ Doubted({"rerun"}) \/ Doubted({})
    BY <1>1 DEF Fires
  <2>4. doubt' \in SUBSET Doubts
    BY <2>3, DoubtedFacts DEF Doubts, NoticeTypeOK
  <2> QED  BY <1>1, <2>2, <2>4 DEF Fires, noticeVars, NoticeTypeOK
<1>2. CASE SendNext(i)
  <2>1. PICK r \in job[i].left, n \in Notes :
          /\ notice' = Posted(n, r, i, Channels)
          /\ job' = [job EXCEPT ![i].left = @ \ {r}, ![i].now = n]
    BY <1>2 DEF SendNext
  <2>2. job[i] \in [step : {"run"}, left : SUBSET Reminder, now : Notes \cup {None}]
    BY <1>2, RunFacts DEF SendNext, Free
  <2>3. [job[i] EXCEPT !.left = @ \ {r}, !.now = n] \in Run
    BY <2>2 DEF Run
  <2>4. job' = [job EXCEPT ![i] = [job[i] EXCEPT !.left = @ \ {r}, !.now = n]]
    BY <2>1 DEF NoticeTypeOK
  <2>5. notice' \in [Notes -> Notice \cup {None}]
    BY <2>1, <2>2, PostedFacts
  <2> QED  BY <1>2, <2>3, <2>4, <2>5 DEF SendNext, NoticeTypeOK
<1>3. CASE Finishes(i)
  BY <1>3 DEF Finishes, noticeVars, NoticeTypeOK, Run
<1> QED  BY <1>1, <1>2, <1>3

LEMMA OtherNoticesType ==
  ASSUME NoticeTypeOK,
         (\E i \in Instances \cup {None} : Dies(i)) \/ WriteMessage \/ NextDay \/ IsSettled
  PROVE  NoticeTypeOK'
<1>1. ASSUME NEW i \in Instances \cup {None}, Dies(i)  PROVE NoticeTypeOK'
  <2>1. notice' \in [Notes -> Notice \cup {None}]
    BY <1>1, InterruptedFacts DEF Dies
  <2>2. doubt' \in SUBSET Doubts
    BY <1>1, DoubtedFacts DEF Dies, Doubts
  <2>3. job' \in [Instances -> Run]
    BY <1>1 DEF Dies, NoticeTypeOK, Run
  <2> QED  BY <1>1, <2>1, <2>2, <2>3 DEF Dies, NoticeTypeOK
<1>2. CASE WriteMessage
  <2>1. notice' \in [Notes -> Notice \cup {None}]
    BY <1>2, PostedFacts DEF WriteMessage, Post
  <2> QED  BY <1>2, <2>1 DEF WriteMessage, jobVars, NoticeTypeOK
<1>3. CASE NextDay
  <2>1. day' \in 0 .. LastDay
    BY <1>3, NoticeBounds DEF NextDay, NoticeTypeOK
  <2> QED  BY <1>3, <2>1 DEF NextDay, noticeVars, NoticeTypeOK
<1>4. CASE IsSettled
  BY <1>4 DEF IsSettled, noticeVars, NoticeTypeOK
<1> QED  BY <1>1, <1>2, <1>3, <1>4

LEMMA NoticeStepType ==
  ASSUME NoticeTypeOK, NoticeNext
  PROVE  NoticeTypeOK'
  BY SendMarkType, JobsType, OtherNoticesType DEF NoticeNext

LEMMA TaskFacts ==
  ASSUME TypeOK, NEW s \in Desks
  PROVE  /\ task[s] \in Task
         /\ task[s].step = "update" =>
              task[s] \in [step : {"update"}, who : People, to : Status, news : BOOLEAN]
         /\ task[s].step = "put" => task[s].parent \in Parent
         /\ task[s].step = "insert" => task[s].parent \in Parent /\ task[s].file \in Files
         /\ task[s].step = "objects" =>
              task[s] \in [step : {"objects"}, all : BOOLEAN, files : SUBSET Files, todo : SUBSET Files]
         /\ Idle.step = "idle" /\ Idle \in Task
<1>1. task[s] \in Task
  BY DEF TypeOK
<1>2. Idle.step = "idle" /\ Idle \in Task
  BY DEF Idle, Task
<1>3. CASE task[s] = Idle
  BY <1>2, <1>3
<1>4. CASE task[s] \in [step : {"update"}, who : People, to : Status, news : BOOLEAN]
  BY <1>1, <1>2, <1>4
<1>5. CASE task[s] \in [step : {"put"}, parent : Parent]
  BY <1>1, <1>2, <1>5
<1>6. CASE task[s] \in [step : {"insert"}, parent : Parent, file : Files]
  BY <1>1, <1>2, <1>6
<1>7. CASE task[s] \in [step : {"objects"}, all : BOOLEAN, files : SUBSET Files, todo : SUBSET Files]
  BY <1>1, <1>2, <1>7
<1>8. CASE task[s] \in [step : {"ticket"}]
  BY <1>1, <1>2, <1>8
<1> QED  BY <1>1, <1>3, <1>4, <1>5, <1>6, <1>7, <1>8 DEF Task

LEMMA TaskBecomes ==
  ASSUME TypeOK, NEW s \in Desks, NEW t \in Task, task' = [task EXCEPT ![s] = t]
  PROVE  /\ task' \in [Desks -> Task]
         /\ task'[s] = t
         /\ \A r \in Desks \ {s} : task'[r] = task[r]
  BY DEF TypeOK

(* The kinds of task.                                                      *)
LEMMA Tasks ==
  /\ \A who \in People, to \in Status, news \in BOOLEAN :
       [step |-> "update", who |-> who, to |-> to, news |-> news] \in Task
  /\ \A parent \in Parent : [step |-> "put", parent |-> parent] \in Task
  /\ \A parent \in Parent, f \in Files :
       [step |-> "insert", parent |-> parent, file |-> f] \in Task
  /\ \A all \in BOOLEAN, files, todo \in SUBSET Files :
       [step |-> "objects", all |-> all, files |-> files, todo |-> todo] \in Task
  /\ [step |-> "ticket"] \in Task
  BY DEF Task

LEMMA TicketFacts ==
  ASSUME TypeOK, ticket # None
  PROVE  /\ ticket \in Ticket
         /\ ticket.status \in Status \cup {"deleted"} /\ ticket.submitter \in People
         /\ ticket.by \in People /\ ticket.change \in 0 .. MaxChanges
  BY DEF TypeOK, Ticket

(* A change a notice is about.                                             *)
LEMMA ChangeIsMatter ==
  ASSUME NEW k \in 0 .. MaxChanges, NEW st \in Status
  PROVE  [change |-> k, status |-> st] \in Changes \cap Matters
<1>1. [change |-> k, status |-> st] \in Changes
  BY DEF Changes
<1> QED  BY <1>1, MattersAssumption

(* What an update writes.                                                  *)
LEMMA WriteFacts ==
  ASSUME TypeOK, NEW s \in Desks, WriteUpdate(s), Found
  PROVE  /\ task[s] \in [step : {"update"}, who : People, to : Status, news : BOOLEAN]
         /\ ticket' \in Ticket /\ ticket' # None
         /\ ticket'.status = task[s].to /\ ticket'.submitter = ticket.submitter
         /\ task[s].to # ticket.status => ticket'.change = ticket.change + 1 /\ ticket'.by = task[s].who
         /\ task[s].to = ticket.status => ticket'.change = ticket.change /\ ticket'.by = ticket.by
         /\ IF Notifies(task[s])
            THEN Post([change |-> ticket'.change, status |-> ticket'.status], None, TicketWays)
            ELSE notice' = notice
         /\ [change |-> ticket'.change, status |-> ticket'.status] \in Changes \cap Matters
         /\ Doubted(Overlap(s))
<1> DEFINE t == task[s]
           number == ticket.change + (IF t.to # ticket.status THEN 1 ELSE 0)
<1>1. t \in [step : {"update"}, who : People, to : Status, news : BOOLEAN]
  BY TaskFacts DEF WriteUpdate
<1>2. ticket \in Ticket /\ ticket.change \in 0 .. MaxChanges /\ number <= MaxChanges
  BY TicketFacts DEF Found, WriteUpdate
<1>3. /\ t.to # ticket.status => number = ticket.change + 1
      /\ t.to = ticket.status => number = ticket.change
  BY <1>2
<1>4. number \in 0 .. MaxChanges
  <2>1. number \in Nat
    <3>1. CASE t.to # ticket.status
      BY <1>2, <3>1, UpkeepBounds
    <3>2. CASE t.to = ticket.status
      BY <1>2, <3>2, UpkeepBounds
    <3> QED  BY <3>1, <3>2
  <2> HIDE DEF number
  <2> QED  BY <1>2, <2>1, UpkeepBounds
<1>5. /\ ticket' = [ticket EXCEPT !.status = t.to, !.change = number,
                                  !.by = IF t.to # ticket.status THEN t.who ELSE @]
      /\ IF Notifies(t)
         THEN Post([change |-> number, status |-> t.to], None, TicketWays)
         ELSE notice' = notice
      /\ Doubted(Overlap(s))
  BY DEF WriteUpdate
<1> HIDE DEF number
<1>6. /\ ticket' \in Ticket
      /\ ticket'.status = t.to /\ ticket'.change = number /\ ticket'.submitter = ticket.submitter
      /\ ticket'.by = IF t.to # ticket.status THEN t.who ELSE ticket.by
  BY <1>1, <1>2, <1>4, <1>5 DEF Ticket
<1>7. ticket' # None
  BY <1>6, NoneIsNoTicket
<1>8. [change |-> ticket'.change, status |-> ticket'.status] \in Changes \cap Matters
  BY <1>1, <1>4, <1>6, ChangeIsMatter
<1> QED  BY <1>1, <1>3, <1>5, <1>6, <1>7, <1>8

LEMMA RequestType ==
  ASSUME TypeOK, CreateRequest \/ \E s \in Desks : BeginUpdate(s) \/ WriteUpdate(s)
  PROVE  TypeOK'
<1>1. NoticeTypeOK
  BY DEF TypeOK
<1>2. CASE CreateRequest
  <2>1. ticket' \in Ticket
    BY <1>2, UpkeepBounds DEF CreateRequest, Ticket, Status
  <2>2. [change |-> 0, status |-> "open"] \in Matters
    <3>1. 0 \in 0 .. MaxChanges /\ "open" \in Status
      BY UpkeepBounds DEF Status
    <3> QED  BY <3>1, ChangeIsMatter
  <2>3. notice' \in [Notes -> Notice \cup {None}]
    <3>1. notice' = notice \/ Post([change |-> 0, status |-> "open"], None, TicketWays)
      BY <1>2 DEF CreateRequest
    <3> QED  BY <1>1, <2>2, <3>1, PostedFacts, WaysAssumption DEF Post, NoticeTypeOK
  <2> QED  BY <1>1, <1>2, <2>1, <2>3 DEF CreateRequest, jobVars, TypeOK, NoticeTypeOK
<1>3. ASSUME NEW s \in Desks, BeginUpdate(s)  PROVE TypeOK'
  <2>1. PICK who \in People, to \in Status :
          task' = [task EXCEPT ![s] = [step |-> "update", who |-> who, to |-> to, news |-> to # ticket.status]]
    BY <1>3 DEF BeginUpdate, Begin
  <2>2. task' \in [Desks -> Task]
    BY <2>1, Tasks, TaskBecomes
  <2> QED  BY <1>1, <1>3, <2>2 DEF BeginUpdate, noticeVars, jobVars, TypeOK, NoticeTypeOK
<1>4. ASSUME NEW s \in Desks, WriteUpdate(s)  PROVE TypeOK'
  <2>1. task' \in [Desks -> Task]
    BY <1>4, TaskBecomes, TaskFacts DEF WriteUpdate, End
  <2>2. CASE ~Found /\ UNCHANGED <<ticket, notice, doubt>>
    BY <1>1, <1>4, <2>1, <2>2 DEF WriteUpdate, jobVars, TypeOK, NoticeTypeOK
  <2>3. CASE Found
    <3>1. ticket' \in Ticket
      BY <1>4, <2>3, WriteFacts
    <3>2. notice' \in [Notes -> Notice \cup {None}]
      <4>1. PICK about \in Matters : notice' = notice \/ Post(about, None, TicketWays)
        BY <1>4, <2>3, WriteFacts
      <4> QED  BY <1>1, <4>1, PostedFacts, WaysAssumption DEF Post, NoticeTypeOK
    <3>3. doubt' \in SUBSET Doubts
      BY <1>1, <1>4, <2>3, DoubtedFacts, OverlapFacts DEF WriteUpdate
    <3> QED  BY <1>1, <1>4, <2>1, <3>1, <3>2, <3>3 DEF WriteUpdate, jobVars, TypeOK, NoticeTypeOK
  <2> QED  BY <1>4, <2>2, <2>3 DEF WriteUpdate
<1> QED  BY <1>2, <1>3, <1>4

LEMMA UploadType ==
  ASSUME TypeOK, NEW s \in Desks, BeginUpload(s) \/ Put(s) \/ InsertRow(s) \/ BeginRemove(s)
  PROVE  TypeOK'
<1>1. NoticeTypeOK
  BY DEF TypeOK
<1>2. CASE BeginUpload(s)
  <2>1. task' \in [Desks -> Task]
    BY <1>2, Tasks, TaskBecomes DEF BeginUpload, Begin
  <2> QED  BY <1>1, <1>2, <2>1 DEF BeginUpload, noticeVars, jobVars, TypeOK, NoticeTypeOK
<1>3. CASE Put(s)
  <2>1. task' \in [Desks -> Task] /\ store' \in [Files -> {"unused", "kept", "deleted"}]
    BY <1>3, TaskFacts, Tasks, TaskBecomes DEF Put, Proceed, TypeOK
  <2> QED  BY <1>1, <1>3, <2>1 DEF Put, noticeVars, jobVars, TypeOK, NoticeTypeOK
<1>4. CASE InsertRow(s)
  <2>1. task' \in [Desks -> Task]
    BY <1>4, TaskFacts, TaskBecomes DEF InsertRow, End
  <2>2. row' \in [Files -> Parent \cup {None}]
    BY <1>4, TaskFacts DEF InsertRow, TypeOK
  <2>3. doubt' \in SUBSET Doubts
    BY <1>1, <1>4, DoubtedFacts, OverlapFacts DEF InsertRow
  <2> QED  BY <1>1, <1>4, <2>1, <2>2, <2>3 DEF InsertRow, noticeVars, jobVars, TypeOK, NoticeTypeOK
<1>5. CASE BeginRemove(s)
  <2>1. task' \in [Desks -> Task]
    BY <1>5, Tasks, TaskBecomes DEF BeginRemove, Begin
  <2> QED  BY <1>1, <1>5, <2>1 DEF BeginRemove, noticeVars, jobVars, TypeOK, NoticeTypeOK
<1> QED  BY <1>2, <1>3, <1>4, <1>5

LEMMA RemovalType ==
  ASSUME TypeOK, NEW s \in Desks,
         BeginDelete(s) \/ DeleteObject(s) \/ DeleteRows(s) \/ DeleteTicket(s) \/ Stops(s)
  PROVE  TypeOK'
<1>1. NoticeTypeOK
  BY DEF TypeOK
<1>2. CASE BeginDelete(s)
  <2>1. PICK files \in SUBSET Files :
          task' = [task EXCEPT ![s] = [step |-> "objects", all |-> TRUE, files |-> files, todo |-> files]]
    BY <1>2 DEF BeginDelete, Begin
  <2>2. task' \in [Desks -> Task]
    BY <2>1, Tasks, TaskBecomes
  <2> QED  BY <1>1, <1>2, <2>2 DEF BeginDelete, noticeVars, jobVars, TypeOK, NoticeTypeOK
<1>3. CASE DeleteObject(s)
  <2>1. PICK f \in task[s].todo :
          /\ task' = [task EXCEPT ![s] = [task[s] EXCEPT !.todo = @ \ {f}]]
          /\ \/ store' = [store EXCEPT ![f] = "deleted"] /\ UNCHANGED doubt
             \/ UNCHANGED store /\ Doubted({"lost"})
    BY <1>3 DEF DeleteObject, Proceed
  <2>2. task[s] \in [step : {"objects"}, all : BOOLEAN, files : SUBSET Files, todo : SUBSET Files]
    BY <1>3, TaskFacts DEF DeleteObject
  <2>3. [task[s] EXCEPT !.todo = @ \ {f}] \in Task
    BY <2>2 DEF Task
  <2>4. task' \in [Desks -> Task]
    BY <2>1, <2>3, TaskBecomes
  <2>5. store' \in [Files -> {"unused", "kept", "deleted"}] /\ doubt' \in SUBSET Doubts
    BY <1>1, <2>1, <2>2, DoubtedFacts DEF TypeOK, NoticeTypeOK, Doubts
  <2> QED  BY <1>1, <1>3, <2>4, <2>5 DEF DeleteObject, noticeVars, jobVars, TypeOK, NoticeTypeOK
<1>4. CASE DeleteRows(s)
  <2>1. task' \in [Desks -> Task]
    BY <1>4, TaskFacts, Tasks, TaskBecomes DEF DeleteRows, Proceed, End
  <2>2. row' \in [Files -> Parent \cup {None}]
    BY <1>4 DEF DeleteRows, TypeOK
  <2>3. doubt' \in SUBSET Doubts
    BY <1>1, <1>4, DoubtedFacts, OverlapFacts DEF DeleteRows
  <2> QED  BY <1>1, <1>4, <2>1, <2>2, <2>3 DEF DeleteRows, noticeVars, jobVars, TypeOK, NoticeTypeOK
<1>5. CASE DeleteTicket(s)
  <2>1. task' \in [Desks -> Task]
    BY <1>5, TaskFacts, TaskBecomes DEF DeleteTicket, End
  <2>2. ticket' \in Ticket \cup {None}
    BY <1>5, TicketFacts DEF DeleteTicket, Found, TypeOK, Ticket
  <2>3. doubt' \in SUBSET Doubts
    BY <1>1, <1>5, DoubtedFacts, OverlapFacts DEF DeleteTicket
  <2> QED  BY <1>1, <1>5, <2>1, <2>2, <2>3 DEF DeleteTicket, noticeVars, jobVars, TypeOK, NoticeTypeOK
<1>6. CASE Stops(s)
  <2>1. task' \in [Desks -> Task]
    BY <1>6, TaskFacts, TaskBecomes DEF Stops, End
  <2>2. doubt' = doubt \/ Doubted({"cut"}) \/ Doubted({})
    BY <1>6 DEF Stops
  <2>3. doubt' \in SUBSET Doubts
    BY <1>1, <2>2, DoubtedFacts DEF Doubts, NoticeTypeOK
  <2> QED  BY <1>1, <1>6, <2>1, <2>3 DEF Stops, noticeVars, jobVars, TypeOK, NoticeTypeOK
<1> QED  BY <1>2, <1>3, <1>4, <1>5, <1>6

LEMMA StepType ==
  ASSUME TypeOK, [Next]_vars
  PROVE  TypeOK'
<1>1. CASE UNCHANGED vars
  BY <1>1 DEF vars, upkeepVars, noticeVars, jobVars, TypeOK, NoticeTypeOK
<1>2. CASE NoticeNext /\ UNCHANGED upkeepVars
  BY <1>2, NoticeStepType DEF upkeepVars, TypeOK
<1> QED  BY <1>1, <1>2, RequestType, UploadType, RemovalType DEF Next

LEMMA DoubtGrows ==
  ASSUME TypeOK, [Next]_vars
  PROVE  doubt \subseteq doubt'
<1>1. CASE UNCHANGED vars
  BY <1>1 DEF vars
<1>2. CASE NoticeNext /\ UNCHANGED upkeepVars
  BY <1>2 DEF NoticeNext, Send, Mark, Fires, SendNext, Finishes, Dies, WriteMessage, NextDay,
              IsSettled, Doubted
<1>3. CASE Next /\ ~(NoticeNext /\ UNCHANGED upkeepVars)
  BY <1>3 DEF Next, CreateRequest, BeginUpdate, WriteUpdate, BeginUpload, Put, InsertRow, BeginRemove,
              BeginDelete, DeleteObject, DeleteRows, DeleteTicket, Stops, Doubted
<1> QED  BY <1>1, <1>2, <1>3 DEF Next

-----------------------------------------------------------------------------
(* The log.  What a provider took is out: an update to "sent" that follows *)
(* tells the truth.                                                        *)

LogLine(n, c) ==
  /\ Is(n, c, "accepted") \/ Is(n, c, "sent") => <<n, c>> \in out
  /\ <<n, c>> \in out /\ doubt \cap {"lost", "cut"} = {} => Is(n, c, "accepted") \/ Is(n, c, "sent")
  /\ Is(n, c, "queued") => doubt \cap {"lost", "cut"} # {}

NoticesInv == \A n \in Notes, c \in Channels : LogLine(n, c)

LEMMA LineStays ==
  ASSUME NEW n \in Notes, NEW c \in Channels, LogLine(n, c), doubt \subseteq doubt',
         <<n, c>> \in out' <=> <<n, c>> \in out,
         \/ notice'[n] = notice[n]
         \/ notice'[n] # None /\ notice[n] # None /\ notice'[n].way[c] = notice[n].way[c]
  PROVE  LogLine(n, c)'
  BY DEF LogLine, Is

(* A new notice says nothing yet.                                          *)
LEMMA PostKeepsLog ==
  ASSUME NoticeTypeOK, NoticesInv, UNCHANGED out, doubt \subseteq doubt',
         NEW n \in Notes, NEW about \in Reminder \cup Matters \cup {None},
         NEW i \in Instances \cup {None}, NEW ways \in SUBSET Channels,
         notice[n] = None, notice' = Posted(n, about, i, ways)
  PROVE  NoticesInv'
<1>1. ASSUME NEW m \in Notes, NEW c \in Channels  PROVE LogLine(m, c)'
  <2>1. LogLine(m, c)
    BY DEF NoticesInv
  <2>2. CASE m # n
    <3>1. notice'[m] = notice[m]
      BY <2>2, PostedFacts
    <3> QED  BY <2>1, <3>1, LineStays
  <2>3. CASE m = n
    <3>1. notice'[n] # None /\ notice'[n].way[c] \in {"due", "skipped"}
      BY PostedFacts
    <3> QED  BY <2>1, <2>3, <3>1 DEF LogLine, Is
  <2> QED  BY <2>2, <2>3
<1> QED  BY <1>1 DEF NoticesInv

LEMMA SendMarkKeepsLog ==
  ASSUME NoticeTypeOK, NoticesInv, doubt \subseteq doubt',
         NEW n \in Notes, NEW c \in Channels, Send(n, c) \/ Mark(n, c)
  PROVE  NoticesInv'
<1>1. PICK new \in Settling \cup Ended : notice[n] # None /\ Becomes(n, c, new)
  BY DEF Send, Mark, Is, Settling, Ended
<1>2. ASSUME NEW m \in Notes, NEW d \in Channels, m # n \/ d # c  PROVE LogLine(m, d)'
  <2>1. <<m, d>> \in out' <=> <<m, d>> \in out
    BY <1>2 DEF Send, Mark
  <2>2. \/ notice'[m] = notice[m]
        \/ notice'[m] # None /\ notice[m] # None /\ notice'[m].way[d] = notice[m].way[d]
    BY <1>1, <1>2, BecomesFacts
  <2> QED  BY <2>1, <2>2, LineStays DEF NoticesInv
<1>3. LogLine(n, c)
  BY DEF NoticesInv
<1>4. notice'[n] # None /\ notice'[n].way[c] = new
  BY <1>1, BecomesFacts
<1>5. ASSUME NEW s \in Settling \cup Ended, Becomes(n, c, s)  PROVE notice'[n].way[c] = s
  BY <1>1, <1>5, BecomesFacts
<1>6. LogLine(n, c)'
  <2>1. CASE Send(n, c)
    <3>1. Is(n, c, "due")
      BY <2>1 DEF Send
    <3>2. \/ notice'[n].way[c] = "skipped" /\ out' = out
          \/ notice'[n].way[c] = "accepted" /\ <<n, c>> \in out'
          \/ notice'[n].way[c] = "refused" /\ out' = out
          \/ notice'[n].way[c] = "refused" /\ "lost" \in doubt'
      BY <2>1, <1>5 DEF Send, Settling, Ended, Doubted
    <3> QED  BY <1>3, <1>4, <3>1, <3>2 DEF LogLine, Is
  <2>2. CASE Mark(n, c)
    <3>1. /\ out' = out
          /\ \/ Is(n, c, "accepted") /\ notice'[n].way[c] = "sent"
             \/ Is(n, c, "refused") /\ notice'[n].way[c] = "failed"
             \/ notice'[n].way[c] \in {"failed", "queued"} /\ "lost" \in doubt'
      BY <2>2, <1>5 DEF Mark, Settling, Ended, Doubted
    <3> QED  BY <1>3, <1>4, <3>1 DEF LogLine, Is
  <2> QED  BY <2>1, <2>2
<1> QED  BY <1>2, <1>6 DEF NoticesInv

LEMMA DeathKeepsLog ==
  ASSUME NoticeTypeOK, NoticesInv, doubt \subseteq doubt', NEW i \in Instances \cup {None}, Dies(i)
  PROVE  NoticesInv'
<1>1. PICK early \in {"skipped", "queued"} : notice' = [n \in Notes |-> Interrupted(n, i, early)]
  BY DEF Dies
<1>2. ASSUME NEW n \in Notes, NEW c \in Channels  PROVE LogLine(n, c)'
  <2>1. LogLine(n, c) /\ "cut" \in doubt' /\ out' = out
    BY DEF NoticesInv, Dies, Doubted
  <2>2. /\ notice'[n] = None <=> notice[n] = None
        /\ notice[n] # None => notice'[n].way[c] \in {notice[n].way[c], "queued", early}
    BY <1>1, InterruptedFacts
  <2> QED  BY <2>1, <2>2 DEF LogLine, Is
<1> QED  BY <1>2 DEF NoticesInv

(* A reminder is posted by a run, anything else by a request.              *)
Posts == \E n \in Notes, about \in Changes \cup {None}, ways \in SUBSET Channels :
           notice[n] = None /\ notice' = Posted(n, about, None, ways)

LEMMA NoticeSteps ==
  ASSUME TypeOK, [Next]_vars
  PROVE  \/ (notice' = notice \/ Posts) /\ out' = out /\ (job' = job \/ \E i \in Instances : Fires(i) \/ Finishes(i))
         \/ \E n \in Notes, c \in Channels : Send(n, c) \/ Mark(n, c)
         \/ \E i \in Instances : SendNext(i)
         \/ \E i \in Instances \cup {None} : Dies(i)
<1>1. ASSUME NEW about \in Changes \cup {None}, NEW ways \in SUBSET Channels, Post(about, None, ways)
      PROVE  Posts
  BY <1>1 DEF Post, Posts
<1>2. CASE CreateRequest
  <2>1. [change |-> 0, status |-> "open"] \in Changes
    BY UpkeepBounds DEF Changes, Status
  <2>2. notice' = notice \/ Post([change |-> 0, status |-> "open"], None, TicketWays)
    BY <1>2 DEF CreateRequest
  <2>3. notice' = notice \/ Posts
    BY <1>1, <2>1, <2>2, WaysAssumption
  <2> QED  BY <1>2, <2>3 DEF CreateRequest, jobVars
<1>3. ASSUME NEW s \in Desks, WriteUpdate(s)  PROVE (notice' = notice \/ Posts) /\ out' = out /\ job' = job
  <2>1. notice' = notice \/ \E about \in Changes : Post(about, None, TicketWays)
    <3>1. CASE Found
      BY <1>3, <3>1, WriteFacts
    <3>2. CASE ~Found
      BY <1>3, <3>2 DEF WriteUpdate
    <3> QED  BY <3>1, <3>2
  <2>2. notice' = notice \/ Posts
    BY <1>1, <2>1, WaysAssumption
  <2> QED  BY <1>3, <2>2 DEF WriteUpdate, jobVars
<1>4. CASE WriteMessage
  BY <1>1, <1>4 DEF WriteMessage, jobVars
<1>5. ASSUME NEW i \in Instances, Fires(i) \/ Finishes(i)  PROVE notice' = notice /\ out' = out
  BY <1>5 DEF Fires, Finishes, noticeVars
<1>6. CASE NextDay \/ IsSettled
  BY <1>6 DEF NextDay, IsSettled, noticeVars
<1>7. CASE NoticeNext
  BY <1>4, <1>5, <1>6, <1>7 DEF NoticeNext
<1>8. ASSUME NEW s \in Desks,
             \/ BeginUpdate(s) \/ BeginUpload(s) \/ Put(s) \/ InsertRow(s) \/ BeginRemove(s)
             \/ BeginDelete(s) \/ DeleteObject(s) \/ DeleteRows(s) \/ DeleteTicket(s) \/ Stops(s)
      PROVE  notice' = notice /\ out' = out /\ job' = job
  BY <1>8 DEF BeginUpdate, BeginUpload, Put, InsertRow, BeginRemove, BeginDelete, DeleteObject,
              DeleteRows, DeleteTicket, Stops, noticeVars, jobVars
<1> QED  BY <1>2, <1>3, <1>7, <1>8 DEF Next, vars, noticeVars, jobVars

LEMMA LogStep ==
  ASSUME TypeOK, NoticesInv, [Next]_vars
  PROVE  NoticesInv'
<1>1. NoticeTypeOK /\ doubt \subseteq doubt'
  BY DoubtGrows DEF TypeOK
<1>2. CASE notice' = notice /\ out' = out
  BY <1>1, <1>2, LineStays DEF NoticesInv
<1>3. CASE Posts /\ out' = out
  BY <1>1, <1>3, PostKeepsLog, MattersAssumption DEF Posts
<1>4. ASSUME NEW i \in Instances, SendNext(i)  PROVE NoticesInv'
  <2>1. job[i].left \in SUBSET Reminder
    BY <1>1, <1>4, RunFacts DEF SendNext, Free
  <2>2. PICK r \in Reminder, n \in Notes : notice[n] = None /\ notice' = Posted(n, r, i, Channels)
    BY <1>4, <2>1 DEF SendNext
  <2> QED  BY <1>1, <1>4, <2>2, PostKeepsLog DEF SendNext
<1> QED  BY <1>1, <1>2, <1>3, <1>4, NoticeSteps, SendMarkKeepsLog, DeathKeepsLog

-----------------------------------------------------------------------------
(* The files.  An insert has its object for itself; what a removal has     *)
(* passed is gone; rows that a deletion of the request did not list, and a *)
(* request gone before its attachment is written, need an overlap.         *)

Holds(s, f)   == task[s].step = "insert" /\ task[s].file = f
Removes(s, f) == task[s].step = "objects" /\ f \in task[s].files
Past(s, f)    == Removes(s, f) /\ f \notin task[s].todo
Sweeps(s)     == task[s].step = "objects" /\ task[s].all
Uploads(s)    == task[s].step \in {"put", "insert"} /\ task[s].parent = "request"

FileInv(f) ==
  /\ store[f] = "unused" => row[f] = None /\ \A s \in Desks : ~Holds(s, f) /\ ~Removes(s, f)
  /\ \A s \in Desks : Holds(s, f) =>
       /\ row[f] = None /\ store[f] = "kept"
       /\ \A r \in Desks : ~Removes(r, f) /\ (Holds(r, f) => r = s)
  /\ \A s \in Desks : Past(s, f) => store[f] = "deleted" \/ "lost" \in doubt
  /\ \A s \in Desks : Sweeps(s) /\ row[f] = "request" => Removes(s, f) \/ "overlap" \in doubt
  /\ row[f] # None /\ "cut" \notin doubt => store[f] = "kept" \/ \E s \in Desks : Removes(s, f)
  /\ store[f] = "kept" /\ row[f] = None /\ doubt \cap {"cut", "lost", "overlap"} = {}
     => \E s \in Desks : Holds(s, f)

FilesInv ==
  /\ \A f \in Files : FileInv(f)
  /\ \A s \in Desks : task[s].step = "objects" => task[s].todo \subseteq task[s].files
  /\ \A s \in Desks : Uploads(s) => Found \/ "overlap" \in doubt

(* Nothing happens to file f, and task s has it as before.                 *)
LEMMA FileCalm ==
  ASSUME NEW f \in Files, NEW s \in Desks, FileInv(f), doubt \subseteq doubt',
         row'[f] = row[f], store'[f] = store[f],
         \A r \in Desks \ {s} : task'[r] = task[r],
         Holds(s, f)' <=> Holds(s, f), Removes(s, f)' <=> Removes(s, f),
         Past(s, f)' => Past(s, f), Sweeps(s)' => Sweeps(s)
  PROVE  FileInv(f)'
<1>1. \A r \in Desks : /\ Holds(r, f)' <=> Holds(r, f)
                       /\ Removes(r, f)' <=> Removes(r, f)
                       /\ Past(r, f)' => Past(r, f)
                       /\ Sweeps(r)' => Sweeps(r)
  BY DEF Holds, Removes, Past, Sweeps
<1> QED  BY <1>1 DEF FileInv

(* A task of another kind holds and removes nothing.                       *)
LEMMA OtherTasks ==
  ASSUME NEW s \in Desks, NEW f \in Files
  PROVE  /\ task[s].step # "insert" => ~Holds(s, f)
         /\ task[s].step # "objects" => ~Removes(s, f) /\ ~Past(s, f) /\ ~Sweeps(s)
         /\ task[s].step \notin {"put", "insert"} => ~Uploads(s)
         /\ task'[s].step # "insert" => ~Holds(s, f)'
         /\ task'[s].step # "objects" => ~Removes(s, f)' /\ ~Past(s, f)' /\ ~Sweeps(s)'
         /\ task'[s].step \notin {"put", "insert"} => ~Uploads(s)'
  BY DEF Holds, Removes, Past, Sweeps, Uploads

(* The conditions on tasks alone.                                          *)
LEMMA TasksCalm ==
  ASSUME FilesInv, doubt \subseteq doubt', NEW s \in Desks,
         Found => Found' \/ "overlap" \in doubt',
         \A r \in Desks \ {s} : task'[r] = task[r],
         task'[s].step = "objects" => task'[s].todo \subseteq task'[s].files,
         Uploads(s)' => Uploads(s) \/ Found'
  PROVE  /\ \A r \in Desks : task'[r].step = "objects" => task'[r].todo \subseteq task'[r].files
         /\ \A r \in Desks : Uploads(r)' => Found' \/ "overlap" \in doubt'
<1>1. \A r \in Desks \ {s} : Uploads(r)' <=> Uploads(r)
  BY DEF Uploads
<1> QED  BY <1>1 DEF FilesInv

LEMMA FilesIdle ==
  ASSUME FilesInv, doubt \subseteq doubt', UNCHANGED <<row, store, task>>, Found => Found'
  PROVE  FilesInv'
<1>1. ASSUME NEW f \in Files  PROVE FileInv(f)'
  <2>1. FileInv(f)
    BY DEF FilesInv
  <2>2. \A r \in Desks : /\ Holds(r, f)' <=> Holds(r, f)
                         /\ Removes(r, f)' <=> Removes(r, f)
                         /\ Past(r, f)' => Past(r, f)
                         /\ Sweeps(r)' => Sweeps(r)
    BY DEF Holds, Removes, Past, Sweeps
  <2> QED  BY <2>1, <2>2 DEF FileInv
<1>2. \A r \in Desks : Uploads(r)' <=> Uploads(r)
  BY DEF Uploads
<1> QED  BY <1>1, <1>2 DEF FilesInv

LEMMA UpdatesKeepFiles ==
  ASSUME TypeOK, FilesInv, doubt \subseteq doubt', NEW s \in Desks,
         BeginUpdate(s) \/ WriteUpdate(s) \/ BeginUpload(s)
  PROVE  FilesInv'
<1>1. PICK t \in Task :
        /\ task' = [task EXCEPT ![s] = t]
        /\ t.step \in {"update", "idle", "put"}
        /\ t.step = "put" /\ t.parent = "request" => Found
  <2>1. CASE BeginUpdate(s)
    BY <2>1, Tasks DEF BeginUpdate, Begin
  <2>2. CASE WriteUpdate(s)
    BY <2>2, TaskFacts DEF WriteUpdate, End
  <2>3. CASE BeginUpload(s)
    BY <2>3, Tasks DEF BeginUpload, Begin
  <2> QED  BY <2>1, <2>2, <2>3
<1>2. task'[s] = t /\ \A r \in Desks \ {s} : task'[r] = task[r]
  BY <1>1, TaskBecomes
<1>3. task[s].step \in {"update", "idle"}
  BY TaskFacts DEF BeginUpdate, WriteUpdate, BeginUpload, Begin
<1>4. row' = row /\ store' = store
  BY DEF BeginUpdate, WriteUpdate, BeginUpload
<1>5. Found => Found'
  <2>1. CASE WriteUpdate(s)
    BY <2>1, WriteFacts DEF Found, Status
  <2>2. CASE ~WriteUpdate(s)
    BY <2>2 DEF BeginUpdate, BeginUpload, Found
  <2> QED  BY <2>1, <2>2
<1>6. ASSUME NEW f \in Files  PROVE FileInv(f)'
  <2>1. FileInv(f)
    BY DEF FilesInv
  <2> QED  BY <1>1, <1>2, <1>3, <1>4, <2>1, OtherTasks, FileCalm
<1>7. Uploads(s)' => Found'
  BY <1>1, <1>2, <1>5 DEF Uploads
<1> QED  BY <1>1, <1>2, <1>5, <1>6, <1>7, TasksCalm DEF FilesInv

LEMMA PutKeepsFiles ==
  ASSUME TypeOK, FilesInv, doubt \subseteq doubt', NEW s \in Desks, Put(s)
  PROVE  FilesInv'
<1>1. PICK g \in Files :
        /\ store[g] = "unused"
        /\ store' = [store EXCEPT ![g] = "kept"]
        /\ task' = [task EXCEPT ![s] = [step |-> "insert", parent |-> task[s].parent, file |-> g]]
  BY DEF Put, Proceed
<1>2. task[s].step = "put" /\ task[s].parent \in Parent
  BY TaskFacts DEF Put
<1>3. /\ task'[s] = [step |-> "insert", parent |-> task[s].parent, file |-> g]
      /\ \A r \in Desks \ {s} : task'[r] = task[r]
  BY <1>1, <1>2, Tasks, TaskBecomes
<1>4. row' = row /\ Found' = Found /\ doubt' = doubt
  BY DEF Put, Found
<1>5. store'[g] = "kept" /\ \A f \in Files \ {g} : store'[f] = store[f]
  BY <1>1 DEF TypeOK
<1>6. ASSUME NEW f \in Files  PROVE FileInv(f)'
  <2>1. FileInv(f)
    BY DEF FilesInv
  <2>2. CASE f # g
    <3>1. ~Holds(s, f) /\ ~Holds(s, f)'
      BY <1>2, <1>3, <2>2 DEF Holds
    <3> QED  BY <1>2, <1>3, <1>4, <1>5, <2>1, <2>2, <3>1, OtherTasks, FileCalm
  <2>3. CASE f = g
    <3>1. \A r \in Desks : /\ Holds(r, f)' <=> r = s
                           /\ ~Removes(r, f)' /\ ~Past(r, f)'
      BY <1>1, <1>3, <2>1, <2>3 DEF FileInv, Holds, Removes, Past
    <3>2. row[f] = None
      BY <1>1, <2>1, <2>3 DEF FileInv
    <3> QED  BY <1>4, <1>5, <2>3, <3>1, <3>2, NoneIsNoTicket DEF FileInv, Parent
  <2> QED  BY <2>2, <2>3
<1>7. Uploads(s)' => Uploads(s)
  BY <1>2, <1>3 DEF Uploads
<1> QED  BY <1>3, <1>4, <1>6, <1>7, TasksCalm DEF FilesInv

LEMMA InsertKeepsFiles ==
  ASSUME TypeOK, FilesInv, doubt \subseteq doubt', NEW s \in Desks, InsertRow(s)
  PROVE  FilesInv'
<1> DEFINE g == task[s].file
<1>1. task[s].step = "insert" /\ task[s].parent \in Parent /\ g \in Files
  BY TaskFacts DEF InsertRow
<1>2. task'[s] = Idle /\ \A r \in Desks \ {s} : task'[r] = task[r]
  BY TaskFacts, TaskBecomes DEF InsertRow, End
<1>3. store' = store /\ Found' = Found /\ doubt' = doubt \cup Overlap(s)
  BY DEF InsertRow, Found, Doubted
<1>4. \A f \in Files \ {g} : row'[f] = row[f]
  BY DEF InsertRow, TypeOK
<1>5. \/ row'[g] = task[s].parent
      \/ row'[g] = row[g] /\ task[s].parent = "request" /\ ~Found
  BY <1>1 DEF InsertRow, TypeOK
<1>6. \A f \in Files : Holds(s, f) <=> f = g
  BY <1>1 DEF Holds
<1>7. ASSUME NEW f \in Files  PROVE FileInv(f)'
  <2>1. FileInv(f)
    BY DEF FilesInv
  <2>2. CASE f # g
    BY <1>1, <1>2, <1>3, <1>4, <1>6, <2>1, <2>2, OtherTasks, TaskFacts, FileCalm
  <2>3. CASE f = g
    <3>1. /\ row[f] = None /\ store[f] = "kept"
          /\ \A r \in Desks : ~Removes(r, f) /\ (Holds(r, f) => r = s)
      BY <1>6, <2>1, <2>3 DEF FileInv
    <3>2. \A r \in Desks : ~Holds(r, f)' /\ ~Removes(r, f)' /\ ~Past(r, f)'
      BY <1>2, <3>1, TaskFacts DEF Holds, Removes, Past
    <3>3. ASSUME NEW r \in Desks, Sweeps(r)'  PROVE "overlap" \in doubt'
      <4>1. r # s /\ task[r].step = "objects"
        BY <1>2, <3>3, TaskFacts DEF Sweeps
      <4>2. task[r] # Idle
        BY <4>1, TaskFacts
      <4> QED  BY <1>3, <4>1, <4>2, OverlapFacts
    <3>4. row'[f] = None => "overlap" \in doubt'
      <4>1. Uploads(s) /\ ~Found => "overlap" \in doubt
        BY DEF FilesInv
      <4> QED  BY <1>1, <1>3, <1>5, <2>3, <4>1, NoneIsNoTicket DEF Uploads
    <3> QED  BY <1>3, <3>1, <3>2, <3>3, <3>4 DEF FileInv
  <2> QED  BY <2>2, <2>3
<1> QED  BY <1>2, <1>3, <1>7, TaskFacts, OtherTasks, TasksCalm DEF FilesInv, Uploads

LEMMA BeginsKeepFiles ==
  ASSUME TypeOK, FilesInv, doubt \subseteq doubt', NEW s \in Desks, BeginRemove(s) \/ BeginDelete(s)
  PROVE  FilesInv'
<1>1. PICK all \in BOOLEAN, files \in SUBSET Files :
        /\ task' = [task EXCEPT ![s] = [step |-> "objects", all |-> all, files |-> files, todo |-> files]]
        /\ \A f \in files : row[f] # None
        /\ all => files = {f \in Files : row[f] = "request"}
  <2>1. CASE BeginRemove(s)
    <3>1. PICK f \in Files :
            /\ row[f] # None
            /\ task' = [task EXCEPT ![s] = [step |-> "objects", all |-> FALSE, files |-> {f}, todo |-> {f}]]
      BY <2>1 DEF BeginRemove, Begin
    <3> WITNESS FALSE \in BOOLEAN, {f} \in SUBSET Files
    <3> QED  BY <3>1
  <2>2. CASE BeginDelete(s)
    BY <2>2, NoneIsNoTicket DEF BeginDelete, Begin, Parent
  <2> QED  BY <2>1, <2>2
<1>2. /\ task'[s] = [step |-> "objects", all |-> all, files |-> files, todo |-> files]
      /\ \A r \in Desks \ {s} : task'[r] = task[r]
  BY <1>1, Tasks, TaskBecomes
<1>3. task[s].step = "idle"
  BY TaskFacts DEF BeginRemove, BeginDelete, Begin
<1>4. row' = row /\ store' = store /\ Found' = Found /\ doubt' = doubt
  BY DEF BeginRemove, BeginDelete, Found
<1>5. ASSUME NEW f \in Files  PROVE FileInv(f)'
  <2>1. FileInv(f)
    BY DEF FilesInv
  <2>2. /\ \A r \in Desks : Holds(r, f)' <=> Holds(r, f)
        /\ \A r \in Desks : Removes(r, f)' <=> Removes(r, f) \/ (r = s /\ f \in files)
        /\ \A r \in Desks : Past(r, f)' => Past(r, f)
        /\ \A r \in Desks : Sweeps(r)' => Sweeps(r) \/ (r = s /\ all)
    BY <1>2, <1>3 DEF Holds, Removes, Past, Sweeps
  <2>3. \A r \in Desks : Removes(r, f) => Removes(r, f)'
    BY <2>2
  <2>4. f \in files => row[f] # None
    BY <1>1
  <2> QED  BY <1>1, <1>4, <2>1, <2>2, <2>3, <2>4 DEF FileInv
<1>6. ~Uploads(s)' /\ task'[s].todo = task'[s].files
  BY <1>2 DEF Uploads
<1> QED  BY <1>2, <1>4, <1>5, <1>6, TasksCalm DEF FilesInv

LEMMA DeleteObjectKeepsFiles ==
  ASSUME TypeOK, FilesInv, doubt \subseteq doubt', NEW s \in Desks, DeleteObject(s)
  PROVE  FilesInv'
<1>1. PICK g \in task[s].todo :
        /\ task' = [task EXCEPT ![s] = [task[s] EXCEPT !.todo = @ \ {g}]]
        /\ \/ store' = [store EXCEPT ![g] = "deleted"] /\ UNCHANGED doubt
           \/ UNCHANGED store /\ Doubted({"lost"})
  BY DEF DeleteObject, Proceed
<1>2. task[s] \in [step : {"objects"}, all : BOOLEAN, files : SUBSET Files, todo : SUBSET Files]
  BY TaskFacts DEF DeleteObject
<1>3. [task[s] EXCEPT !.todo = @ \ {g}] \in Task
  BY <1>2 DEF Task
<1>4. /\ task'[s] = [task[s] EXCEPT !.todo = @ \ {g}]
      /\ \A r \in Desks \ {s} : task'[r] = task[r]
  BY <1>1, <1>3, TaskBecomes
<1>5. /\ task'[s].step = "objects" /\ task'[s].all = task[s].all
      /\ task'[s].files = task[s].files /\ task'[s].todo = task[s].todo \ {g}
  BY <1>2, <1>4
<1>6. row' = row /\ Found' = Found
  BY DEF DeleteObject, Found
<1>7. /\ g \in Files
      /\ \A f \in Files \ {g} : store'[f] = store[f]
      /\ store'[g] = "deleted" \/ (store'[g] = store[g] /\ "lost" \in doubt')
  BY <1>1, <1>2 DEF TypeOK, Doubted
<1>8. Removes(s, g) /\ task[s].todo \subseteq task[s].files
  BY <1>2 DEF FilesInv, Removes
<1>9. ASSUME NEW f \in Files  PROVE FileInv(f)'
  <2>1. FileInv(f)
    BY DEF FilesInv
  <2>2. CASE f # g
    <3>1. /\ Holds(s, f)' <=> Holds(s, f)
          /\ Removes(s, f)' <=> Removes(s, f)
          /\ Past(s, f)' => Past(s, f)
          /\ Sweeps(s)' => Sweeps(s)
      BY <1>2, <1>5, <2>2 DEF Holds, Removes, Past, Sweeps
    <3> QED  BY <1>4, <1>6, <1>7, <2>1, <2>2, <3>1, FileCalm
  <2>3. CASE f = g
    <3>1. \A r \in Desks : /\ Holds(r, f)' <=> Holds(r, f)
                           /\ Removes(r, f)' <=> Removes(r, f)
                           /\ Past(r, f)' => Past(r, f) \/ r = s
                           /\ Sweeps(r)' => Sweeps(r)
      BY <1>2, <1>4, <1>5 DEF Holds, Removes, Past, Sweeps
    <3>2. \A r \in Desks : ~Holds(r, f)
      BY <1>8, <2>1, <2>3 DEF FileInv
    <3>3. store[f] # "unused"
      BY <1>8, <2>1, <2>3 DEF FileInv
    <3> QED  BY <1>6, <1>7, <1>8, <2>1, <2>3, <3>1, <3>2, <3>3 DEF FileInv
  <2> QED  BY <2>2, <2>3
<1>10. ~Uploads(s)' /\ task'[s].todo \subseteq task'[s].files
  BY <1>5, <1>8 DEF Uploads
<1> QED  BY <1>4, <1>6, <1>9, <1>10, TasksCalm DEF FilesInv

LEMMA DeleteRowsKeepsFiles ==
  ASSUME TypeOK, FilesInv, doubt \subseteq doubt', NEW s \in Desks, DeleteRows(s)
  PROVE  FilesInv'
<1>1. PICK t \in Task : task' = [task EXCEPT ![s] = t] /\ t.step \in {"ticket", "idle"}
  BY TaskFacts, Tasks DEF DeleteRows, Proceed, End
<1>2. task'[s] = t /\ \A r \in Desks \ {s} : task'[r] = task[r]
  BY <1>1, TaskBecomes
<1>3. /\ task[s].step = "objects" /\ task[s].todo = {}
      /\ row' = [f \in Files |->
           IF f \in task[s].files \/ (task[s].all /\ row[f] = "request") THEN None ELSE row[f]]
      /\ store' = store /\ Found' = Found
  BY DEF DeleteRows, Found
<1>4. ASSUME NEW f \in Files  PROVE FileInv(f)'
  <2>1. FileInv(f)
    BY DEF FilesInv
  <2>2. /\ Removes(s, f) <=> f \in task[s].files
        /\ Removes(s, f) => Past(s, f)
        /\ Sweeps(s) <=> task[s].all
        /\ ~Holds(s, f)
    BY <1>3 DEF Removes, Past, Sweeps, Holds
  <2>3. row'[f] = row[f] \/ row'[f] = None
    BY <1>3
  <2>4. /\ \A r \in Desks : Holds(r, f)' <=> Holds(r, f)
        /\ \A r \in Desks : Removes(r, f)' => Removes(r, f)
        /\ \A r \in Desks \ {s} : Removes(r, f)' <=> Removes(r, f)
        /\ \A r \in Desks : Past(r, f)' => Past(r, f)
        /\ \A r \in Desks : Sweeps(r)' => Sweeps(r) /\ r # s
    BY <1>1, <1>2, <1>3 DEF Holds, Removes, Past, Sweeps
  <2>5. Removes(s, f) => row'[f] = None
    BY <1>3, <2>2
  <2>6. row[f] # None /\ row'[f] = None => Removes(s, f) \/ (Sweeps(s) /\ row[f] = "request")
    BY <1>3, <2>2
  <2> QED  BY <1>3, <2>1, <2>2, <2>3, <2>4, <2>5, <2>6, NoneIsNoTicket DEF FileInv, Parent
<1>5. ~Uploads(s)' /\ task'[s].step # "objects"
  BY <1>1, <1>2 DEF Uploads
<1> QED  BY <1>2, <1>3, <1>4, <1>5, TasksCalm DEF FilesInv

LEMMA DeleteTicketKeepsFiles ==
  ASSUME TypeOK, FilesInv, doubt \subseteq doubt', NEW s \in Desks, DeleteTicket(s)
  PROVE  FilesInv'
<1>1. task[s].step = "ticket" /\ row' = row /\ store' = store /\ doubt' = doubt \cup Overlap(s)
  BY DEF DeleteTicket, Doubted
<1>2. task'[s] = Idle /\ \A r \in Desks \ {s} : task'[r] = task[r]
  BY TaskFacts, TaskBecomes DEF DeleteTicket, End
<1>3. ASSUME NEW f \in Files  PROVE FileInv(f)'
  BY <1>1, <1>2, <1>3, TaskFacts, OtherTasks, FileCalm DEF FilesInv
<1>4. ASSUME NEW r \in Desks, task'[r].step = "objects"  PROVE task'[r].todo \subseteq task'[r].files
  BY <1>2, <1>4, TaskFacts DEF FilesInv
<1>5. ASSUME NEW r \in Desks, Uploads(r)'  PROVE "overlap" \in doubt'
  <2>1. r # s /\ task[r].step \in {"put", "insert"}
    BY <1>2, <1>5, TaskFacts DEF Uploads
  <2>2. task[r] # Idle
    BY <2>1, TaskFacts
  <2> QED  BY <1>1, <2>1, <2>2, OverlapFacts
<1> QED  BY <1>3, <1>4, <1>5 DEF FilesInv

LEMMA StopsKeepsFiles ==
  ASSUME TypeOK, FilesInv, doubt \subseteq doubt', NEW s \in Desks, Stops(s)
  PROVE  FilesInv'
<1>1. /\ row' = row /\ store' = store /\ Found' = Found
      /\ task[s].step \in {"insert", "objects"} => "cut" \in doubt'
  BY DEF Stops, Found, Doubted
<1>2. task'[s] = Idle /\ \A r \in Desks \ {s} : task'[r] = task[r]
  BY TaskFacts, TaskBecomes DEF Stops, End
<1>3. ASSUME NEW f \in Files  PROVE FileInv(f)'
  <2>1. FileInv(f)
    BY DEF FilesInv
  <2>2. CASE task[s].step \notin {"insert", "objects"}
    BY <1>1, <1>2, <2>1, <2>2, TaskFacts, OtherTasks, FileCalm
  <2>3. CASE "cut" \in doubt'
    <3>1. /\ \A r \in Desks : Holds(r, f)' => Holds(r, f)
          /\ \A r \in Desks : Removes(r, f)' => Removes(r, f)
          /\ \A r \in Desks : Past(r, f)' => Past(r, f)
          /\ \A r \in Desks : Sweeps(r)' => Sweeps(r) /\ (Removes(r, f)' <=> Removes(r, f))
      BY <1>2, TaskFacts DEF Holds, Removes, Past, Sweeps
    <3> QED  BY <1>1, <2>1, <2>3, <3>1 DEF FileInv
  <2> QED  BY <1>1, <2>2, <2>3
<1>4. ~Uploads(s)' /\ task'[s].step # "objects"
  BY <1>2, TaskFacts DEF Uploads
<1> QED  BY <1>1, <1>2, <1>3, <1>4, TasksCalm DEF FilesInv

LEMMA FilesStep ==
  ASSUME TypeOK, FilesInv, [Next]_vars
  PROVE  FilesInv'
<1>1. doubt \subseteq doubt'
  BY DoubtGrows
<1>2. CASE UNCHANGED vars \/ (NoticeNext /\ UNCHANGED upkeepVars)
  BY <1>1, <1>2, FilesIdle DEF vars, upkeepVars, Found
<1>3. CASE CreateRequest
  BY <1>1, <1>3, FilesIdle DEF CreateRequest, Found
<1> QED  BY <1>1, <1>2, <1>3, UpdatesKeepFiles, PutKeepsFiles, InsertKeepsFiles, BeginsKeepFiles,
            DeleteObjectKeepsFiles, DeleteRowsKeepsFiles, DeleteTicketKeepsFiles, StopsKeepsFiles DEF Next

-----------------------------------------------------------------------------
(* The request.  Nobody has changed the status between an update's read    *)
(* and its write unless handlers overlapped.                               *)

TicketInv ==
  /\ SubmitterKnows
  /\ \A s \in Desks : task[s].step = "update" /\ "overlap" \notin doubt =>
       ticket # None /\ (task[s].news <=> task[s].to # ticket.status)

(* A notice stays, and its e-mail is given up only with a trace.           *)
LEMMA NoticesStay ==
  ASSUME TypeOK, [Next]_vars, NEW n \in Notes, notice[n] # None
  PROVE  /\ notice'[n] # None /\ notice'[n].about = notice[n].about
         /\ notice[n].way["email"] # "skipped" /\ notice'[n].way["email"] = "skipped"
            => doubt' \cap {"unreachable", "cut"} # {}
<1>1. NoticeTypeOK /\ "email" \in Channels
  BY DEF TypeOK, Channels
<1>2. CASE notice' = notice
  BY <1>2
<1>3. CASE Posts
  <2>1. PICK m \in Notes, about \in Changes \cup {None}, ways \in SUBSET Channels :
          notice[m] = None /\ notice' = Posted(m, about, None, ways)
    BY <1>3 DEF Posts
  <2>2. about \in Reminder \cup Matters \cup {None} /\ None \in Instances \cup {None} /\ n # m
    BY <2>1, MattersAssumption
  <2>3. \A k \in Notes \ {m} : notice'[k] = notice[k]
    BY <1>1, <2>1, <2>2, PostedFacts
  <2> QED  BY <2>2, <2>3
<1>4. ASSUME NEW i \in Instances, SendNext(i)  PROVE notice'[n] = notice[n]
  <2>1. job[i].left \in SUBSET Reminder
    BY <1>1, <1>4, RunFacts DEF SendNext, Free
  <2>2. PICK r \in Reminder, m \in Notes : notice[m] = None /\ notice' = Posted(m, r, i, Channels)
    BY <1>4, <2>1 DEF SendNext
  <2> QED  BY <1>1, <2>2, PostedFacts
<1>5. ASSUME NEW m \in Notes, NEW c \in Channels, Send(m, c) \/ Mark(m, c)
      PROVE  /\ notice'[n] # None /\ notice'[n].about = notice[n].about
             /\ notice[n].way["email"] # "skipped" /\ notice'[n].way["email"] = "skipped"
                => doubt' \cap {"unreachable", "cut"} # {}
  <2>1. PICK new \in Settling \cup Ended :
          /\ notice[m] # None /\ Becomes(m, c, new)
          /\ new = "skipped" => (c = "email" => "unreachable" \in doubt')
    BY <1>5 DEF Send, Mark, Is, Settling, Ended, Doubted
  <2>2. CASE n # m
    BY <1>1, <2>1, <2>2, BecomesFacts
  <2>3. CASE n = m /\ c # "email"
    BY <1>1, <2>1, <2>3, BecomesFacts
  <2>4. CASE n = m /\ c = "email"
    BY <1>1, <2>1, <2>4, BecomesFacts
  <2> QED  BY <2>2, <2>3, <2>4
<1>6. ASSUME NEW i \in Instances \cup {None}, Dies(i)
      PROVE  /\ notice'[n] # None /\ notice'[n].about = notice[n].about
             /\ "cut" \in doubt'
  BY <1>1, <1>6, InterruptedFacts DEF Dies, Doubted
<1> QED  BY <1>2, <1>3, <1>4, <1>5, <1>6, NoticeSteps

LEMMA TicketSteps ==
  ASSUME [Next]_vars
  PROVE  ticket' = ticket \/ CreateRequest \/ \E s \in Desks : WriteUpdate(s) \/ DeleteTicket(s)
  BY DEF Next, vars, upkeepVars, BeginUpdate, BeginUpload, Put, InsertRow, BeginRemove, BeginDelete,
         DeleteObject, DeleteRows, Stops

LEMMA TaskSteps ==
  ASSUME TypeOK, [Next]_vars
  PROVE  \/ task' = task
         \/ \E s \in Desks : BeginUpdate(s)
         \/ \E s \in Desks : \E t \in Task : t.step # "update" /\ task' = [task EXCEPT ![s] = t]
<1>1. ASSUME NEW s \in Desks,
             WriteUpdate(s) \/ InsertRow(s) \/ DeleteTicket(s) \/ Stops(s)
      PROVE  \E t \in Task : t.step # "update" /\ task' = [task EXCEPT ![s] = t]
  BY <1>1, TaskFacts DEF WriteUpdate, InsertRow, DeleteTicket, Stops, End
<1>2. ASSUME NEW s \in Desks, BeginUpload(s)
      PROVE  \E t \in Task : t.step # "update" /\ task' = [task EXCEPT ![s] = t]
  BY <1>2, Tasks DEF BeginUpload, Begin
<1>3. ASSUME NEW s \in Desks, Put(s)
      PROVE  \E t \in Task : t.step # "update" /\ task' = [task EXCEPT ![s] = t]
  BY <1>3, TaskFacts, Tasks DEF Put, Proceed
<1>4. ASSUME NEW s \in Desks, BeginRemove(s)
      PROVE  \E t \in Task : t.step # "update" /\ task' = [task EXCEPT ![s] = t]
  <2>1. PICK f \in Files :
          task' = [task EXCEPT ![s] = [step |-> "objects", all |-> FALSE, files |-> {f}, todo |-> {f}]]
    BY <1>4 DEF BeginRemove, Begin
  <2>2. [step |-> "objects", all |-> FALSE, files |-> {f}, todo |-> {f}] \in Task
    BY Tasks
  <2> QED  BY <2>1, <2>2
<1>5. ASSUME NEW s \in Desks, BeginDelete(s)
      PROVE  \E t \in Task : t.step # "update" /\ task' = [task EXCEPT ![s] = t]
  <2>1. PICK files \in SUBSET Files :
          task' = [task EXCEPT ![s] = [step |-> "objects", all |-> TRUE, files |-> files, todo |-> files]]
    BY <1>5 DEF BeginDelete, Begin
  <2>2. [step |-> "objects", all |-> TRUE, files |-> files, todo |-> files] \in Task
    BY Tasks
  <2> QED  BY <2>1, <2>2
<1>6. ASSUME NEW s \in Desks, DeleteObject(s)
      PROVE  \E t \in Task : t.step # "update" /\ task' = [task EXCEPT ![s] = t]
  <2>1. PICK f \in task[s].todo : task' = [task EXCEPT ![s] = [task[s] EXCEPT !.todo = @ \ {f}]]
    BY <1>6 DEF DeleteObject, Proceed
  <2>2. task[s] \in [step : {"objects"}, all : BOOLEAN, files : SUBSET Files, todo : SUBSET Files]
    BY <1>6, TaskFacts DEF DeleteObject
  <2>3. [task[s] EXCEPT !.todo = @ \ {f}] \in Task /\ [task[s] EXCEPT !.todo = @ \ {f}].step = "objects"
    BY <2>2 DEF Task
  <2> QED  BY <2>1, <2>3
<1>7. ASSUME NEW s \in Desks, DeleteRows(s)
      PROVE  \E t \in Task : t.step # "update" /\ task' = [task EXCEPT ![s] = t]
  BY <1>7, TaskFacts, Tasks DEF DeleteRows, Proceed, End
<1>8. CASE CreateRequest \/ UNCHANGED vars \/ (NoticeNext /\ UNCHANGED upkeepVars)
  BY <1>8 DEF CreateRequest, vars, upkeepVars
<1> QED  BY <1>1, <1>2, <1>3, <1>4, <1>5, <1>6, <1>7, <1>8 DEF Next

LEMMA TicketStep ==
  ASSUME TypeOK, TicketInv, [Next]_vars
  PROVE  TicketInv'
<1>1. NoticeTypeOK /\ doubt \subseteq doubt'
  BY DoubtGrows DEF TypeOK
<1>2. ASSUME NEW s \in Desks, task'[s].step = "update", "overlap" \notin doubt'
      PROVE  ticket' # None /\ (task'[s].news <=> task'[s].to # ticket'.status)
  <2>1. CASE \E r \in Desks : BeginUpdate(r)
    <3>1. PICK r \in Desks : BeginUpdate(r)
      BY <2>1
    <3>2. PICK who \in People, to \in Status, news \in BOOLEAN :
            /\ news = (to # ticket.status)
            /\ task' = [task EXCEPT ![r] = [step |-> "update", who |-> who, to |-> to, news |-> news]]
      BY <3>1 DEF BeginUpdate, Begin
    <3>3. PICK t \in Task : t = [step |-> "update", who |-> who, to |-> to, news |-> news]
      BY Tasks
    <3>4. task'[r] = t /\ \A q \in Desks \ {r} : task'[q] = task[q]
      BY <3>2, <3>3, TaskBecomes
    <3>5. ticket' = ticket /\ ticket # None
      BY <3>1 DEF BeginUpdate, Found
    <3>6. CASE s = r
      <4>1. task'[s].news = news /\ task'[s].to = to
        BY <3>3, <3>4, <3>6
      <4>2. news <=> to # ticket.status
        BY <3>2
      <4> QED  BY <3>5, <4>1, <4>2
    <3>7. CASE s # r
      BY <1>1, <1>2, <3>4, <3>5, <3>7 DEF TicketInv
    <3> QED  BY <3>6, <3>7
  <2>2. CASE ~\E r \in Desks : BeginUpdate(r)
    <3>1. task'[s] = task[s]
      BY <1>2, <2>2, TaskSteps, TaskBecomes
    <3>2. ticket # None /\ (task[s].news <=> task[s].to # ticket.status)
      BY <1>1, <1>2, <3>1 DEF TicketInv
    <3>3. ASSUME NEW r \in Desks, WriteUpdate(r) \/ DeleteTicket(r), ticket' # ticket  PROVE FALSE
      <4>1. /\ task[r].step # "idle" /\ task'[r] = Idle
            /\ Doubted(Overlap(r))
        BY <3>3, TaskFacts, TaskBecomes DEF WriteUpdate, DeleteTicket, End
      <4>2. s # r /\ task[s] # Idle
        BY <1>2, <3>1, <4>1, TaskFacts
      <4> QED  BY <1>2, <4>1, <4>2, OverlapFacts DEF Doubted
    <3>4. ~CreateRequest
      BY <3>2 DEF CreateRequest
    <3>5. ticket' = ticket
      BY <3>3, <3>4, TicketSteps
    <3> QED  BY <3>1, <3>2, <3>5
  <2> QED  BY <2>1, <2>2
<1>3. SubmitterKnows'
  <2> SUFFICES ASSUME Found', ticket'.status # "open", ticket'.by # ticket'.submitter,
                      doubt' \subseteq {"lost"}
               PROVE  \E n \in Notes :
                        /\ notice'[n] # None
                        /\ notice'[n].about = [change |-> ticket'.change, status |-> ticket'.status]
                        /\ notice'[n].way["email"] # "skipped"
    BY DEF SubmitterKnows
  <2>1. ASSUME ticket # None, ticket'.change = ticket.change, ticket'.status = ticket.status,
               ticket'.by = ticket.by, ticket'.submitter = ticket.submitter
        PROVE  \E n \in Notes :
                 /\ notice'[n] # None
                 /\ notice'[n].about = [change |-> ticket'.change, status |-> ticket'.status]
                 /\ notice'[n].way["email"] # "skipped"
    <3>1. Found /\ doubt \subseteq {"lost"}
      BY <1>1, <2>1 DEF Found
    <3>2. PICK n \in Notes :
            /\ notice[n] # None
            /\ notice[n].about = [change |-> ticket.change, status |-> ticket.status]
            /\ notice[n].way["email"] # "skipped"
      BY <2>1, <3>1 DEF TicketInv, SubmitterKnows
    <3> QED  BY <2>1, <3>2, NoticesStay
  <2>2. CASE ticket' = ticket
    BY <2>1, <2>2 DEF Found
  <2>3. CASE CreateRequest
    BY <2>3 DEF CreateRequest
  <2>4. ASSUME NEW s \in Desks, DeleteTicket(s)
        PROVE  ticket' = ticket
    <3>1. CASE ticket' # ticket
      <4>1. Found /\ ticket' = [ticket EXCEPT !.status = "deleted"]
        BY <2>4, <3>1 DEF DeleteTicket
      <4>2. ticket'.status = "deleted"
        BY <4>1, TicketFacts DEF Ticket, Found
      <4> QED  BY <4>2 DEF Found
    <3> QED  BY <3>1
  <2>5. ASSUME NEW s \in Desks, WriteUpdate(s), Found
        PROVE  \E n \in Notes :
                 /\ notice'[n] # None
                 /\ notice'[n].about = [change |-> ticket'.change, status |-> ticket'.status]
                 /\ notice'[n].way["email"] # "skipped"
    <3>1. CASE task[s].to = ticket.status
      BY <2>1, <2>5, <3>1, WriteFacts DEF Found
    <3>2. CASE task[s].to # ticket.status
      <4>1. task[s].news
        BY <1>1, <2>5, <3>2, WriteFacts DEF TicketInv
      <4>2. Notifies(task[s])
        BY <2>5, <3>2, <4>1, WriteFacts DEF Notifies
      <4> DEFINE about == [change |-> ticket'.change, status |-> ticket'.status]
      <4>3. PICK b \in Changes \cap Matters : b = about
        BY <2>5, WriteFacts
      <4>4. Post(b, None, TicketWays)
        BY <2>5, <4>2, <4>3, WriteFacts
      <4>5. PICK n \in Notes : notice[n] = None /\ notice' = Posted(n, b, None, TicketWays)
        BY <4>4 DEF Post
      <4>6. /\ notice'[n] # None /\ notice'[n].about = b
            /\ notice'[n].way["email"] = "due"
        BY <1>1, <4>5, PostedFacts, WaysAssumption DEF Channels
      <4> QED  BY <4>3, <4>6
    <3> QED  BY <3>1, <3>2
  <2>6. ASSUME NEW s \in Desks, WriteUpdate(s), ~Found  PROVE ticket' = ticket
    BY <2>6 DEF WriteUpdate
  <2> QED  BY <2>2, <2>3, <2>4, <2>5, <2>6, TicketSteps
<1> QED  BY <1>2, <1>3 DEF TicketInv

-----------------------------------------------------------------------------
(* The jobs.  What was sent, or is about to be, is in its days only until  *)
(* the timers go off anew: a charge due tomorrow is then due, and a lease  *)
(* has left its band.                                                      *)

Told(r) == \E n \in Notes : notice[n] # None /\ notice[n].about = r

Dated(r) ==
  LET days == due[r.of] - day IN
  /\ agenda = "rent"   => days <= 1 /\ (fired = {} => days <= 0)
  /\ agenda = "expiry" => days <= r.tier + 2 /\ (fired = {} => days <= r.tier - 5)

OneRun ==
  /\ \A i \in Instances : job[i] # Idle <=> lock = i
  /\ fired = {} => lock = None

RunInv ==
  "rerun" \notin doubt =>
    /\ \A r \in Reminder : Told(r) => Dated(r)
    /\ \A i \in Instances : job[i] # Idle => \A r \in job[i].left : Dated(r) /\ ~Told(r)

JobsInv == OneRun /\ RunInv /\ RemindedOnce

LEMMA DayFacts ==
  ASSUME NoticeTypeOK, NEW r \in Reminder
  PROVE  /\ day \in Int /\ r.of \in Subjects /\ due[r.of] \in Int /\ r.tier \in {1, 30, 60}
         /\ agenda \in {"rent", "expiry", "message", "none"}
<1>1. r.of \in Subjects /\ r.tier \in {1, 30, 60}
  BY DEF Reminder, Tiers
<1>2. due[r.of] \in Int
  BY <1>1, NoticeBounds DEF NoticeTypeOK
<1>3. day \in Int
  BY NoticeBounds DEF NoticeTypeOK
<1> QED  BY <1>1, <1>2, <1>3 DEF NoticeTypeOK

LEMMA ChangesAreNoReminders ==
  ASSUME NEW c \in Changes \cup {None}
  PROVE  c \notin Reminder
<1>1. CASE c = None
  BY <1>1, NoneIsNobody
<1>2. CASE c \in Changes
  <2>1. DOMAIN c = {"change", "status"}
    BY <1>2 DEF Changes
  <2>2. \A r \in Reminder : DOMAIN r = {"of", "tier"}
    BY DEF Reminder
  <2>3. {"change", "status"} # {"of", "tier"}
    OBVIOUS
  <2> QED  BY <2>1, <2>2, <2>3
<1> QED  BY <1>1, <1>2

(* Only a run that goes on posts reminders.                                *)
Unsent ==
  \/ notice' = notice \/ Posts
  \/ \E n \in Notes, c \in Channels : Send(n, c) \/ Mark(n, c)
  \/ \E i \in Instances \cup {None} : Dies(i)

LEMMA NoNewReminders ==
  ASSUME TypeOK, [Next]_vars, Unsent,
         NEW n \in Notes, notice'[n] # None, notice'[n].about \in Reminder
  PROVE  notice[n] # None /\ notice[n].about = notice'[n].about
<1>1. NoticeTypeOK
  BY DEF TypeOK
<1>2. CASE notice[n] # None
  BY <1>2, NoticesStay
<1>3. CASE notice[n] = None
  <2>1. CASE notice' = notice
    BY <1>3, <2>1
  <2>2. CASE Posts
    <3>1. PICK m \in Notes, about \in Changes \cup {None}, ways \in SUBSET Channels :
            notice[m] = None /\ notice' = Posted(m, about, None, ways)
      BY <2>2 DEF Posts
    <3>2. about \in Reminder \cup Matters \cup {None} /\ None \in Instances \cup {None}
      BY <3>1, MattersAssumption
    <3>3. notice'[m].about = about
      <4>1. notice' = Posted(m, about, None, ways)
        BY <3>1
      <4> QED  BY <1>1, <3>2, <4>1, PostedFacts
    <3>4. \A k \in Notes \ {m} : notice'[k] = notice[k]
      <4>1. notice' = Posted(m, about, None, ways)
        BY <3>1
      <4> QED  BY <1>1, <3>2, <4>1, PostedFacts
    <3> QED  BY <1>3, <3>1, <3>3, <3>4, ChangesAreNoReminders
  <2>3. ASSUME NEW m \in Notes, NEW c \in Channels, Send(m, c) \/ Mark(m, c)  PROVE FALSE
    <3>1. PICK new \in Settling \cup Ended : notice[m] # None /\ Becomes(m, c, new)
      BY <2>3 DEF Send, Mark, Is, Settling, Ended
    <3>2. \A k \in Notes \ {m} : notice'[k] = notice[k]
      BY <1>1, <3>1, BecomesFacts
    <3> QED  BY <1>3, <3>1, <3>2
  <2>4. ASSUME NEW i \in Instances \cup {None}, Dies(i)  PROVE FALSE
    <3>1. notice'[n] = None <=> notice[n] = None
      BY <1>1, <2>4, InterruptedFacts DEF Dies
    <3> QED  BY <1>3, <3>1
  <2> QED  BY <2>1, <2>2, <2>3, <2>4 DEF Unsent
<1> QED  BY <1>2, <1>3

LEMMA RemindersStay ==
  ASSUME TypeOK, RemindedOnce, [Next]_vars, Unsent
  PROVE  RemindedOnce' /\ \A r \in Reminder : Told(r)' => Told(r)
<1>1. doubt \subseteq doubt'
  BY DoubtGrows
<1>2. \A r \in Reminder : Told(r)' => Told(r)
  BY NoNewReminders DEF Told
<1>3. ASSUME "rerun" \notin doubt', NEW n \in Notes, NEW m \in Notes, n # m,
             notice'[n] # None, notice'[m] # None, notice'[n].about \in Reminder,
             notice'[n].about = notice'[m].about
      PROVE  FALSE
  <2>1. notice[n] # None /\ notice[n].about = notice'[n].about
    BY <1>3, NoNewReminders
  <2>2. notice[m] # None /\ notice[m].about = notice'[m].about
    BY <1>3, NoNewReminders
  <2> QED  BY <1>1, <1>3, <2>1, <2>2 DEF RemindedOnce
<1> QED  BY <1>2, <1>3 DEF RemindedOnce

LEMMA JobSteps ==
  ASSUME [Next]_vars
  PROVE  \/ UNCHANGED <<agenda, day, due, fired, lock, job>>
         \/ NextDay
         \/ \E i \in Instances : Fires(i) \/ SendNext(i) \/ Finishes(i)
         \/ \E i \in Instances \cup {None} : Dies(i)
<1>1. CASE UNCHANGED jobVars \/ IsSettled
  BY <1>1 DEF jobVars, IsSettled
<1>2. CASE NoticeNext
  BY <1>1, <1>2 DEF NoticeNext, Send, Mark, WriteMessage
<1>3. CASE CreateRequest \/ UNCHANGED vars
  BY <1>1, <1>3 DEF CreateRequest, vars
<1>4. ASSUME NEW s \in Desks,
             \/ BeginUpdate(s) \/ WriteUpdate(s) \/ BeginUpload(s) \/ Put(s) \/ InsertRow(s)
             \/ BeginRemove(s) \/ BeginDelete(s) \/ DeleteObject(s) \/ DeleteRows(s)
             \/ DeleteTicket(s) \/ Stops(s)
      PROVE  UNCHANGED jobVars
  BY <1>4 DEF BeginUpdate, WriteUpdate, BeginUpload, Put, InsertRow, BeginRemove, BeginDelete,
              DeleteObject, DeleteRows, DeleteTicket, Stops
<1> QED  BY <1>1, <1>2, <1>3, <1>4 DEF Next

(* A day later a reminder that was sent is out of its days.                *)
LEMMA NextDayStep ==
  ASSUME TypeOK, JobsInv, NextDay, [Next]_vars
  PROVE  JobsInv'
<1>1. NoticeTypeOK /\ Unsent
  BY DEF TypeOK, NextDay, noticeVars, Unsent
<1>2. RemindedOnce' /\ \A r \in Reminder : Told(r)' => Told(r)
  BY <1>1, RemindersStay DEF JobsInv
<1>3. /\ \A i \in Instances : job'[i] = Idle /\ job[i] = Idle
      /\ lock' = lock /\ fired' = {} /\ doubt' = doubt /\ agenda' = agenda /\ due' = due
      /\ agenda \in {"rent", "expiry"} /\ day' = day + (IF agenda = "expiry" THEN 7 ELSE 1)
  BY DEF NextDay
<1>4. lock = None
  BY <1>1, <1>3 DEF JobsInv, OneRun, NoticeTypeOK
<1>5. OneRun'
  BY <1>3, <1>4, NoneIsNobody DEF OneRun
<1>6. ASSUME NEW r \in Reminder, Dated(r)  PROVE Dated(r)'
  <2>1. /\ day \in Int /\ due[r.of] \in Int /\ r.tier \in Int
    BY <1>1, DayFacts
  <2>2. CASE agenda = "rent"
    BY <1>3, <1>6, <2>1, <2>2 DEF Dated
  <2>3. CASE agenda = "expiry"
    BY <1>3, <1>6, <2>1, <2>3 DEF Dated
  <2> QED  BY <1>3, <2>2, <2>3
<1>7. RunInv'
  BY <1>2, <1>3, <1>6 DEF RunInv, JobsInv
<1> QED  BY <1>2, <1>5, <1>7 DEF JobsInv

(* The first run of a day selects what was not sent.                       *)
LEMMA FiresStep ==
  ASSUME TypeOK, JobsInv, NEW i \in Instances, Fires(i), [Next]_vars
  PROVE  JobsInv'
<1>1. NoticeTypeOK /\ notice' = notice
  BY DEF TypeOK, Fires, noticeVars
<1>2. RemindedOnce' /\ \A r \in Reminder : Told(r)' <=> Told(r)
  BY <1>1, DoubtGrows DEF JobsInv, RemindedOnce, Told
<1>3. /\ fired' = fired \cup {i} /\ agenda \in {"rent", "expiry"}
      /\ agenda' = agenda /\ day' = day /\ due' = due
  BY DEF Fires
<1>4. ASSUME NEW r \in Reminder, Dated(r)  PROVE Dated(r)'
  BY <1>3, <1>4 DEF Dated
<1>5. CASE lock # None
  <2>1. lock' = lock /\ job' = job /\ doubt' = doubt
    BY <1>5 DEF Fires
  <2>2. \A j \in Instances : job[j] # Idle => job[j].left \in SUBSET Reminder
    BY <1>1, RunFacts
  <2>3. OneRun'
    BY <1>3, <2>1 DEF JobsInv, OneRun
  <2>4. RunInv'
    BY <1>2, <1>4, <2>1, <2>2 DEF JobsInv, RunInv
  <2> QED  BY <1>2, <2>3, <2>4 DEF JobsInv
<1>6. CASE lock = None
  <2>1. PICK left \in {Selected, {}} :
          job' = [job EXCEPT ![i] = [step |-> "run", left |-> left, now |-> None]]
    BY <1>6 DEF Fires
  <2>2. /\ job'[i] = [step |-> "run", left |-> left, now |-> None]
        /\ \A j \in Instances \ {i} : job'[j] = job[j]
    BY <1>1, <2>1 DEF NoticeTypeOK
  <2>3. lock' = i /\ (fired # {} => "rerun" \in doubt') /\ doubt \subseteq doubt'
    BY <1>6, DoubtGrows DEF Fires, Doubted
  <2>4. \A j \in Instances : job[j] = Idle
    BY <1>6, NoneIsNobody DEF JobsInv, OneRun
  <2>5. OneRun'
    BY <1>3, <2>2, <2>3, <2>4, RunsAreNotIdle DEF OneRun
  <2>6. ASSUME NEW r \in Selected  PROVE r \in Reminder /\ Dated(r)' /\ (fired = {} => ~Dated(r))
    <3>1. r \in Reminder /\ r.tier \in Tier(r.of)
      BY DEF Selected
    <3>2. day \in Int /\ due[r.of] \in Int /\ r.tier \in {1, 30, 60}
      BY <1>1, <3>1, DayFacts
    <3> DEFINE days == due[r.of] - day
    <3>3. days \in Int
      BY <3>2
    <3>4. CASE agenda = "rent"
      <4>1. days = 1
        BY <3>1, <3>4 DEF Tier
      <4>2. Dated(r)' /\ (fired = {} => ~Dated(r))
        BY <1>3, <3>4, <4>1 DEF Dated
      <4> QED  BY <3>1, <4>2
    <3>5. CASE agenda = "expiry"
      <4>1. \/ days \in 58 .. 62 /\ r.tier = 60
            \/ days \in 28 .. 32 /\ r.tier = 30
        BY <3>1, <3>5 DEF Tier
      <4>2. days <= r.tier + 2 /\ ~(days <= r.tier - 5)
        BY <3>3, <4>1
      <4>3. Dated(r)' /\ (fired = {} => ~Dated(r))
        BY <1>3, <3>5, <4>2 DEF Dated
      <4> QED  BY <3>1, <4>3
    <3> QED  BY <1>3, <3>4, <3>5
  <2>7. ASSUME "rerun" \notin doubt'
        PROVE  /\ \A r \in Reminder : Told(r)' => Dated(r)'
               /\ \A j \in Instances : job'[j] # Idle => \A r \in job'[j].left : Dated(r)' /\ ~Told(r)'
    <3>1. fired = {} /\ \A r \in Reminder : Told(r) => Dated(r)
      BY <2>3, <2>7 DEF JobsInv, RunInv
    <3>2. job'[i].left = left
      BY <2>2
    <3>3. \A r \in left : r \in Reminder /\ Dated(r)' /\ ~Told(r)'
      BY <1>2, <2>6, <3>1
    <3> QED  BY <1>2, <1>4, <2>2, <2>4, <3>1, <3>2, <3>3
  <2>8. RunInv'
    BY <2>7 DEF RunInv
  <2> QED  BY <1>2, <2>5, <2>8 DEF JobsInv
<1> QED  BY <1>5, <1>6

LEMMA SendNextStep ==
  ASSUME TypeOK, JobsInv, NEW i \in Instances, SendNext(i)
  PROVE  JobsInv'
<1>1. NoticeTypeOK
  BY DEF TypeOK
<1>2. job[i] \in [step : {"run"}, left : SUBSET Reminder, now : Notes \cup {None}] /\ job[i] # Idle
  BY <1>1, RunFacts DEF SendNext, Free
<1>3. PICK r \in job[i].left, n \in Notes :
        /\ notice[n] = None
        /\ notice' = Posted(n, r, i, Channels)
        /\ job' = [job EXCEPT ![i].left = @ \ {r}, ![i].now = n]
  BY DEF SendNext
<1>4. r \in Reminder
  BY <1>2, <1>3
<1>5. /\ notice'[n] # None /\ notice'[n].about = r
      /\ \A m \in Notes \ {n} : notice'[m] = notice[m]
  <2>1. notice' = Posted(n, r, i, Channels)
    BY <1>3
  <2> QED  BY <1>1, <1>4, <2>1, PostedFacts
<1>6. job' = [job EXCEPT ![i] = [job[i] EXCEPT !.left = @ \ {r}, !.now = n]]
  <2>1. job' = [job EXCEPT ![i].left = @ \ {r}, ![i].now = n]
    BY <1>3
  <2> QED  BY <1>1, <2>1 DEF NoticeTypeOK
<1>7. /\ job'[i] = [job[i] EXCEPT !.left = @ \ {r}, !.now = n]
      /\ \A j \in Instances \ {i} : job'[j] = job[j]
  BY <1>1, <1>6 DEF NoticeTypeOK
<1>8. job'[i] # Idle /\ job'[i].left = job[i].left \ {r}
  <2>1. job'[i].step = "run" /\ job'[i].left = job[i].left \ {r}
    BY <1>2, <1>7
  <2> QED  BY <2>1 DEF Idle
<1>9. UNCHANGED <<agenda, day, due, fired, lock, doubt>>
  BY DEF SendNext
<1>10. OneRun'
  BY <1>2, <1>7, <1>8, <1>9 DEF JobsInv, OneRun
<1>11. \A j \in Instances \ {i} : job[j] = Idle
  BY <1>2 DEF JobsInv, OneRun
<1>12. \A q \in Reminder : (Told(q)' <=> Told(q) \/ q = r) /\ (Dated(q)' <=> Dated(q))
  BY <1>3, <1>5, <1>9 DEF Told, Dated
<1>13. ASSUME "rerun" \notin doubt  PROVE Dated(r) /\ ~Told(r)
  BY <1>2, <1>3, <1>13 DEF JobsInv, RunInv
<1>14. RunInv'
  <2> SUFFICES ASSUME "rerun" \notin doubt
               PROVE  /\ \A q \in Reminder : Told(q)' => Dated(q)'
                      /\ \A j \in Instances : job'[j] # Idle => \A q \in job'[j].left : Dated(q)' /\ ~Told(q)'
    BY <1>9 DEF RunInv
  <2>1. /\ \A q \in Reminder : Told(q) => Dated(q)
        /\ \A q \in job[i].left : Dated(q) /\ ~Told(q)
    BY <1>2 DEF JobsInv, RunInv
  <2>2. \A q \in Reminder : Told(q)' => Dated(q)'
    BY <1>12, <1>13, <2>1
  <2>3. \A q \in job'[i].left : q \in Reminder /\ q # r /\ Dated(q) /\ ~Told(q)
    BY <1>2, <1>8, <2>1
  <2>4. \A q \in job'[i].left : Dated(q)' /\ ~Told(q)'
    BY <1>12, <2>3
  <2> QED  BY <1>7, <1>11, <2>2, <2>4
<1>15. RemindedOnce'
  <2> SUFFICES ASSUME "rerun" \notin doubt, NEW k \in Notes, NEW m \in Notes, k # m,
                      notice'[k] # None, notice'[m] # None, notice'[k].about \in Reminder,
                      notice'[k].about = notice'[m].about
               PROVE  FALSE
    BY <1>9 DEF RemindedOnce
  <2>1. CASE k # n /\ m # n
    BY <1>5, <2>1 DEF JobsInv, RemindedOnce
  <2>2. CASE k = n \/ m = n
    BY <1>5, <1>13, <2>2 DEF Told
  <2> QED  BY <2>1, <2>2
<1> QED  BY <1>10, <1>14, <1>15 DEF JobsInv

(* A run ends, in order or not.                                            *)
LEMMA RunEndsStep ==
  ASSUME TypeOK, JobsInv, [Next]_vars, NEW i \in Instances \cup {None},
         Dies(i) \/ (i \in Instances /\ Finishes(i))
  PROVE  JobsInv'
<1>1. NoticeTypeOK
  BY DEF TypeOK
<1>2. /\ UNCHANGED <<agenda, day, due, fired>>
      /\ \A j \in Instances : job'[j] = IF j = i THEN Idle ELSE job[j]
      /\ lock = i => lock' = None
      /\ lock # i => lock' = lock \/ lock' = None
      /\ doubt \subseteq doubt'
  BY <1>1, DoubtGrows DEF Dies, Finishes, NoticeTypeOK
<1>3. lock # i => lock' = lock
  BY <1>1 DEF Dies, Finishes, JobsInv, OneRun, Free
<1>4. OneRun'
  <2>1. \A j \in Instances : job[j] # Idle <=> lock = j
    BY DEF JobsInv, OneRun
  <2>2. fired' = {} => lock' = None
    BY <1>2, <1>3 DEF JobsInv, OneRun
  <2>3. \A j \in Instances : job'[j] # Idle <=> lock' = j
    <3>1. CASE lock = i
      BY <1>2, <2>1, <3>1, NoneIsNobody
    <3>2. CASE lock # i
      BY <1>2, <1>3, <2>1, <3>2
    <3> QED  BY <3>1, <3>2
  <2> QED  BY <2>2, <2>3 DEF OneRun
<1>5. Unsent
  BY DEF Unsent, Finishes, noticeVars
<1>6. RemindedOnce' /\ \A r \in Reminder : Told(r)' => Told(r)
  BY <1>5, RemindersStay DEF JobsInv
<1>7. \A r : Dated(r)' <=> Dated(r)
  BY <1>2 DEF Dated
<1>8. RunInv'
  <2>1. \A j \in Instances : job[j] # Idle => job[j].left \in SUBSET Reminder
    BY <1>1, RunFacts
  <2> QED  BY <1>2, <1>6, <1>7, <2>1 DEF JobsInv, RunInv
<1> QED  BY <1>4, <1>6, <1>8 DEF JobsInv

LEMMA JobsStep ==
  ASSUME TypeOK, JobsInv, [Next]_vars
  PROVE  JobsInv'
<1>1. NoticeTypeOK /\ doubt \subseteq doubt'
  BY DoubtGrows DEF TypeOK
<1>2. CASE UNCHANGED <<agenda, day, due, fired, lock, job>>
  <2>1. ~\E i \in Instances : SendNext(i)
    <3> SUFFICES ASSUME NEW i \in Instances, SendNext(i)  PROVE FALSE
      OBVIOUS
    <3>1. job[i] \in [step : {"run"}, left : SUBSET Reminder, now : Notes \cup {None}]
      BY <1>1, RunFacts DEF SendNext, Free
    <3>2. PICK r \in job[i].left, n \in Notes : job' = [job EXCEPT ![i].left = @ \ {r}, ![i].now = n]
      BY DEF SendNext
    <3>3. job'[i].left = job[i].left \ {r}
      BY <1>1, <3>1, <3>2 DEF NoticeTypeOK
    <3> QED  BY <1>2, <3>2, <3>3
  <2>2. Unsent
    BY <2>1, NoticeSteps DEF Unsent
  <2>3. RemindedOnce' /\ \A r \in Reminder : Told(r)' => Told(r)
    BY <2>2, RemindersStay DEF JobsInv
  <2>4. \A r : Dated(r)' <=> Dated(r)
    BY <1>2 DEF Dated
  <2>5. OneRun'
    BY <1>2 DEF JobsInv, OneRun
  <2>6. RunInv'
    <3>1. \A j \in Instances : job[j] # Idle => job[j].left \in SUBSET Reminder
      BY <1>1, RunFacts
    <3> QED  BY <1>1, <1>2, <2>3, <2>4, <3>1 DEF JobsInv, RunInv
  <2> QED  BY <2>3, <2>5, <2>6 DEF JobsInv
<1> QED  BY <1>2, JobSteps, NextDayStep, FiresStep, SendNextStep, RunEndsStep

LEMMA InitHolds ==
  ASSUME Init
  PROVE  TypeOK /\ NoticesInv /\ FilesInv /\ TicketInv /\ JobsInv
<1>1. NoticeTypeOK
  <2>1. due \in [Subjects -> RentDays \cup LeaseEnds]
    <3>1. (CHOOSE d \in RentDays : TRUE) \in RentDays
      BY NoticeBounds
    <3> QED  BY <3>1 DEF Init, NoticeInit
  <2>2. day \in 0 .. LastDay
    BY NoticeBounds DEF Init, NoticeInit
  <2> QED  BY <2>1, <2>2 DEF Init, NoticeInit, NoticeTypeOK, Run
<1>2. task \in [Desks -> Task]
  BY DEF Init, Task
<1>3. TypeOK
  BY <1>1, <1>2 DEF Init, TypeOK
<1>4. NoticesInv
  BY DEF Init, NoticeInit, NoticesInv, LogLine, Is
<1>5. FilesInv
  <2>1. \A s \in Desks : task[s].step = "idle"
    BY DEF Init, Idle
  <2>2. \A f \in Files : store[f] = "unused" /\ row[f] = None
    BY DEF Init
  <2> QED  BY <2>1, <2>2, NoneIsNoTicket DEF FilesInv, FileInv, Holds, Removes, Past, Sweeps, Uploads, Parent
<1>6. TicketInv
  BY DEF Init, Idle, Found, TicketInv, SubmitterKnows
<1>7. JobsInv
  BY NoneIsNobody DEF Init, NoticeInit, JobsInv, OneRun, RunInv, RemindedOnce, Told
<1> QED  BY <1>3, <1>4, <1>5, <1>6, <1>7

-----------------------------------------------------------------------------
(* The theorems.                                                           *)

THEOREM UpkeepInvariant ==
  Spec => [](TypeOK /\ NoticesInv /\ FilesInv /\ TicketInv /\ JobsInv)
<1> DEFINE Inv == TypeOK /\ NoticesInv /\ FilesInv /\ TicketInv /\ JobsInv
<1>1. Init => Inv
  BY InitHolds
<1>2. Inv /\ [Next]_vars => Inv'
  BY StepType, LogStep, FilesStep, TicketStep, JobsStep
<1> QED  BY <1>1, <1>2, PTL DEF Spec

(* Notices, requests, files and handlers keep their types.                 *)
THEOREM TypesHold == Spec => []TypeOK
  BY UpkeepInvariant, PTL

(* The log says "sent" only of what was delivered, and "failed" of what    *)
(* was delivered only after an answer was lost or a process stopped        *)
(* (sendEmail, sendSms and updateStatus of notificationService).           *)
THEOREM LogTellsTheTruth == Spec => []LogIsHonest
<1>1. NoticesInv => LogIsHonest
  BY DEF NoticesInv, LogLine, LogIsHonest
<1> QED  BY <1>1, UpkeepInvariant, PTL

(* A row leads to an object unless a removal was cut short, and an object  *)
(* has a row or an upload about to write it unless handlers overlapped, one*)
(* stopped or the bucket did not delete (addAttachment, deleteRequest,     *)
(* uploadDocument, deleteDocument).                                        *)
THEOREM RowsHaveFiles == Spec => []FilesMatchRows
<1>1. FilesInv => FilesMatchRows
  BY DEF FilesInv, FileInv, FilesMatchRows, Holds, Removes
<1> QED  BY <1>1, UpkeepInvariant, PTL

(* Who submitted a request is told of the status it has when somebody else *)
(* set it, or the log shows the attempt, unless updates overlapped, the    *)
(* notice could not be written or a process stopped (updateRequest).       *)
THEOREM NoSilentStatus == Spec => []SubmitterKnows
<1>1. TicketInv => SubmitterKnows
  BY DEF TicketInv
<1> QED  BY <1>1, UpkeepInvariant, PTL

(* No reminder goes out twice unless an instance found the lock free again *)
(* on a day the job had run (rentReminder, leaseExpiry, withAdvisoryLock). *)
THEOREM NobodyRemindedTwice == Spec => []RemindedOnce
<1>1. JobsInv => RemindedOnce
  BY DEF JobsInv
<1> QED  BY <1>1, UpkeepInvariant, PTL

=============================================================================
