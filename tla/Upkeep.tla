-------------------------------- MODULE Upkeep --------------------------------
(***************************************************************************)
(* A maintenance request, the files attached to it, the documents of a     *)
(* landlord, and the notices that tell people what became of the request.  *)
(* A file is an object in the bucket and a row in the database; the two    *)
(* are written and deleted one after the other.  Every await is a step:    *)
(* handlers interleave, stop between two steps, and storage calls fail.    *)
(*                                                                         *)
(* Titles, categories and priorities are left out; files of a request and  *)
(* documents follow one protocol and differ in their parent.  A behaviour  *)
(* is about the request, about files, or about one of the jobs of Notices. *)
(***************************************************************************)
EXTENDS Notices

CONSTANTS
  TicketWays, \* channels with templates for what happens to a request
  Files,      \* objects, each with its random key
  Desks,      \* bound: handlers in progress at a time
  MaxChanges  \* bound: changes of status

ASSUME UpkeepBounds == MaxChanges \in Nat
ASSUME WaysAssumption == "email" \in TicketWays /\ TicketWays \subseteq Channels

VARIABLES
  desk,    \* what callers ask for in this behaviour
  ticket,  \* the maintenance request
  store,   \* the bucket
  row,     \* rows of maintenance_attachments and documents, by file
  task     \* what each handler is doing

upkeepVars == <<desk, ticket, store, row, task>>
vars == <<upkeepVars, noticeVars, jobVars, doubt>>

People == {"tenant", "landlord", "employee"}
Status == {"open", "in_progress", "completed", "cancelled"}
Parent == {"request", "document"}

(* A ticket counts its changes of status and remembers who made the last;  *)
(* there is one in a behaviour.                                            *)
Ticket == [status : Status \cup {"deleted"}, submitter : People, by : People, change : 0 .. MaxChanges]

ASSUME NoneIsNoTicket == None \notin Ticket \cup Parent

(* What a notice of this module is about: one change of status.            *)
Changes == [change : 0 .. MaxChanges, status : Status]

ASSUME MattersAssumption == Changes \subseteq Matters

Task ==
  {Idle} \cup [step : {"update"}, who : People, to : Status, news : BOOLEAN]
         \cup [step : {"put"}, parent : Parent]
         \cup [step : {"insert"}, parent : Parent, file : Files]
         \cup [step : {"objects"}, all : BOOLEAN, files : SUBSET Files, todo : SUBSET Files]
         \cup [step : {"ticket"}]

TypeOK ==
  /\ NoticeTypeOK
  /\ desk   \in {"request", "files", "none"}
  /\ ticket \in Ticket \cup {None}
  /\ store  \in [Files -> {"unused", "kept", "deleted"}]
  /\ row    \in [Files -> Parent \cup {None}]
  /\ task   \in [Desks -> Task]

Init ==
  /\ \/ desk \in {"request", "files"} /\ agenda = "none"
     \/ desk = "none" /\ agenda \in {"rent", "expiry", "message"}
  /\ NoticeInit
  /\ ticket = None
  /\ store  = [f \in Files |-> "unused"]
  /\ row    = [f \in Files |-> None]
  /\ task   = [s \in Desks |-> Idle]

Found == ticket # None /\ ticket.status # "deleted"

Begin(s, t)   == task[s] = Idle /\ task' = [task EXCEPT ![s] = t]
Proceed(s, t) == task' = [task EXCEPT ![s] = t]
End(s)        == task' = [task EXCEPT ![s] = Idle]

(* A write with another handler in progress.                               *)
Overlap(s) == IF \E t \in Desks \ {s} : task[t] # Idle THEN {"overlap"} ELSE {}

-----------------------------------------------------------------------------
(* The request.                                                            *)

(* The owner hears of it unless he submitted it himself.                   *)
CreateRequest ==
  \E who \in People :
    /\ desk # "none"
    /\ ticket = None
    /\ ticket' = [status |-> "open", submitter |-> who, by |-> who, change |-> 0]
    /\ IF who = "landlord" THEN UNCHANGED notice
       ELSE Post([change |-> 0, status |-> "open"], None, TicketWays)
    /\ UNCHANGED <<desk, store, row, task, out, jobVars, doubt>>

(* A tenant may only cancel a request of his own that he reads as open;    *)
(* "news" is a status that differs from the one read.                      *)
BeginUpdate(s) ==
  \E who \in People, to \in Status :
    /\ desk = "request"
    /\ Found
    /\ ticket.change < MaxChanges
    /\ who = "tenant" => ticket.submitter = who /\ ticket.status = "open" /\ to = "cancelled"
    /\ Begin(s, [step |-> "update", who |-> who, to |-> to, news |-> to # ticket.status])
    /\ UNCHANGED <<desk, ticket, store, row, noticeVars, jobVars, doubt>>

(* Mutation: no notice is sent of a cancellation.                          *)
NotifiesUnlessCancelled(t) == t.to \notin {"open", "cancelled"} /\ t.news /\ ticket.submitter # t.who

(* The submitter hears of a status that differs from the one read, unless  *)
(* the change is his own or opens the request again.                       *)
Notifies(t) == t.to # "open" /\ t.news /\ ticket.submitter # t.who

WriteUpdate(s) ==
  LET t       == task[s]
      changes == t.to # ticket.status
      number  == ticket.change + (IF changes THEN 1 ELSE 0)
  IN
  /\ t.step = "update"
  /\ End(s)
  /\ \/ ~Found /\ UNCHANGED <<ticket, notice, doubt>>
     \/ /\ Found
        /\ number <= MaxChanges
        /\ ticket' = [ticket EXCEPT !.status = t.to, !.change = number,
                                    !.by = IF changes THEN t.who ELSE @]
        /\ IF Notifies(t)
           THEN Post([change |-> number, status |-> t.to], None, TicketWays)
           ELSE UNCHANGED notice
        /\ Doubted(Overlap(s))
  /\ UNCHANGED <<desk, store, row, out, jobVars>>

-----------------------------------------------------------------------------
(* Files.                                                                  *)

BeginUpload(s) ==
  \E parent \in Parent :
    /\ desk = "files"
    /\ parent = "request" => Found
    /\ Begin(s, [step |-> "put", parent |-> parent])
    /\ UNCHANGED <<desk, ticket, store, row, noticeVars, jobVars, doubt>>

Put(s) ==
  /\ task[s].step = "put"
  /\ \E f \in Files :
       /\ store[f] = "unused"
       /\ store' = [store EXCEPT ![f] = "kept"]
       /\ Proceed(s, [step |-> "insert", parent |-> task[s].parent, file |-> f])
  /\ UNCHANGED <<desk, ticket, row, noticeVars, jobVars, doubt>>

(* The foreign key refuses an attachment of a request that is gone.        *)
InsertRow(s) ==
  /\ task[s].step = "insert"
  /\ row' = IF task[s].parent = "request" /\ ~Found THEN row
            ELSE [row EXCEPT ![task[s].file] = task[s].parent]
  /\ Doubted(Overlap(s))
  /\ End(s)
  /\ UNCHANGED <<desk, ticket, store, noticeVars, jobVars>>

BeginRemove(s) ==
  \E f \in Files :
    /\ row[f] # None
    /\ Begin(s, [step |-> "objects", all |-> FALSE, files |-> {f}, todo |-> {f}])
    /\ UNCHANGED <<desk, ticket, store, row, noticeVars, jobVars, doubt>>

(* Mutation: the rows of a deleted request go, the objects stay.           *)
BeginDeleteRowsOnly(s) ==
  /\ Found
  /\ Begin(s, [step |-> "objects", all |-> TRUE, files |-> {}, todo |-> {}])
  /\ UNCHANGED <<desk, ticket, store, row, noticeVars, jobVars, doubt>>

BeginDelete(s) ==
  /\ Found
  /\ LET files == {f \in Files : row[f] = "request"} IN
       Begin(s, [step |-> "objects", all |-> TRUE, files |-> files, todo |-> files])
  /\ UNCHANGED <<desk, ticket, store, row, noticeVars, jobVars, doubt>>

(* A deletion that fails is logged and passed over.                        *)
DeleteObject(s) ==
  /\ task[s].step = "objects"
  /\ \E f \in task[s].todo :
       /\ Proceed(s, [task[s] EXCEPT !.todo = @ \ {f}])
       /\ \/ store' = [store EXCEPT ![f] = "deleted"] /\ UNCHANGED doubt
          \/ UNCHANGED store /\ Doubted({"lost"})
  /\ UNCHANGED <<desk, ticket, row, noticeVars, jobVars>>

(* Every row of a request goes, listed before or not.                      *)
DeleteRows(s) ==
  LET t == task[s] IN
  /\ t.step = "objects"
  /\ t.todo = {}
  /\ row' = [f \in Files |-> IF f \in t.files \/ (t.all /\ row[f] = "request") THEN None ELSE row[f]]
  /\ IF t.all THEN Proceed(s, [step |-> "ticket"]) ELSE End(s)
  /\ Doubted(Overlap(s))
  /\ UNCHANGED <<desk, ticket, store, noticeVars, jobVars>>

(* The foreign key keeps a request that has an attachment again.           *)
DeleteTicket(s) ==
  /\ task[s].step = "ticket"
  /\ ticket' = IF ~Found \/ \E f \in Files : row[f] = "request" THEN ticket
               ELSE [ticket EXCEPT !.status = "deleted"]
  /\ Doubted(Overlap(s))
  /\ End(s)
  /\ UNCHANGED <<desk, store, row, noticeVars, jobVars>>

(* A call throws or the process dies between two steps.                    *)
Stops(s) ==
  /\ task[s] # Idle
  /\ Doubted(IF task[s].step \in {"insert", "objects"} THEN {"cut"} ELSE {})
  /\ End(s)
  /\ UNCHANGED <<desk, ticket, store, row, noticeVars, jobVars>>

Next ==
  \/ CreateRequest
  \/ \E s \in Desks : BeginUpdate(s) \/ WriteUpdate(s)
  \/ \E s \in Desks : BeginUpload(s) \/ Put(s) \/ InsertRow(s) \/ BeginRemove(s)
  \/ \E s \in Desks : BeginDelete(s) \/ DeleteObject(s) \/ DeleteRows(s) \/ DeleteTicket(s)
  \/ \E s \in Desks : Stops(s)
  \/ NoticeNext /\ UNCHANGED upkeepVars

Spec == Init /\ [][Next]_vars

-----------------------------------------------------------------------------
(* A row leads to an object unless a removal was cut short, however many   *)
(* handlers are at work; an object has a row or an upload about to write   *)
(* it, unless handlers overlapped, one stopped or the bucket did not       *)
(* delete: a download never fails for, and nothing is stored by, a request *)
(* or a document that was added and removed one thing at a time.           *)
FilesMatchRows ==
  \A f \in Files :
    /\ row[f] # None /\ "cut" \notin doubt
       => store[f] = "kept" \/ \E s \in Desks : task[s].step = "objects" /\ f \in task[s].files
    /\ store[f] = "kept" /\ row[f] = None /\ doubt \cap {"cut", "lost", "overlap"} = {}
       => \E s \in Desks : task[s].step = "insert" /\ task[s].file = f

(* Who submitted a request is told of the status it has, or the log shows  *)
(* that the attempt failed: a status set by somebody else is never silent, *)
(* unless updates overlapped, the notice could not be written or a process *)
(* stopped.                                                                *)
SubmitterKnows ==
  /\ Found
  /\ ticket.status # "open"
  /\ ticket.by # ticket.submitter
  /\ doubt \subseteq {"lost"}
  => \E n \in Notes :
       /\ notice[n] # None
       /\ notice[n].about = [change |-> ticket.change, status |-> ticket.status]
       /\ notice[n].way["email"] # "skipped"
===============================================================================
