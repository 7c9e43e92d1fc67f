------------------------------- MODULE Notices --------------------------------
(***************************************************************************)
(* Notices to tenants and landlords: a notice goes out by e-mail and by    *)
(* text at the same time, each with an entry in notifications_log, and two *)
(* of the scheduled jobs send them: the daily reminder of the rent due     *)
(* tomorrow and the weekly warning of leases that end, in two bands.       *)
(* Every await is a step.  Providers may refuse or lose an answer, the log *)
(* may be out of reach, an instance of the server may stop at any point.   *)
(*                                                                         *)
(* Why an address cannot be reached (no template, no address, a bounce) is *)
(* left out, and so is the wording.  A behaviour has one of the two jobs:  *)
(* they share no charge, no lease and no lock.                             *)
(***************************************************************************)
EXTENDS Integers, FiniteSets

CONSTANTS
  Notes,      \* bound: notices in one behaviour
  Matters,    \* what a notice can be about besides reminders
  Instances,  \* server processes that run the jobs
  Subjects,   \* rent charges or leases
  RentDays,   \* days a charge falls due
  LeaseEnds,  \* days a lease ends
  LastDay,    \* bound: days
  MaxDoubts,  \* bound: kinds of trouble in one behaviour
  None

ASSUME NoticeBounds ==
  /\ RentDays # {} /\ RentDays \subseteq Int /\ LeaseEnds \subseteq Int
  /\ LastDay \in Nat /\ MaxDoubts \in Nat

VARIABLES
  notice,   \* the notices, with what has become of each channel
  out,      \* what the providers have delivered, by notice and channel
  agenda,   \* the job of this behaviour, messages, or none
  day,      \* today, a Monday at first
  due,      \* when a charge falls due or a lease ends
  settled,  \* charges paid or voided, leases ended
  fired,    \* instances whose timer has gone off today
  lock,     \* holder of the job's advisory lock
  job,      \* the runs
  doubt     \* history: trouble so far

noticeVars == <<notice, out>>
jobVars    == <<agenda, day, due, settled, fired, lock, job>>

Channels == {"email", "sms"}
Tiers    == {1, 30, 60}
Reminder == [of : Subjects, tier : Tiers]

(* A notice of a job is sent by the instance that runs it.  A channel is   *)
(* due, then has the answer of its provider, and in the end the status of  *)
(* its log entry, or "skipped" for none.                                   *)
Settling == {"due", "accepted", "refused"}
Ended    == {"skipped", "queued", "sent", "failed"}
Notice   == [about : Reminder \cup Matters \cup {None}, by : Instances \cup {None},
             way : [Channels -> Settling \cup Ended]]

ASSUME NoneIsNobody ==
  None \notin Notes \cup Instances \cup Subjects \cup Reminder \cup Matters \cup Notice

(* "lost": the answer of a provider, a storage call or a log update failed;*)
(* "unreachable": no e-mail could be written; "cut": something stopped in  *)
(* the middle; "rerun": an instance found the lock free again on a day the *)
(* job had already run; "overlap": requests ran at the same time.          *)
Doubts == {"lost", "unreachable", "cut", "rerun", "overlap"}

Idle == [step |-> "idle"]
Run  == {Idle} \cup [step : {"run"}, left : SUBSET Reminder, now : Notes \cup {None}]

NoticeTypeOK ==
  /\ notice  \in [Notes -> Notice \cup {None}]
  /\ out     \in SUBSET (Notes \X Channels)
  /\ agenda  \in {"rent", "expiry", "message", "none"}
  /\ day     \in 0 .. LastDay
  /\ due     \in [Subjects -> RentDays \cup LeaseEnds]
  /\ settled \in SUBSET Subjects
  /\ fired   \in SUBSET Instances
  /\ lock    \in Instances \cup {None}
  /\ job     \in [Instances -> Run]
  /\ doubt   \in SUBSET Doubts

NoticeInit ==
  /\ notice  = [n \in Notes |-> None]
  /\ out     = {}
  /\ day     = 0
  /\ CASE agenda = "rent"   -> due \in [Subjects -> RentDays]
       [] agenda = "expiry" -> due \in [Subjects -> LeaseEnds]
       [] OTHER             -> due = [x \in Subjects |-> CHOOSE d \in RentDays : TRUE]
  /\ settled = {}
  /\ fired   = {}
  /\ lock    = None
  /\ job     = [i \in Instances |-> Idle]
  /\ doubt   = {}

Doubted(why) == doubt' = doubt \cup why /\ Cardinality(doubt') <= MaxDoubts

-----------------------------------------------------------------------------
(* One notice.                                                             *)

Posted(n, about, i, ways) ==
  [notice EXCEPT ![n] =
    [about |-> about, by |-> i, way |-> [c \in Channels |-> IF c \in ways THEN "due" ELSE "skipped"]]]

Post(about, i, ways) ==
  \E n \in Notes : notice[n] = None /\ notice' = Posted(n, about, i, ways)

Is(n, c, state)    == notice[n] # None /\ notice[n].way[c] = state
Becomes(n, c, new) == notice' = [notice EXCEPT ![n].way[c] = new]
Over(n)            == \A c \in Channels : notice[n].way[c] \in Ended

(* Mutation: the call to the provider is not awaited.                      *)
SendUnawaited(n, c) ==
  /\ Is(n, c, "due")
  /\ Becomes(n, c, "accepted")
  /\ out' \in {out, out \cup {<<n, c>>}}
  /\ UNCHANGED <<doubt, jobVars>>

(* Without a template or an address there is nothing to send; otherwise    *)
(* the entry is written as queued and the provider is called.              *)
Send(n, c) ==
  /\ Is(n, c, "due")
  /\ \/ /\ Becomes(n, c, "skipped")
        /\ UNCHANGED out
        /\ Doubted(IF c = "email" THEN {"unreachable"} ELSE {})
     \/ Becomes(n, c, "accepted") /\ out' = out \cup {<<n, c>>} /\ UNCHANGED doubt
     \/ Becomes(n, c, "refused") /\ UNCHANGED <<out, doubt>>
     \/ Becomes(n, c, "refused") /\ out' = out \cup {<<n, c>>} /\ Doubted({"lost"})
  /\ UNCHANGED jobVars

(* An update to "sent" that fails is caught with the errors of the provider*)
(* and the entry becomes "failed"; when that fails too it stays "queued".  *)
Mark(n, c) ==
  /\ \/ Is(n, c, "accepted") /\ Becomes(n, c, "sent") /\ UNCHANGED doubt
     \/ Is(n, c, "refused") /\ Becomes(n, c, "failed") /\ UNCHANGED doubt
     \/ Is(n, c, "accepted") /\ Becomes(n, c, "failed") /\ Doubted({"lost"})
     \/ /\ Is(n, c, "accepted") \/ Is(n, c, "refused")
        /\ Becomes(n, c, "queued")
        /\ Doubted({"lost"})
  /\ UNCHANGED <<out, jobVars>>

(* A landlord writes to a tenant by the channels the tenant has opted into.*)
WriteMessage ==
  \E ways \in SUBSET Channels :
    /\ agenda = "message"
    /\ ways # {}
    /\ Post(None, None, ways)
    /\ UNCHANGED <<out, jobVars, doubt>>

-----------------------------------------------------------------------------
(* The jobs.                                                               *)

(* Mutation: the bands are a day off and twice as wide as a week allows.   *)
WideTier(x) ==
  LET days == due[x] - day IN
  IF agenda = "rent" THEN IF days = 1 THEN {1} ELSE {}
  ELSE IF days \in 53 .. 62 THEN {60} ELSE IF days \in 28 .. 32 THEN {30} ELSE {}

(* Rent due tomorrow; leases that end in about 60 or about 30 days.        *)
Tier(x) ==
  LET days == due[x] - day IN
  IF agenda = "rent" THEN IF days = 1 THEN {1} ELSE {}
  ELSE IF days \in 58 .. 62 THEN {60} ELSE IF days \in 28 .. 32 THEN {30} ELSE {}

Selected == {r \in Reminder : r.of \notin settled /\ r.tier \in Tier(r.of)}

(* An instance whose timer goes off tries the lock and passes over the day *)
(* if another one holds it.  A query that fails ends the run.              *)
Fires(i) ==
  /\ agenda \in {"rent", "expiry"}
  /\ i \notin fired
  /\ fired' = fired \cup {i}
  /\ \/ lock # None /\ UNCHANGED <<lock, job, doubt>>
     \/ /\ lock = None
        /\ lock' = i
        /\ \E left \in {Selected, {}} :
             job' = [job EXCEPT ![i] = [step |-> "run", left |-> left, now |-> None]]
        /\ Doubted(IF fired # {} THEN {"rerun"} ELSE {})
  /\ UNCHANGED <<agenda, day, due, settled, noticeVars>>

Free(i) == job[i] # Idle /\ (job[i].now # None => Over(job[i].now))

(* One recipient after the other; an error is counted and the run goes on. *)
SendNext(i) ==
  /\ Free(i)
  /\ \E r \in job[i].left, n \in Notes :
       /\ notice[n] = None
       /\ notice' = Posted(n, r, i, Channels)
       /\ job' = [job EXCEPT ![i].left = @ \ {r}, ![i].now = n]
  /\ UNCHANGED <<agenda, day, due, settled, fired, lock, out, doubt>>

Finishes(i) ==
  /\ Free(i)
  /\ job[i].left = {}
  /\ job'  = [job EXCEPT ![i] = Idle]
  /\ lock' = None
  /\ UNCHANGED <<agenda, day, due, settled, fired, noticeVars, doubt>>

(* A process dies, None being one that runs no job: a notice is left       *)
(* without an entry or with one that is queued, and the session of the lock*)
(* ends.                                                                   *)
Interrupted(n, i, early) ==
  IF notice[n] = None \/ notice[n].by # i THEN notice[n]
  ELSE [notice[n] EXCEPT !.way = [c \in Channels |->
          IF @[c] = "due" THEN early ELSE IF @[c] \in Settling THEN "queued" ELSE @[c]]]

Dies(i) ==
  /\ \/ i # None /\ job[i] # Idle
     \/ \E n \in Notes : notice[n] # None /\ notice[n].by = i /\ ~Over(n)
  /\ job'  = [j \in Instances |-> IF j = i THEN Idle ELSE job[j]]
  /\ lock' = IF i = lock THEN None ELSE lock
  /\ \E early \in {"skipped", "queued"} :
       notice' = [n \in Notes |-> Interrupted(n, i, early)]
  /\ Doubted({"cut"})
  /\ UNCHANGED <<agenda, day, due, settled, fired, out>>

(* A run ends on the day it began.  The days between two Mondays are passed*)
(* over when the job is the weekly one, and the last is the bound.         *)
NextDay ==
  /\ agenda \in {"rent", "expiry"}
  /\ \A i \in Instances : job[i] = Idle
  /\ \E x \in Subjects \ settled : due[x] > day
  /\ day'   = day + (IF agenda = "expiry" THEN 7 ELSE 1)
  /\ day'   <= LastDay
  /\ fired' = {}
  /\ UNCHANGED <<agenda, due, settled, lock, job, noticeVars, doubt>>

(* A charge is paid or voided, a lease is ended.                           *)
IsSettled ==
  \E x \in Subjects :
    /\ agenda \in {"rent", "expiry"}
    /\ x \notin settled
    /\ settled' = settled \cup {x}
    /\ UNCHANGED <<agenda, day, due, fired, lock, job, noticeVars, doubt>>

NoticeNext ==
  \/ \E n \in Notes, c \in Channels : Send(n, c) \/ Mark(n, c)
  \/ \E i \in Instances : Fires(i) \/ SendNext(i) \/ Finishes(i)
  \/ \E i \in Instances \cup {None} : Dies(i)
  \/ WriteMessage \/ NextDay \/ IsSettled

-----------------------------------------------------------------------------
(* An entry says "sent" only of what was delivered, and what was delivered *)
(* is reported failed or left queued only after an answer or an update was *)
(* lost or the process stopped: a landlord who sends again on "failed"     *)
(* sends twice in no other case.                                           *)
LogIsHonest ==
  \A n \in Notes, c \in Channels :
    /\ Is(n, c, "sent") => <<n, c>> \in out
    /\ <<n, c>> \in out /\ doubt \cap {"lost", "cut"} = {} => Is(n, c, "accepted") \/ Is(n, c, "sent")
    /\ Is(n, c, "queued") => doubt \cap {"lost", "cut"} # {}

(* Nobody is sent one reminder twice: a charge is due tomorrow on one day  *)
(* and a lease is in a band on one Monday.  The jobs remember nothing: the *)
(* lock keeps runs from overlapping, not from following each other.        *)
RemindedOnce ==
  "rerun" \notin doubt =>
    \A n, m \in Notes :
      /\ n # m /\ notice[n] # None /\ notice[m] # None
      /\ notice[n].about \in Reminder
      => notice[n].about # notice[m].about
===============================================================================
