------------------------------- MODULE LateFees -------------------------------
(***************************************************************************)
(* The daily late-fee job, run by every API process under a PostgreSQL     *)
(* session lock: it selects the overdue rent charges once and then books a *)
(* fee for each of them in a transaction of its own, while landlords and   *)
(* tenants go on changing charges and leases.                              *)
(*                                                                         *)
(* A day is a number.  Of the late_fee rows of a lease only the latest due *)
(* date is kept: the query compares with nothing else.  The fee's amount,  *)
(* its ledger entry (module RentLedger) and the notice to the tenant are   *)
(* left out.  A process whose lock session breaks exits (index.js), so     *)
(* losing the session is a crash of the process.                           *)
(***************************************************************************)
EXTENDS Integers, FiniteSets

CONSTANTS
  Charges,     \* rent charges, each of one lease; a closed one's name is used again
  Leases,
  LeaseOf,     \* [Charges -> Leases]
  Instances,   \* API processes
  NoInstance,  \* the lock is free
  LastDay,     \* bound: the calendar ends
  Graces,      \* late_fee_grace_days that leases may have
  Offsets,     \* the UTC date less the database's date at nine in the morning
  MaxFailures  \* bound: crashes and failed statements

ASSUME LeaseAssumption   == LeaseOf \in [Charges -> Leases]
ASSUME LockAssumption    == NoInstance \notin Instances
ASSUME DayAssumption     == LastDay \in Nat \ {0} /\ Graces \subseteq Nat
(* West of Greenwich it is the same date in UTC at nine, east of it the    *)
(* same or the day before.                                                 *)
ASSUME OffsetAssumption  == Offsets \subseteq {-1, 0}
ASSUME FailureAssumption == MaxFailures \in Nat

VARIABLES
  today,     \* CURRENT_DATE
  offset,    \* fixed: how the processes' UTC date differs from it
  charge,    \* rent_charges of type 'rent': due_date while it is open, else 0
  lease,     \* leases
  feeDate,   \* the latest due_date of a lease's late_fee rows, 0 for none
  lock,      \* the advisory lock's holder
  job,       \* the run of each process
  failures,  \* crashes and failed statements so far
  billed     \* history: fees booked for a charge while due on a day

rows == <<charge, lease, feeDate>>
vars == <<today, offset, charge, lease, feeDate, lock, job, failures, billed>>

Days     == 1 .. LastDay
Row      == [charge : Charges, due : Days]
JobSteps == {"idle", "query", "work"}

LeaseRow == [active : BOOLEAN, fee : BOOLEAN, grace : Graces]
JobRun   == [pc : JobSteps, todo : SUBSET Row, row : SUBSET Row]

TypeOK ==
  /\ today    \in Days
  /\ offset   \in Offsets
  /\ charge   \in [Charges -> 0 .. LastDay]
  /\ lease    \in [Leases -> LeaseRow]
  /\ feeDate  \in [Leases -> 0 .. LastDay]
  /\ lock     \in Instances \cup {NoInstance}
  /\ job      \in [Instances -> JobRun]
  /\ failures \in 0 .. MaxFailures
  /\ billed   \in [Row -> Nat]

Init ==
  /\ today    = 1
  /\ offset  \in Offsets
  /\ charge   = [c \in Charges |-> 0]
  /\ lease   \in [Leases -> LeaseRow]
  /\ feeDate  = [l \in Leases |-> 0]
  /\ lock     = NoInstance
  /\ job      = [i \in Instances |-> [pc |-> "idle", todo |-> {}, row |-> {}]]
  /\ failures = 0
  /\ billed   = [r \in Row |-> 0]

-----------------------------------------------------------------------------
(* What the query of the job returns (findOverdueUnpaidCharges): an open   *)
(* charge of an active lease with a late fee, past its grace period, with  *)
(* no late fee of the lease due on or after it.                            *)

(* Mutation: a fee due on the same day does not count.                     *)
OverdueAgain(r) ==
  /\ charge[r.charge] = r.due
  /\ lease[LeaseOf[r.charge]].active
  /\ lease[LeaseOf[r.charge]].fee
  /\ r.due + lease[LeaseOf[r.charge]].grace < today
  /\ feeDate[LeaseOf[r.charge]] <= r.due

Overdue(r) ==
  /\ charge[r.charge] = r.due
  /\ lease[LeaseOf[r.charge]].active
  /\ lease[LeaseOf[r.charge]].fee
  /\ r.due + lease[LeaseOf[r.charge]].grace < today
  /\ feeDate[LeaseOf[r.charge]] < r.due

Later(d, e) == IF d < e THEN e ELSE d

Running(i) == job[i].pc # "idle"

(* The run of process i goes on at pc with the rows todo still to take and *)
(* the one in row being billed.                                            *)
Run(i, pc, todo, row) ==
  job' = [job EXCEPT ![i] = [pc |-> pc, todo |-> todo, row |-> row]]

-----------------------------------------------------------------------------
(* The job.                                                                *)

(* The cron timer fires and pg_try_advisory_lock succeeds; when another    *)
(* session holds the lock the run is skipped.                              *)
Fire(i) ==
  /\ ~Running(i)
  /\ lock = NoInstance
  /\ lock' = i
  /\ Run(i, "query", {}, {})
  /\ UNCHANGED <<today, offset, rows, failures, billed>>

(* Mutation: only the charges whose grace period ended yesterday.          *)
QueryOfTheDay(i) ==
  /\ job[i].pc = "query"
  /\ Run(i, "work",
         {r \in Row : Overdue(r) /\ r.due + lease[LeaseOf[r.charge]].grace + 1 = today}, {})
  /\ UNCHANGED <<today, offset, rows, lock, failures, billed>>

Query(i) ==
  /\ job[i].pc = "query"
  /\ Run(i, "work", {r \in Row : Overdue(r)}, {})
  /\ UNCHANGED <<today, offset, rows, lock, failures, billed>>

(* The earliest row is next, and applyLateFee reads its lease: without a   *)
(* late fee it returns null.  Nothing else is read again.                  *)
Take(i) ==
  /\ job[i].pc = "work"
  /\ job[i].row = {}
  /\ \E r \in job[i].todo :
       /\ \A q \in job[i].todo : r.due <= q.due
       /\ Run(i, "work", job[i].todo \ {r}, {r} \cap {q \in Row : lease[LeaseOf[q.charge]].fee})
  /\ UNCHANGED <<today, offset, rows, lock, failures, billed>>

(* The transaction of applyLateFee commits: a late_fee row due today, by   *)
(* the date in UTC.                                                        *)
ApplyLateFee(i) ==
  /\ \E r \in job[i].row :
       /\ feeDate' = [feeDate EXCEPT ![LeaseOf[r.charge]] = Later(@, today + offset)]
       /\ billed'  = [billed EXCEPT ![r] = @ + 1]
  /\ Run(i, "work", job[i].todo, {})
  /\ UNCHANGED <<today, offset, charge, lease, lock, failures>>

(* pg_advisory_unlock in the finally block.                                *)
Finish(i) ==
  /\ job[i].pc = "work"
  /\ job[i].row = {}
  /\ job[i].todo = {}
  /\ lock' = NoInstance
  /\ Run(i, "idle", {}, {})
  /\ UNCHANGED <<today, offset, rows, failures, billed>>

Fails == failures < MaxFailures /\ failures' = failures + 1

(* The query fails and run returns, or a transaction fails and the job     *)
(* goes on with the next row.                                              *)
StatementFails(i) ==
  /\ Fails
  /\ job[i].pc = "query" \/ job[i].row # {}
  /\ Run(i, "work", job[i].todo, {})
  /\ UNCHANGED <<today, offset, rows, lock, billed>>

(* The process dies; the server ends its sessions, and a session lock with *)
(* its session.  A restarted process waits for the timer.                  *)
Crash(i) ==
  /\ Fails
  /\ Running(i)
  /\ lock' = NoInstance
  /\ Run(i, "idle", {}, {})
  /\ UNCHANGED <<today, offset, rows, billed>>

-----------------------------------------------------------------------------
(* The rest of the system.                                                 *)

Tick ==
  /\ today < LastDay
  /\ today' = today + 1
  /\ UNCHANGED <<offset, rows, lock, job, failures, billed>>

(* A rent charge, due on any day.  Its lease was active or pending when    *)
(* that was checked, outside the transaction.                              *)
CreateCharge(c) ==
  /\ charge[c] = 0
  /\ \E d \in Days : charge' = [charge EXCEPT ![c] = d]
  /\ UNCHANGED <<today, offset, lease, feeDate, lock, job, failures, billed>>

(* A payment is completed or the charge is voided: the query passes over   *)
(* it from now on.                                                         *)
CloseCharge(c) ==
  /\ charge[c] # 0
  /\ charge' = [charge EXCEPT ![c] = 0]
  /\ UNCHANGED <<today, offset, lease, feeDate, lock, job, failures, billed>>

(* The landlord moves the due date of a charge.                            *)
MoveCharge(c) ==
  /\ charge[c] # 0
  /\ \E d \in Days : charge' = [charge EXCEPT ![c] = d]
  /\ UNCHANGED <<today, offset, lease, feeDate, lock, job, failures, billed>>

(* The landlord enters a late fee by hand.                                 *)
CreateFee(l) ==
  /\ \E d \in Days : feeDate' = [feeDate EXCEPT ![l] = Later(@, d)]
  /\ UNCHANGED <<today, offset, charge, lease, lock, job, failures, billed>>

(* The landlord moves the due date of a late fee or makes it a charge of   *)
(* another type, and so asks for the lease to be billed afresh.            *)
EditFee(l) ==
  /\ feeDate[l] # 0
  /\ \E d \in 0 .. LastDay : feeDate' = [feeDate EXCEPT ![l] = d]
  /\ billed' = [r \in Row |-> IF LeaseOf[r.charge] = l THEN 0 ELSE billed[r]]
  /\ UNCHANGED <<today, offset, charge, lease, lock, job, failures>>

(* updateLease: the status, the fee and the grace period.                  *)
UpdateLease(l) ==
  /\ \E new \in LeaseRow : lease' = [lease EXCEPT ![l] = new]
  /\ UNCHANGED <<today, offset, charge, feeDate, lock, job, failures, billed>>

-----------------------------------------------------------------------------

Work(i) == Query(i) \/ Take(i) \/ ApplyLateFee(i) \/ Finish(i)

Next ==
  \/ \E i \in Instances : Fire(i) \/ Work(i) \/ StatementFails(i) \/ Crash(i)
  \/ \E c \in Charges : CreateCharge(c) \/ CloseCharge(c) \/ MoveCharge(c)
  \/ \E l \in Leases : CreateFee(l) \/ EditFee(l) \/ UpdateLease(l)
  \/ Tick

(* The timer of some process fires again and again, and a run goes on:     *)
(* while the lock is free a process can take it, and otherwise the run of  *)
(* its holder, which is the only one, can go on.                           *)
Fairness == WF_vars(\E i \in Instances : Fire(i) \/ Work(i))

Spec == Init /\ [][Next]_vars /\ Fairness

-----------------------------------------------------------------------------
(* jobs/index.js: only one process runs the job at a time, and the lock is *)
(* held by nobody but a process that runs it, so that no crash and no      *)
(* failure leaves it behind.                                               *)
OneRun == \A i \in Instances : Running(i) <=> lock = i

(* lateFee.js: however often and wherever the job runs, crashes and is run *)
(* again, a charge due on a day is billed one late fee for it, although    *)
(* the duplicate test is a query that is made before the fees are booked.  *)
FeeOnce == \A r \in Row : billed[r] <= 1

(* A charge that is overdue is billed or stops being overdue, though the   *)
(* runs that should bill it skip, fail and crash.                          *)
FeeComes == \A c \in Charges : (\E d \in Days : Overdue([charge |-> c, due |-> d]))
              ~> (\A d \in Days : ~Overdue([charge |-> c, due |-> d]))
===============================================================================
