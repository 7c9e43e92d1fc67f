---------------------------- MODULE LateFeesProofs ----------------------------
(***************************************************************************)
(* Proofs about LateFees, for every number of charges, leases and          *)
(* processes, every calendar and every bound on failures.                  *)
(*                                                                         *)
(* FeeOnce is not inductive: a run books what it selected earlier.  The    *)
(* invariant says of every selected row that it has no fee yet, and of     *)
(* every fee booked that it hides its charge from the next query; the lock *)
(* keeps a second run from selecting a row that the first has selected.    *)
(***************************************************************************)
EXTENDS LateFees, TLAPS

(* What the processes' runs look like.                                     *)
IdleRunsAreEmpty ==
  \A i \in Instances : job[i].pc \in {"idle", "query"} => job[i].todo = {} /\ job[i].row = {}

OneRowAtATime ==
  \A i \in Instances :
    /\ job[i].row \cap job[i].todo = {}
    /\ \A r, q \in job[i].row : r = q

(* A selected row was overdue when it was selected and has no fee yet.     *)
SelectedAreUnbilled ==
  \A i \in Instances : \A r \in job[i].todo \cup job[i].row : r.due < today /\ billed[r] = 0

(* A fee that was booked for a charge is dated its due date or later.      *)
BilledAreHidden ==
  \A r \in Row : billed[r] <= 1 /\ (billed[r] = 1 => r.due <= feeDate[LeaseOf[r.charge]])

IInv ==
  /\ TypeOK
  /\ OneRun
  /\ IdleRunsAreEmpty
  /\ OneRowAtATime
  /\ SelectedAreUnbilled
  /\ BilledAreHidden

LEMMA LaterLemma ==
  ASSUME NEW d \in Int, NEW e \in Int
  PROVE  Later(d, e) \in {d, e} /\ d <= Later(d, e) /\ e <= Later(d, e)
  BY DEF Later

(* The run of one process changes and the others stay as they are.         *)
LEMMA RunLemma ==
  ASSUME job \in [Instances -> JobRun], NEW i \in Instances, NEW pc \in JobSteps,
         NEW todo \in SUBSET Row, NEW row \in SUBSET Row, Run(i, pc, todo, row)
  PROVE  /\ job' \in [Instances -> JobRun]
         /\ job'[i].pc = pc /\ job'[i].todo = todo /\ job'[i].row = row
         /\ \A j \in Instances : j # i => job'[j] = job[j]
  BY DEF Run, JobRun

(* What a run selects is a row that is past its due date and, by           *)
(* BilledAreHidden, has no fee.                                            *)
LEMMA OverdueLemma ==
  ASSUME TypeOK, BilledAreHidden, NEW r \in Row, Overdue(r)
  PROVE  r.due < today /\ billed[r] = 0
<1>1. /\ r.charge \in Charges /\ r.due \in Int /\ today \in Int
  BY DayAssumption DEF Row, Days, TypeOK
<1>2. LeaseOf[r.charge] \in Leases
  BY <1>1, LeaseAssumption
<1>a. lease[LeaseOf[r.charge]] \in LeaseRow /\ feeDate[LeaseOf[r.charge]] \in 0 .. LastDay
  BY <1>2 DEF TypeOK
<1>3. lease[LeaseOf[r.charge]].grace \in Nat /\ feeDate[LeaseOf[r.charge]] \in Int
  <2>1. lease[LeaseOf[r.charge]].grace \in Graces
    BY <1>a DEF LeaseRow
  <2>2. Graces \subseteq Nat
    BY DayAssumption
  <2>3. feeDate[LeaseOf[r.charge]] \in Int
    BY <1>a
  <2> QED
    BY <2>1, <2>2, <2>3
<1>b. r.due + lease[LeaseOf[r.charge]].grace < today /\ feeDate[LeaseOf[r.charge]] < r.due
  BY DEF Overdue
<1>4. r.due < today
  BY <1>1, <1>3, <1>b
<1>5. billed[r] # 1
  BY <1>1, <1>3, <1>b DEF BilledAreHidden
<1>6. billed[r] \in Nat /\ billed[r] <= 1
  BY DEF TypeOK, BilledAreHidden
<1> QED
  BY <1>4, <1>5, <1>6

(* A fee booked for the row of a run is dated the row's due date or later  *)
(* and lies in the calendar.                                               *)
LEMMA FeeDateLemma ==
  ASSUME IInv, NEW i \in Instances, NEW r \in job[i].row
  PROVE  /\ r \in Row /\ LeaseOf[r.charge] \in Leases
         /\ r.due <= today + offset
         /\ today + offset \in 0 .. LastDay
<1>1. r \in Row
  BY DEF IInv, TypeOK, JobRun
<1>a. r.charge \in Charges /\ r.due \in 1 .. LastDay
  BY <1>1 DEF Row, Days
<1>2. r.due < today
  BY DEF IInv, SelectedAreUnbilled
<1>3. today \in 1 .. LastDay /\ offset \in {-1, 0}
  BY OffsetAssumption DEF IInv, TypeOK, Days
<1>4. LeaseOf[r.charge] \in Leases
  BY <1>a, LeaseAssumption
<1>5. r.due <= today + offset /\ today + offset \in 0 .. LastDay
  BY <1>a, <1>2, <1>3, DayAssumption
<1> QED
  BY <1>1, <1>4, <1>5

-----------------------------------------------------------------------------

LEMMA InitLemma == Init => IInv
<1> SUFFICES ASSUME Init PROVE IInv
  OBVIOUS
<1>1. TypeOK
  BY DayAssumption, FailureAssumption
     DEF Init, TypeOK, Days, JobRun, JobSteps
<1>2. OneRun /\ IdleRunsAreEmpty /\ OneRowAtATime /\ SelectedAreUnbilled
  BY LockAssumption DEF Init, OneRun, Running, IdleRunsAreEmpty, OneRowAtATime, SelectedAreUnbilled
<1>3. BilledAreHidden
  BY DEF Init, BilledAreHidden
<1> QED
  BY <1>1, <1>2, <1>3 DEF IInv

(* A step that keeps the runs, the lock and the fees and lets no day go    *)
(* back keeps all but the types.                                           *)
LEMMA QuietLemma ==
  ASSUME IInv, TypeOK', UNCHANGED <<lock, job, billed>>,
         today <= today',
         \A r \in Row : billed[r] = 1 => feeDate[LeaseOf[r.charge]] <= feeDate'[LeaseOf[r.charge]]
  PROVE  IInv'
<1>1. OneRun' /\ IdleRunsAreEmpty' /\ OneRowAtATime'
  BY DEF IInv, OneRun, Running, IdleRunsAreEmpty, OneRowAtATime
<1>2. SelectedAreUnbilled'
  <2> SUFFICES ASSUME NEW i \in Instances, NEW r \in job[i].todo \cup job[i].row
               PROVE  r.due < today' /\ billed[r] = 0
    BY DEF SelectedAreUnbilled
  <2>1. r \in Row
    BY DEF IInv, TypeOK, JobRun
  <2>2. r.due \in Int /\ today \in Int /\ today' \in Int
    BY <2>1, DayAssumption DEF Row, Days, TypeOK, IInv
  <2> QED
    BY <2>2 DEF IInv, SelectedAreUnbilled
<1>3. BilledAreHidden'
  <2> SUFFICES ASSUME NEW r \in Row
               PROVE  billed[r] <= 1 /\ (billed[r] = 1 => r.due <= feeDate'[LeaseOf[r.charge]])
    BY DEF BilledAreHidden
  <2>1. r.due \in Int /\ LeaseOf[r.charge] \in Leases
    BY LeaseAssumption DEF Row, Days
  <2>2. feeDate[LeaseOf[r.charge]] \in Int /\ feeDate'[LeaseOf[r.charge]] \in Int
    BY <2>1 DEF IInv, TypeOK
  <2> QED
    BY <2>1, <2>2 DEF IInv, BilledAreHidden
<1> QED
  BY <1>1, <1>2, <1>3 DEF IInv

-----------------------------------------------------------------------------
(* The steps of the job.                                                   *)

LEMMA FireLemma ==
  ASSUME IInv, NEW i \in Instances, Fire(i)
  PROVE  IInv'
<1>1. /\ job' \in [Instances -> JobRun]
      /\ job'[i].pc = "query" /\ job'[i].todo = {} /\ job'[i].row = {}
      /\ \A j \in Instances : j # i => job'[j] = job[j]
  <2>1. "query" \in JobSteps /\ {} \in SUBSET Row
    BY DEF JobSteps
  <2> QED
    BY <2>1, RunLemma DEF IInv, TypeOK, Fire
<1>2. TypeOK'
  BY <1>1 DEF IInv, TypeOK, Fire, rows
<1>3. OneRun'
  BY <1>1, LockAssumption DEF IInv, OneRun, Running, Fire
<1>4. IdleRunsAreEmpty' /\ OneRowAtATime' /\ SelectedAreUnbilled'
  BY <1>1 DEF IInv, IdleRunsAreEmpty, OneRowAtATime, SelectedAreUnbilled, Fire
<1>5. BilledAreHidden'
  BY DEF IInv, BilledAreHidden, Fire, rows
<1> QED
  BY <1>2, <1>3, <1>4, <1>5 DEF IInv

LEMMA QueryLemma ==
  ASSUME IInv, NEW i \in Instances, Query(i)
  PROVE  IInv'
<1> DEFINE found == {r \in Row : Overdue(r)}
<1>1. /\ job' \in [Instances -> JobRun]
      /\ job'[i].pc = "work" /\ job'[i].todo = found /\ job'[i].row = {}
      /\ \A j \in Instances : j # i => job'[j] = job[j]
  <2>1. "work" \in JobSteps /\ {} \in SUBSET Row /\ found \in SUBSET Row
    BY DEF JobSteps
  <2>2. Run(i, "work", found, {})
    BY DEF Query
  <2> HIDE DEF found
  <2> QED
    BY <2>1, <2>2, RunLemma DEF IInv, TypeOK
<1>2. TypeOK'
  BY <1>1 DEF IInv, TypeOK, Query, rows
<1>3. OneRun'
  BY <1>1 DEF IInv, OneRun, Running, Query
<1>4. IdleRunsAreEmpty' /\ OneRowAtATime'
  BY <1>1 DEF IInv, IdleRunsAreEmpty, OneRowAtATime
<1>5. \A r \in found : r.due < today /\ billed[r] = 0
  BY OverdueLemma DEF IInv
<1>6. SelectedAreUnbilled'
  BY <1>1, <1>5 DEF IInv, SelectedAreUnbilled, Query
<1>7. BilledAreHidden'
  BY DEF IInv, BilledAreHidden, Query, rows
<1> QED
  BY <1>2, <1>3, <1>4, <1>6, <1>7 DEF IInv

LEMMA TakeLemma ==
  ASSUME IInv, NEW i \in Instances, Take(i)
  PROVE  IInv'
<1>1. PICK r \in job[i].todo :
        Run(i, "work", job[i].todo \ {r}, {r} \cap {q \in Row : lease[LeaseOf[q.charge]].fee})
  BY DEF Take
<1> DEFINE rest  == job[i].todo \ {r}
           taken == {r} \cap {q \in Row : lease[LeaseOf[q.charge]].fee}
<1>2. job[i].todo \subseteq Row
  BY DEF IInv, TypeOK, JobRun
<1>3. /\ job' \in [Instances -> JobRun]
      /\ job'[i].pc = "work" /\ job'[i].todo = rest /\ job'[i].row = taken
      /\ \A j \in Instances : j # i => job'[j] = job[j]
  <2>1. "work" \in JobSteps /\ taken \in SUBSET Row /\ rest \in SUBSET Row
    BY <1>2 DEF JobSteps
  <2>2. Run(i, "work", rest, taken)
    BY <1>1
  <2> HIDE DEF rest, taken
  <2> QED
    BY <2>1, <2>2, RunLemma DEF IInv, TypeOK
<1>4. taken \subseteq {r} /\ rest \subseteq job[i].todo /\ r \notin rest
  OBVIOUS
<1> HIDE DEF rest, taken
<1>5. TypeOK'
  BY <1>3 DEF IInv, TypeOK, Take, rows
<1>6. OneRun'
  BY <1>3 DEF IInv, OneRun, Running, Take
<1>7. IdleRunsAreEmpty' /\ OneRowAtATime'
  BY <1>3, <1>4 DEF IInv, IdleRunsAreEmpty, OneRowAtATime
<1>8. SelectedAreUnbilled'
  BY <1>3, <1>4 DEF IInv, SelectedAreUnbilled, Take
<1>9. BilledAreHidden'
  BY DEF IInv, BilledAreHidden, Take, rows
<1> QED
  BY <1>5, <1>6, <1>7, <1>8, <1>9 DEF IInv

LEMMA ApplyLemma ==
  ASSUME IInv, NEW i \in Instances, ApplyLateFee(i)
  PROVE  IInv'
<1>1. PICK r \in job[i].row :
        /\ feeDate' = [feeDate EXCEPT ![LeaseOf[r.charge]] = Later(@, today + offset)]
        /\ billed'  = [billed EXCEPT ![r] = @ + 1]
  BY DEF ApplyLateFee
<1> DEFINE l == LeaseOf[r.charge]
<1>2. /\ r \in Row /\ l \in Leases
      /\ r.due <= today + offset
      /\ today + offset \in 0 .. LastDay
  BY FeeDateLemma
<1>3. billed[r] = 0 /\ r \notin job[i].todo
  BY DEF IInv, SelectedAreUnbilled, OneRowAtATime
<1>4. job[i].todo \in SUBSET Row
  BY DEF IInv, TypeOK, JobRun
<1>5. /\ job' \in [Instances -> JobRun]
      /\ job'[i].pc = "work" /\ job'[i].todo = job[i].todo /\ job'[i].row = {}
      /\ \A j \in Instances : j # i => job'[j] = job[j]
  <2>1. "work" \in JobSteps /\ {} \in SUBSET Row
    BY DEF JobSteps
  <2> QED
    BY <1>4, <2>1, RunLemma DEF IInv, TypeOK, ApplyLateFee
<1>6. /\ billed' \in [Row -> Nat] /\ billed'[r] = 1
      /\ \A q \in Row : q # r => billed'[q] = billed[q]
  BY <1>1, <1>2, <1>3 DEF IInv, TypeOK
<1>7. /\ feeDate' \in [Leases -> 0 .. LastDay]
      /\ today + offset <= feeDate'[l]
      /\ \A k \in Leases : feeDate[k] <= feeDate'[k]
  <2>1. feeDate \in [Leases -> 0 .. LastDay] /\ feeDate[l] \in 0 .. LastDay
    BY <1>2 DEF IInv, TypeOK
  <2>2. /\ Later(feeDate[l], today + offset) \in 0 .. LastDay
        /\ today + offset <= Later(feeDate[l], today + offset)
        /\ feeDate[l] <= Later(feeDate[l], today + offset)
    BY <1>2, <2>1, LaterLemma
  <2>3. feeDate'[l] = Later(feeDate[l], today + offset)
    BY <1>1, <1>2, <2>1
  <2>4. \A k \in Leases : k # l => feeDate'[k] = feeDate[k]
    BY <1>1, <2>1
  <2>5. feeDate' \in [Leases -> 0 .. LastDay]
    BY <1>1, <2>1, <2>2
  <2> QED
    BY <1>2, <2>1, <2>2, <2>3, <2>4, <2>5
<1>8. TypeOK'
  BY <1>5, <1>6, <1>7 DEF IInv, TypeOK, ApplyLateFee
<1>9. job[i].pc = "work"
  BY <1>1 DEF IInv, IdleRunsAreEmpty, TypeOK, JobRun, JobSteps
<1>10. OneRun' /\ IdleRunsAreEmpty' /\ OneRowAtATime'
  BY <1>5, <1>9 DEF IInv, OneRun, Running, IdleRunsAreEmpty, OneRowAtATime, ApplyLateFee
<1>11. \A j \in Instances : j # i => job[j].todo = {} /\ job[j].row = {}
  BY <1>9, LockAssumption DEF IInv, OneRun, Running, IdleRunsAreEmpty
<1>12. SelectedAreUnbilled'
  <2> SUFFICES ASSUME NEW j \in Instances, NEW q \in job'[j].todo \cup job'[j].row
               PROVE  q.due < today /\ billed'[q] = 0
    BY DEF SelectedAreUnbilled, ApplyLateFee
  <2>1. j = i /\ q \in job[i].todo
    BY <1>5, <1>11
  <2> QED
    BY <2>1, <1>3, <1>4, <1>6 DEF IInv, SelectedAreUnbilled
<1>13. BilledAreHidden'
  <2> SUFFICES ASSUME NEW q \in Row
               PROVE  billed'[q] <= 1 /\ (billed'[q] = 1 => q.due <= feeDate'[LeaseOf[q.charge]])
    BY DEF BilledAreHidden
  <2>1. q.due \in Int /\ LeaseOf[q.charge] \in Leases
    BY LeaseAssumption DEF Row, Days
  <2>2. feeDate[LeaseOf[q.charge]] \in Int /\ feeDate'[LeaseOf[q.charge]] \in Int
    BY <2>1, <1>7 DEF IInv, TypeOK
  <2>3. CASE q = r
    BY <2>1, <2>2, <2>3, <1>2, <1>6, <1>7
  <2>4. CASE q # r
    BY <2>1, <2>2, <2>4, <1>6, <1>7 DEF IInv, BilledAreHidden
  <2> QED
    BY <2>3, <2>4
<1> QED
  BY <1>8, <1>10, <1>12, <1>13 DEF IInv

(* The run of the lock's holder ends, at its end or by a crash.            *)
LEMMA EndLemma ==
  ASSUME IInv, NEW i \in Instances, Running(i), Run(i, "idle", {}, {}), lock' = NoInstance,
         UNCHANGED <<today, offset, rows, billed>>, failures' \in 0 .. MaxFailures
  PROVE  IInv'
<1>1. /\ job' \in [Instances -> JobRun]
      /\ job'[i].pc = "idle" /\ job'[i].todo = {} /\ job'[i].row = {}
      /\ \A j \in Instances : j # i => job'[j] = job[j]
  <2>1. "idle" \in JobSteps /\ {} \in SUBSET Row
    BY DEF JobSteps
  <2> QED
    BY <2>1, RunLemma DEF IInv, TypeOK
<1>2. TypeOK'
  BY <1>1 DEF IInv, TypeOK, rows
<1>3. OneRun'
  BY <1>1, LockAssumption DEF IInv, OneRun, Running
<1>4. IdleRunsAreEmpty' /\ OneRowAtATime' /\ SelectedAreUnbilled'
  BY <1>1 DEF IInv, IdleRunsAreEmpty, OneRowAtATime, SelectedAreUnbilled
<1>5. BilledAreHidden'
  BY DEF IInv, BilledAreHidden, rows
<1> QED
  BY <1>2, <1>3, <1>4, <1>5 DEF IInv

LEMMA FinishLemma ==
  ASSUME IInv, NEW i \in Instances, Finish(i)
  PROVE  IInv'
<1>1. Running(i) /\ failures' \in 0 .. MaxFailures
  BY DEF Finish, Running, IInv, TypeOK
<1> QED
  BY <1>1, EndLemma DEF Finish

LEMMA FailsLemma ==
  ASSUME IInv, Fails
  PROVE  failures' \in 0 .. MaxFailures
  BY FailureAssumption DEF IInv, TypeOK, Fails

LEMMA CrashLemma ==
  ASSUME IInv, NEW i \in Instances, Crash(i)
  PROVE  IInv'
  BY FailsLemma, EndLemma DEF Crash

LEMMA StatementFailsLemma ==
  ASSUME IInv, NEW i \in Instances, StatementFails(i)
  PROVE  IInv'
<1>1. failures' \in 0 .. MaxFailures
  BY FailsLemma DEF StatementFails
<1>2. job[i].todo \in SUBSET Row /\ Running(i)
  BY DEF IInv, TypeOK, JobRun, JobSteps, Running, StatementFails, IdleRunsAreEmpty
<1>3. /\ job' \in [Instances -> JobRun]
      /\ job'[i].pc = "work" /\ job'[i].todo = job[i].todo /\ job'[i].row = {}
      /\ \A j \in Instances : j # i => job'[j] = job[j]
  <2>1. "work" \in JobSteps /\ {} \in SUBSET Row
    BY DEF JobSteps
  <2> QED
    BY <1>2, <2>1, RunLemma DEF IInv, TypeOK, StatementFails
<1>4. TypeOK'
  BY <1>1, <1>3 DEF IInv, TypeOK, StatementFails, rows
<1>5. OneRun'
  BY <1>2, <1>3 DEF IInv, OneRun, Running, StatementFails
<1>6. IdleRunsAreEmpty' /\ OneRowAtATime' /\ SelectedAreUnbilled'
  BY <1>3 DEF IInv, IdleRunsAreEmpty, OneRowAtATime, SelectedAreUnbilled, StatementFails
<1>7. BilledAreHidden'
  BY DEF IInv, BilledAreHidden, StatementFails, rows
<1> QED
  BY <1>4, <1>5, <1>6, <1>7 DEF IInv

-----------------------------------------------------------------------------
(* The steps of the rest of the system.                                    *)

LEMMA DaysLemma == IInv => today \in Int /\ \A l \in Leases : feeDate[l] \in Int
  BY DayAssumption DEF IInv, TypeOK, Days

LEMMA TickLemma == IInv /\ Tick => IInv'
<1> SUFFICES ASSUME IInv, Tick PROVE IInv'
  OBVIOUS
<1>1. today' \in Days /\ today <= today'
  BY DayAssumption DEF IInv, TypeOK, Days, Tick
<1>2. TypeOK'
  BY <1>1 DEF IInv, TypeOK, Tick, rows
<1>3. \A r \in Row : feeDate[LeaseOf[r.charge]] <= feeDate'[LeaseOf[r.charge]]
  BY DaysLemma, LeaseAssumption DEF Row, Tick, rows
<1> QED
  BY <1>1, <1>2, <1>3, QuietLemma DEF Tick

LEMMA ChargeLemma ==
  ASSUME IInv, NEW c \in Charges, CreateCharge(c) \/ CloseCharge(c) \/ MoveCharge(c)
  PROVE  IInv'
<1>1. UNCHANGED <<today, offset, lease, feeDate, lock, job, failures, billed>>
  BY DEF CreateCharge, CloseCharge, MoveCharge
<1>2. charge \in [Charges -> 0 .. LastDay]
  BY DEF IInv, TypeOK
<1>3. charge' \in [Charges -> 0 .. LastDay]
  <2>1. CASE CreateCharge(c)
    BY <2>1, <1>2 DEF CreateCharge, Days
  <2>2. CASE CloseCharge(c)
    BY <2>2, <1>2, DayAssumption DEF CloseCharge
  <2>3. CASE MoveCharge(c)
    BY <2>3, <1>2 DEF MoveCharge, Days
  <2> QED
    BY <2>1, <2>2, <2>3
<1>4. TypeOK'
  BY <1>1, <1>3 DEF IInv, TypeOK
<1>5. today <= today' /\ \A r \in Row : feeDate[LeaseOf[r.charge]] <= feeDate'[LeaseOf[r.charge]]
  BY <1>1, DaysLemma, LeaseAssumption DEF Row
<1> QED
  BY <1>1, <1>4, <1>5, QuietLemma

LEMMA LeaseLemma ==
  ASSUME IInv, NEW l \in Leases, CreateFee(l) \/ UpdateLease(l)
  PROVE  IInv'
<1>1. UNCHANGED <<today, offset, charge, lock, job, failures, billed>>
  BY DEF CreateFee, UpdateLease
<1>2. lease \in [Leases -> LeaseRow] /\ feeDate \in [Leases -> 0 .. LastDay]
  BY DEF IInv, TypeOK
<1>3. /\ lease' \in [Leases -> LeaseRow]
      /\ feeDate' \in [Leases -> 0 .. LastDay]
      /\ \A k \in Leases : feeDate[k] <= feeDate'[k]
  <2>1. CASE CreateFee(l)
    <3>1. PICK d \in Days : feeDate' = [feeDate EXCEPT ![l] = Later(@, d)]
      BY <2>1 DEF CreateFee
    <3>2. d \in 0 .. LastDay /\ feeDate[l] \in 0 .. LastDay
      BY <1>2 DEF Days
    <3>3. Later(feeDate[l], d) \in 0 .. LastDay /\ feeDate[l] <= Later(feeDate[l], d)
      BY <3>2, LaterLemma
    <3>4. feeDate'[l] = Later(feeDate[l], d) /\ \A k \in Leases : k # l => feeDate'[k] = feeDate[k]
      BY <3>1, <1>2
    <3>5. feeDate' \in [Leases -> 0 .. LastDay]
      BY <3>1, <3>3, <1>2
    <3> QED
      BY <2>1, <3>3, <3>4, <3>5, <1>2 DEF CreateFee
  <2>2. CASE UpdateLease(l)
    <3>1. feeDate' = feeDate /\ lease' \in [Leases -> LeaseRow]
      BY <2>2, <1>2 DEF UpdateLease
    <3> QED
      BY <3>1, <1>2
  <2> QED
    BY <2>1, <2>2
<1>4. TypeOK'
  BY <1>1, <1>3 DEF IInv, TypeOK
<1>5. today <= today' /\ \A r \in Row : feeDate[LeaseOf[r.charge]] <= feeDate'[LeaseOf[r.charge]]
  BY <1>1, <1>3, DaysLemma, LeaseAssumption DEF Row
<1> QED
  BY <1>1, <1>4, <1>5, QuietLemma

LEMMA EditFeeLemma ==
  ASSUME IInv, NEW l \in Leases, EditFee(l)
  PROVE  IInv'
<1>1. /\ UNCHANGED <<today, offset, charge, lease, lock, job, failures>>
      /\ billed' = [r \in Row |-> IF LeaseOf[r.charge] = l THEN 0 ELSE billed[r]]
  BY DEF EditFee
<1>2. /\ feeDate' \in [Leases -> 0 .. LastDay]
      /\ \A k \in Leases : k # l => feeDate'[k] = feeDate[k]
  BY DEF EditFee, IInv, TypeOK
<1>3. /\ billed' \in [Row -> Nat]
      /\ \A r \in Row : billed'[r] \in {0, billed[r]}
      /\ \A r \in Row : LeaseOf[r.charge] = l => billed'[r] = 0
  BY <1>1 DEF IInv, TypeOK
<1>4. TypeOK'
  BY <1>1, <1>2, <1>3 DEF IInv, TypeOK
<1>5. OneRun' /\ IdleRunsAreEmpty' /\ OneRowAtATime'
  BY <1>1 DEF IInv, OneRun, Running, IdleRunsAreEmpty, OneRowAtATime
<1>6. SelectedAreUnbilled'
  <2>1. \A i \in Instances : job[i].todo \cup job[i].row \subseteq Row
    BY DEF IInv, TypeOK, JobRun
  <2> QED
    BY <2>1, <1>1, <1>3 DEF IInv, SelectedAreUnbilled
<1>7. BilledAreHidden'
  <2> SUFFICES ASSUME NEW r \in Row
               PROVE  billed'[r] <= 1 /\ (billed'[r] = 1 => r.due <= feeDate'[LeaseOf[r.charge]])
    BY DEF BilledAreHidden
  <2>1. LeaseOf[r.charge] \in Leases
    BY LeaseAssumption DEF Row
  <2>2. CASE LeaseOf[r.charge] = l
    BY <2>2, <1>3
  <2>3. CASE LeaseOf[r.charge] # l
    BY <2>1, <2>3, <1>2, <1>3 DEF IInv, BilledAreHidden
  <2> QED
    BY <2>2, <2>3
<1> QED
  BY <1>4, <1>5, <1>6, <1>7 DEF IInv

-----------------------------------------------------------------------------

LEMMA StepLemma == IInv /\ [Next]_vars => IInv'
<1> SUFFICES ASSUME IInv, [Next]_vars PROVE IInv'
  OBVIOUS
<1>1. ASSUME NEW i \in Instances, Fire(i) \/ Work(i) \/ StatementFails(i) \/ Crash(i)
      PROVE  IInv'
  BY <1>1, FireLemma, QueryLemma, TakeLemma, ApplyLemma, FinishLemma, StatementFailsLemma, CrashLemma
     DEF Work
<1>2. ASSUME NEW c \in Charges, CreateCharge(c) \/ CloseCharge(c) \/ MoveCharge(c)
      PROVE  IInv'
  BY <1>2, ChargeLemma
<1>3. ASSUME NEW l \in Leases, CreateFee(l) \/ EditFee(l) \/ UpdateLease(l)
      PROVE  IInv'
  BY <1>3, LeaseLemma, EditFeeLemma
<1>4. CASE Tick
  BY <1>4, TickLemma
<1>5. CASE UNCHANGED vars
  BY <1>5 DEF vars, rows, IInv, TypeOK, OneRun, Running, IdleRunsAreEmpty, OneRowAtATime,
              SelectedAreUnbilled, BilledAreHidden
<1> QED
  BY <1>1, <1>2, <1>3, <1>4, <1>5 DEF Next

(* The invariant holds in every reachable state.                           *)
THEOREM Invariance == Spec => []IInv
  BY InitLemma, StepLemma, PTL DEF Spec

(* Every table, the lock and every run keep their types.                   *)
THEOREM TypeCorrect == Spec => []TypeOK
<1>1. IInv => TypeOK
  BY DEF IInv
<1> QED
  BY <1>1, Invariance, PTL

(* jobs/index.js: one process at a time runs the job, and nobody but a     *)
(* process that runs it holds the lock.                                    *)
THEOREM OneRunHolds == Spec => []OneRun
<1>1. IInv => OneRun
  BY DEF IInv
<1> QED
  BY <1>1, Invariance, PTL

(* lateFee.js: a charge due on a day is billed at most one late fee for    *)
(* it, whatever runs, repeats, fails and changes.                          *)
THEOREM FeeOnceHolds == Spec => []FeeOnce
<1>1. IInv => FeeOnce
  BY DEF IInv, BilledAreHidden, FeeOnce
<1> QED
  BY <1>1, Invariance, PTL
===============================================================================
