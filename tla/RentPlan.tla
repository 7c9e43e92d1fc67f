------------------------------- MODULE RentPlan -------------------------------
(***************************************************************************)
(* The rent schedule of a lease, which the browser works out and the       *)
(* server only stores.  The pages that create a lease send the schedule as *)
(* one batch; the page that edits a lease compares the months of the term  *)
(* with the charges it has listed and posts what is missing one by one, in *)
(* parallel, and offers to void what it listed when the lease is ended.    *)
(*                                                                         *)
(* Leases of one unit.  A day is a number, months have one length, amounts *)
(* are left out.  Requests that a page no longer waits for still reach the *)
(* server; requests and answers get lost.                                  *)
(***************************************************************************)
EXTENDS Integers, FiniteSets

CONSTANTS
  Pages,        \* pages open at a time, of one landlord or of several people
  Shift,        \* 1 when the clocks of the browsers are west of UTC, else 0
  Leases,       \* leases of the unit, past and present
  DaysPerMonth,
  LastDueDay,   \* the 28 of the code: every month has that day
  Starts, Ends, \* first and last days of new leases
  NewEnds,      \* last days entered on the edit page
  DueDays,      \* due days the form accepts
  Extras,       \* choices of extra charges
  Copies,       \* bound: charges of one lease, kind and day
  MaxPayments,  \* bound: charges with a payment
  MaxSaves      \* bound: times a lease is saved

ASSUME RentPlanBounds ==
  /\ DaysPerMonth \in Nat \ {0}
  /\ LastDueDay \in 1 .. DaysPerMonth
  /\ Copies \in Nat /\ MaxPayments \in Nat /\ MaxSaves \in Nat
  /\ Starts \cup Ends \cup NewEnds \subseteq Nat
  /\ DueDays \subseteq 1 .. LastDueDay
  /\ Extras \subseteq SUBSET {"deposit", "fee"}
  /\ Shift \in 0 .. 1

VARIABLES
  lease,  \* the leases
  vacant, \* whether the unit is free
  charge, \* the state of every charge there is
  page,   \* what each page shows and does
  waits,  \* requests each page waits for
  strays, \* requests nobody waits for any more
  saves,  \* how often a lease was saved
  swept,  \* leases ended by "Void & Terminate"
  blur    \* what may have put a page out of step with the server

planVars == <<lease, vacant, charge, page, waits, strays, saves, swept, blur>>

Month(d)   == d \div DaysPerMonth
Day(d)     == 1 + (d % DaysPerMonth)
At(m, day) == m * DaysPerMonth + day - 1

Days  == Int
Items == [kind : {"rent", "deposit", "fee"}, due : Days]
Rows  == [lease : Leases, item : Items, copy : 1 .. Copies]

Requests == [op : {"void"}, lease : Leases, row : Rows]
       \cup [op : {"charge"}, lease : Leases, item : Items]

Steps == {"away", "list", "ask", "clear", "batch", "done"}
    \cup {"form", "sure", "void", "save", "post"}

Page == [step : Steps, lease : Leases, listed : SUBSET Rows, plan : SUBSET Items, due : Days, end : Days,
         ends : BOOLEAN, sweep : BOOLEAN, said : {"nothing", "success", "exists", "warning"}]

PlanTypeOK ==
  /\ lease  \in [Leases -> [status : {"none", "live", "ended"}, start : Days, end : Days]]
  /\ vacant \in BOOLEAN
  /\ DOMAIN charge \subseteq Rows
  /\ \A r \in DOMAIN charge : charge[r] \in {"due", "pending", "paid", "voided"}
  /\ page   \in [Pages -> Page]
  /\ \A p \in Pages : waits[p] \subseteq Requests
  /\ strays \subseteq Requests
  /\ saves  \in 0 .. MaxSaves
  /\ swept  \subseteq Leases
  /\ blur   \in {"none", "lost", "blind"}

RowsOf(l) == {r \in DOMAIN charge : r.lease = l}

(* A page that opens for a lease.                                          *)
Blank(l) == [step |-> "away", lease |-> l, listed |-> {}, plan |-> {}, due |-> 0, end |-> 0,
             ends |-> FALSE, sweep |-> FALSE, said |-> "nothing"]

Nothing == Blank(CHOOSE l \in Leases : TRUE)

(* Back to the form; the term is kept for what the page says of it.        *)
Form(s, said) ==
  [Blank(s.lease) EXCEPT !.step = "form", !.listed = s.listed, !.said = said,
                         !.end = IF said \in {"success", "exists"} THEN s.end ELSE 0]

PlanInit ==
  /\ lease  = [l \in Leases |-> [status |-> "none", start |-> 0, end |-> 0]]
  /\ vacant = TRUE
  /\ charge = << >>
  /\ page   = [p \in Pages |-> Nothing]
  /\ waits  = [p \in Pages |-> {}]
  /\ strays = {}
  /\ saves  = 0
  /\ swept  = {}
  /\ blur   = "none"

Show(p, s) == page' = [page EXCEPT ![p] = s]

-----------------------------------------------------------------------------
(* The dates.                                                              *)

(* The create forms: the due day of every month, from the first that is    *)
(* not before the lease.                                                   *)
MonthlyDueDates(start, end, due) ==
  LET here  == At(Month(start), due)
      first == IF here < start THEN here + DaysPerMonth ELSE here
  IN
  IF end <= start THEN {} ELSE {d \in first .. end : (d - first) % DaysPerMonth = 0}

(* The edit page: the first of every month.  Both dates are read as        *)
(* midnight in UTC, which west of it is the day before.                    *)
EditDueDates(start, end, shift) ==
  {At(m, 1) : m \in {n \in Month(start - shift) .. Month(end) : At(n, 1) <= end - shift}}

(* One charge a month, the deposit on the first day, each fee every month. *)
Schedule(start, end, due, extras) ==
  LET dates == MonthlyDueDates(start, end, due) IN
  [kind : {"rent"} \cup (extras \ {"deposit"}), due : dates]
  \cup [kind : extras \ {"fee"}, due : {start}]

(* Mutation: months are told apart by the day of their charge.             *)
MissingByDate(l, end, shift, listed) ==
  [kind : {"rent"}, due : EditDueDates(lease[l].start, end, shift) \ {r.item.due : r \in listed}]

(* What the edit page would add: the months without a listed rent charge,  *)
(* a voided one included.                                                  *)
Missing(l, end, shift, listed) ==
  LET taken == {Month(r.item.due) : r \in {s \in listed : s.item.kind = "rent"}} IN
  [kind : {"rent"}, due : {d \in EditDueDates(lease[l].start, end, shift) : Month(d) \notin taken}]

(* What a page whose box is ticked is about to add.                        *)
Ticked(s) == [s EXCEPT !.plan = IF s.due = 1 THEN Missing(s.lease, s.end, Shift, s.listed) ELSE {}]

-----------------------------------------------------------------------------
(* The server.                                                             *)

New(l, items) ==
  {[lease |-> l, item |-> i, copy |-> 1 + Cardinality({r \in RowsOf(l) : r.item = i})] : i \in items}

Add(rows) ==
  /\ \A r \in rows : r.copy <= Copies
  /\ charge' = [r \in DOMAIN charge \cup rows |-> IF r \in rows THEN "due" ELSE charge[r]]

Void(rows) == charge' = [r \in DOMAIN charge |-> IF r \in rows THEN "voided" ELSE charge[r]]

(* A charge with a payment, or voided before, is not voided; an ended      *)
(* lease takes no charge.                                                  *)
Accepted(q) ==
  IF q.op = "void" THEN charge[q.row] = "due" ELSE lease[q.lease].status = "live"

Accept(q) == IF q.op = "void" THEN Void({q.row}) ELSE Add(New(q.lease, {q.item}))

(* A void that did not happen.                                             *)
Miss == blur' = IF blur = "none" THEN "lost" ELSE blur

(* A request reaches the server, is refused or is lost.                    *)
Reach(q, answer) ==
  \/ /\ Accepted(q)
     /\ Accept(q)
     /\ answer \in {"yes", "no"}
     /\ UNCHANGED blur
  \/ /\ ~Accepted(q)
     /\ answer = "no"
     /\ IF q.op = "void" /\ charge[q.row] = "pending" THEN Miss ELSE UNCHANGED blur
     /\ UNCHANGED charge
  \/ /\ answer = "no"
     /\ Miss
     /\ UNCHANGED charge

Pay ==
  \E r \in DOMAIN charge :
    /\ charge[r] = "due"
    /\ Cardinality({s \in DOMAIN charge : charge[s] \in {"pending", "paid"}}) < MaxPayments
    /\ charge' = [charge EXCEPT ![r] = "pending"]
    /\ UNCHANGED <<lease, vacant, page, waits, strays, saves, swept, blur>>

Settle ==
  \E r \in DOMAIN charge, s \in {"paid", "due"} :
    /\ charge[r] = "pending"
    /\ charge' = [charge EXCEPT ![r] = s]
    /\ UNCHANGED <<lease, vacant, page, waits, strays, saves, swept, blur>>

-----------------------------------------------------------------------------
(* Creating a lease.                                                       *)

(* The lease is made; the answer may be lost, or no schedule wanted.       *)
CreateLease(p) ==
  \E l \in Leases, s \in Starts, e \in Ends, due \in DueDays, extras \in Extras :
    /\ page[p].step = "away"
    /\ lease[l].status = "none"
    /\ vacant
    /\ lease'  = [lease EXCEPT ![l] = [status |-> "live", start |-> s, end |-> e]]
    /\ vacant' = FALSE
    /\ \/ UNCHANGED page
       \/ Show(p, [Blank(l) EXCEPT !.step = "list", !.due = due, !.end = e,
                                   !.plan = Schedule(s, e, due, extras)])
    /\ UNCHANGED <<charge, waits, strays, saves, swept, blur>>

(* Any charge of the unit, paid or voided too, is worth a question; a list *)
(* that does not come is not.                                              *)
ListUnit(p) ==
  /\ page[p].step = "list"
  /\ \E s \in {"ask", "batch"} :
       /\ s = "ask" => DOMAIN charge # {}
       /\ Show(p, [page[p] EXCEPT !.step = s])
  /\ UNCHANGED <<lease, vacant, charge, waits, strays, saves, swept, blur>>

(* Replace, keep, skip; to close the question is to skip.                  *)
Choose(p) ==
  /\ page[p].step = "ask"
  /\ \E s \in {"clear", "batch", "done"} : Show(p, [page[p] EXCEPT !.step = s])
  /\ UNCHANGED <<lease, vacant, charge, waits, strays, saves, swept, blur>>

(* Every charge of the unit without a completed payment.                   *)
ClearUnit(p) ==
  LET open == {r \in DOMAIN charge : charge[r] \in {"due", "pending"}} IN
  /\ page[p].step = "clear"
  /\ \/ Void(open) /\ Show(p, [page[p] EXCEPT !.step = "batch"])
     \/ Void(open) /\ Show(p, [page[p] EXCEPT !.step = "done", !.plan = {}, !.said = "warning"])
     \/ UNCHANGED charge /\ Show(p, [page[p] EXCEPT !.step = "done", !.plan = {}, !.said = "warning"])
  /\ UNCHANGED <<lease, vacant, waits, strays, saves, swept, blur>>

(* All or nothing; an empty batch and an ended lease are refused.          *)
Batch(p) ==
  LET s == page[p] IN
  /\ s.step = "batch"
  /\ \/ /\ s.plan # {}
        /\ lease[s.lease].status = "live"
        /\ Add(New(s.lease, s.plan))
        /\ \E said \in {"success", "warning"} : Show(p, [s EXCEPT !.step = "done", !.plan = {}, !.said = said])
     \/ UNCHANGED charge /\ Show(p, [s EXCEPT !.step = "done", !.plan = {}, !.said = "warning"])
  /\ UNCHANGED <<lease, vacant, waits, strays, saves, swept, blur>>

-----------------------------------------------------------------------------
(* Editing a lease.                                                        *)

OpenEdit(p) ==
  \E l \in Leases :
    /\ page[p].step = "away"
    /\ lease[l].status # "none"
    /\ Show(p, [Blank(l) EXCEPT !.step = "form"])
    /\ UNCHANGED <<lease, vacant, charge, waits, strays, saves, swept, blur>>

Editing == {"form", "sure", "void", "save", "post"}

(* The charges arrive after the lease, and again whenever they are fetched.*)
Refetch(p) ==
  /\ page[p].step \in Editing
  /\ page[p].listed # RowsOf(page[p].lease)
  /\ Show(p, [page[p] EXCEPT !.listed = RowsOf(page[p].lease)])
  /\ UNCHANGED <<lease, vacant, charge, waits, strays, saves, swept, blur>>

Requested(l) == \E q \in strays : q.lease = l

(* A page decides blindly on a list that has changed, or while another     *)
(* page or a request left behind is at work on the lease.                  *)
Blind(p) ==
  LET l == page[p].lease IN
  \/ page[p].listed # RowsOf(l)
  \/ Requested(l)
  \/ \E q \in Pages \ {p} :
       page[q].lease = l /\ page[q].step \notin {"away", "done", "form", "sure"}

Decides(p) == blur' = IF Blind(p) THEN "blind" ELSE blur

(* The confirmation stays ticked after a save: saving again is one click.  *)
(* Ending a lease that has a listed charge asks first.                     *)
Save(p) ==
  \E e \in NewEnds, ends \in BOOLEAN, add \in {0, 1} :
    LET s == page[p]
        t == [s EXCEPT !.due = add, !.end = e, !.ends = ends, !.sweep = FALSE, !.said = "nothing"]
    IN
    /\ s.step = "form"
    /\ saves < MaxSaves
    /\ saves' = saves + 1
    /\ Show(p, IF ends /\ s.listed # {} THEN [t EXCEPT !.step = "sure"]
               ELSE Ticked([t EXCEPT !.step = "save"]))
    /\ Decides(p)
    /\ UNCHANGED <<lease, vacant, charge, waits, strays, swept>>

(* Mutation: only what falls due in the term is voided.                    *)
VoidsOfTerm(p) ==
  {[op |-> "void", lease |-> page[p].lease, row |-> r] :
     r \in {s \in page[p].listed : s.item.due >= lease[page[p].lease].start}}

(* The list holds no field that tells a paid or voided charge from others. *)
VoidsOf(p) == {[op |-> "void", lease |-> page[p].lease, row |-> r] : r \in page[p].listed}

TerminateVoid(p) ==
  /\ page[p].step = "sure"
  /\ Show(p, Ticked([page[p] EXCEPT !.step = "void", !.sweep = TRUE]))
  /\ waits' = [waits EXCEPT ![p] = VoidsOf(p)]
  /\ Decides(p)
  /\ UNCHANGED <<lease, vacant, charge, strays, saves, swept>>

TerminateSkip(p) ==
  /\ page[p].step = "sure"
  /\ \/ Show(p, Ticked([page[p] EXCEPT !.step = "save"])) /\ Decides(p)
     \/ Show(p, Form(page[p], "nothing")) /\ UNCHANGED blur
  /\ UNCHANGED <<lease, vacant, charge, waits, strays, saves, swept>>

(* The lease is saved first.  A page that adds nothing moves on.           *)
Put(p) ==
  LET s == page[p] IN
  /\ s.step = "save"
  /\ \/ UNCHANGED <<lease, vacant, swept>> /\ Show(p, Form(s, "nothing")) /\ UNCHANGED waits
     \/ /\ lease'  = [lease EXCEPT ![s.lease].status = IF s.ends THEN "ended" ELSE "live",
                                   ![s.lease].end    = s.end]
        /\ vacant' = (vacant \/ s.ends)
        /\ swept'  = IF s.ends THEN IF s.sweep THEN swept \cup {s.lease} ELSE swept
                     ELSE swept \ {s.lease}
        /\ \/ Show(p, Form(s, "nothing")) /\ UNCHANGED waits
           \/ s.due = 0 /\ Show(p, Nothing) /\ UNCHANGED waits
           \/ /\ s.due = 1 /\ s.plan = {}
              /\ Show(p, Form(s, "exists")) /\ UNCHANGED waits
           \/ /\ s.plan # {}
              /\ Show(p, [s EXCEPT !.step = "post", !.plan = {}])
              /\ waits' = [waits EXCEPT ![p] = [op : {"charge"}, lease : {s.lease}, item : s.plan]]
  /\ UNCHANGED <<charge, strays, saves, blur>>

(* Mutation: a refusal is counted as an answer.                            *)
AfterSettled(s, answer, left) ==
  IF left # {} THEN s
  ELSE IF s.step = "void" THEN [s EXCEPT !.step = "save"]
  ELSE Form(s, "success")

(* The first refusal decides: what it was waiting for besides stays on the *)
(* way.                                                                    *)
After(s, answer, left) ==
  IF left # {} /\ answer = "yes" THEN s
  ELSE IF s.step = "void" THEN [s EXCEPT !.step = "save"]
  ELSE Form(s, IF answer = "yes" THEN "success" ELSE "warning")

Answer(p) ==
  \E q \in waits[p], answer \in {"yes", "no"} :
    LET left == waits[p] \ {q} IN
    /\ Reach(q, answer)
    /\ Show(p, After(page[p], answer, left))
    /\ IF page[p].step = After(page[p], answer, left).step
       THEN waits' = [waits EXCEPT ![p] = left] /\ UNCHANGED strays
       ELSE waits' = [waits EXCEPT ![p] = {}] /\ strays' = strays \cup left
    /\ UNCHANGED <<lease, vacant, saves, swept>>

Stray ==
  \E q \in strays, answer \in {"yes", "no"} :
    /\ Reach(q, answer)
    /\ strays' = strays \ {q}
    /\ UNCHANGED <<lease, vacant, page, waits, saves, swept>>

(* The page is left or the tab closed.  One that is left while it saves or *)
(* sends a batch counts as left once that has arrived or is lost.          *)
Leave(p) ==
  /\ page[p].step # "away"
  /\ Show(p, Nothing)
  /\ waits'  = [waits EXCEPT ![p] = {}]
  /\ strays' = strays \cup waits[p]
  /\ UNCHANGED <<lease, vacant, charge, saves, swept, blur>>

PlanNext ==
  \/ Pay \/ Settle \/ Stray
  \/ \E p \in Pages : CreateLease(p) \/ ListUnit(p) \/ Choose(p) \/ ClearUnit(p) \/ Batch(p)
  \/ \E p \in Pages : OpenEdit(p) \/ Refetch(p) \/ Save(p) \/ TerminateVoid(p) \/ TerminateSkip(p)
  \/ \E p \in Pages : Put(p) \/ Answer(p) \/ Leave(p)

-----------------------------------------------------------------------------
(* A page that reports success is right: the charge of every due day of    *)
(* the term is there, of every month on the edit page, whichever answers   *)
(* came in which order and wherever the browser is.                        *)
SaidIsDone ==
  \A p \in Pages :
    LET s     == page[p]
        start == lease[s.lease].start
        rents == {r.item.due : r \in {x \in RowsOf(s.lease) : x.item.kind = "rent"}}
    IN
    /\ s.step = "done" /\ s.said = "success"
       => {d \in start .. s.end : start < s.end /\ Day(d) = s.due} \subseteq rents
    /\ s.step = "form" /\ s.said \in {"success", "exists"}
       => \A m \in Month(start) .. Month(s.end) :
            At(m, 1) < s.end => \E d \in rents : Month(d) = m

(* No month of a lease is charged twice unless a page decided on a list    *)
(* that had changed, or while another was at work on the lease.            *)
OneRentPerMonth ==
  \A r, s \in DOMAIN charge :
    /\ r # s
    /\ r.lease = s.lease
    /\ r.item.kind = "rent" /\ s.item.kind = "rent"
    /\ "voided" \notin {charge[r], charge[s]}
    /\ Month(r.item.due) = Month(s.item.due)
    => blur = "blind"

(* A lease ended by "Void & Terminate" leaves nothing to pay once its      *)
(* requests have arrived, whatever became of single voids, unless one was  *)
(* lost, met a pending payment, or the list was not what it seemed.        *)
SweptClean ==
  \A l \in swept :
    /\ blur = "none"
    /\ ~Requested(l)
    /\ \A p \in Pages : \A q \in waits[p] : q.lease # l
    => \A r \in RowsOf(l) : charge[r] # "due"
===============================================================================
