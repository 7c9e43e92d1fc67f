------------------------------- MODULE Statement -------------------------------
(***************************************************************************)
(* What a lease's ledger is reported to be: the page of one lease, its     *)
(* exported statement and the summary of the portfolio.  An entry carries  *)
(* no date of its own: a charge counts on its due date and a payment on    *)
(* its payment date, as they are now, a credit on the day it was booked.   *)
(* A report is put together from queries that run side by side while       *)
(* others write.                                                           *)
(*                                                                         *)
(* One lease.  Each row is booked with its entry, in one step; that no row *)
(* is booked twice or left out is the business of RentLedger.  The balance *)
(* stored in an entry is left out: no report reads it; so is the total of  *)
(* what was paid, which no other figure is held against.                   *)
(***************************************************************************)
EXTENDS Integers, Sequences, FiniteSets, FiniteSetsExt

CONSTANTS
  Bills, Moneys,  \* names for charges and payments, each used once
  NoRow,          \* no row, no date, no number
  LastDate,       \* bound: days
  BillAmounts, MoneyAmounts,
  Froms, Tos,     \* the dates entered for a period, NoRow for none
  MaxDuring       \* bound: writes while one report is read

ASSUME StatementBounds ==
  /\ LastDate \in Nat \ {0}
  /\ BillAmounts \cup MoneyAmounts \subseteq Nat \ {0}
  /\ (Froms \cup Tos) \ {NoRow} \subseteq 1 .. LastDate
  /\ MaxDuring \in Nat
  /\ NoRow \notin Int \cup Bills \cup Moneys

VARIABLES
  today,    \* the date
  bill,     \* rent_charges
  money,    \* rent_payments
  entries,  \* ledger_entries
  report,   \* the report on its way to a page, or shown
  during,   \* dates of each write while it was read, and days that came
  since     \* dates of what was written since it is shown, and days that came

books         == <<bill, money, entries>>
statementVars == <<today, books, report, during, since>>

Dates   == 1 .. LastDate
Bill    == [due : Dates, amount : BillAmounts, voided : BOOLEAN]
Money   == [date : Dates, amount : MoneyAmounts, bill : Bills \cup {NoRow}, done : BOOLEAN]
Entry   == [type : {"charge", "credit"}, of : Bills, amount : Int, on : Dates]
      \cup [type : {"payment"}, of : Moneys, amount : Int, on : Dates]

ASSUME NoRowIsNoRecord == NoRow \notin Bill \cup Money

Kinds == {"lease", "statement", "portfolio"}

(* The queries of a report.                                                *)
QueriesOf(kind) ==
  CASE kind = "lease"     -> {"entries", "opening", "balance", "due"}
    [] kind = "statement" -> {"entries"}
    [] kind = "portfolio" -> {"properties", "units"}

Sums == {"activity", "last", "opening", "balance", "due"}
   \cup {"charged", "collected", "credits", "unitCharged", "unitCollected"}

(* "last" is the running balance of the last entry listed, NoRow when none *)
(* is; the other sums are 0 before they are answered.                      *)
Report == [kind : Kinds, from : Dates \cup {NoRow}, to : Dates \cup {NoRow},
           unread : SUBSET UNION {QueriesOf(k) : k \in Kinds}, sum : [Sums -> Int \cup {NoRow}]]

StatementTypeOK ==
  /\ today   \in Dates
  /\ bill    \in [Bills -> Bill \cup {NoRow}]
  /\ money   \in [Moneys -> Money \cup {NoRow}]
  /\ entries \subseteq Entry
  /\ report  \in Report \cup {NoRow}
  /\ during  \in Seq(SUBSET Dates) /\ Len(during) <= MaxDuring
  /\ since   \subseteq Dates

StatementInit ==
  /\ today   = 1
  /\ bill    = [b \in Bills |-> NoRow]
  /\ money   = [m \in Moneys |-> NoRow]
  /\ entries = {}
  /\ report  = NoRow
  /\ during  = << >>
  /\ since   = {}

Total(S, f(_)) == MapThenSumSet(f, S)

-----------------------------------------------------------------------------
(* The queries.                                                            *)

(* Mutation: a credit counts on the date of the charge it reverses.        *)
EffectiveOfReference(e) ==
  IF e.type = "payment" THEN money[e.of].date ELSE bill[e.of].due

EffectiveDate(e) ==
  CASE e.type = "charge"  -> bill[e.of].due
    [] e.type = "payment" -> money[e.of].date
    [] e.type = "credit"  -> e.on

InRange(from, to) ==
  {e \in entries : /\ from # NoRow => EffectiveDate(e) >= from
                   /\ to   # NoRow => EffectiveDate(e) <= to}

Sum(S) == Total(S, LAMBDA e : e.amount)

(* The last running balance of the period: it runs from the first entry of *)
(* the lease.                                                              *)
FindByLeaseId(r) ==
  LET rows == InRange(r.from, r.to) IN
  [r.sum EXCEPT !["activity"] = Sum(rows), !["last"] = IF rows = {} THEN NoRow ELSE Sum(InRange(NoRow, r.to))]

(* Mutation: the first day of the period counts as before it.              *)
BalanceBeforeOrOn(date) == Sum({e \in entries : EffectiveDate(e) <= date})

BalanceBeforeDate(date) == Sum({e \in entries : EffectiveDate(e) < date})

CurrentBalance == Sum(entries)

Completed(m) == money[m] # NoRow /\ money[m].done
PaidOn(b)    == {m \in Moneys : Completed(m) /\ money[m].bill = b}
Received(S)  == Total(S, LAMBDA m : money[m].amount)
DueBy(date)  == {b \in Bills : bill[b] # NoRow /\ bill[b].due <= date}
Owed(S)      == Total(S, LAMBDA b : bill[b].amount)

(* What has fallen due, less what was paid on it: on a voided charge too,  *)
(* and not what was paid without naming a charge.                          *)
AmountDueNow ==
  Owed({b \in DueBy(today) : ~bill[b].voided}) - Received(UNION {PaidOn(b) : b \in DueBy(today)})

KindOf(rows, type) == Sum({e \in rows : e.type = type})

Absolute(n) == IF n < 0 THEN -n ELSE n

-----------------------------------------------------------------------------
(* Writing.                                                                *)

Book(e)       == entries' = entries \cup {e}
Reading       == report # NoRow /\ report.unread # {}
Shown         == report # NoRow /\ report.unread = {}
Touches(days) ==
  /\ Reading => Len(during) < MaxDuring
  /\ during' = IF Reading THEN Append(during, days) ELSE during
  /\ since'  = IF Shown THEN since \cup days ELSE since

CreateBill(b) ==
  \E due \in Dates, amount \in BillAmounts :
    /\ bill[b] = NoRow
    /\ bill' = [bill EXCEPT ![b] = [due |-> due, amount |-> amount, voided |-> FALSE]]
    /\ Book([type |-> "charge", of |-> b, amount |-> amount, on |-> today])
    /\ Touches({due})
    /\ UNCHANGED <<today, money, report>>

(* Only a voided charge keeps its date for good.                           *)
UpdateCharge(b) ==
  \E due \in Dates :
    /\ bill[b] # NoRow /\ ~bill[b].voided
    /\ bill' = [bill EXCEPT ![b].due = due]
    /\ Touches({due, bill[b].due})
    /\ UNCHANGED <<today, money, entries, report>>

(* One by one, or all of a unit: then also with a payment that is pending. *)
VoidCharge(b) ==
  /\ bill[b] # NoRow /\ ~bill[b].voided
  /\ PaidOn(b) = {}
  /\ bill' = [bill EXCEPT ![b].voided = TRUE]
  /\ Book([type |-> "credit", of |-> b, amount |-> -bill[b].amount, on |-> today])
  /\ Touches({today})
  /\ UNCHANGED <<today, money, report>>

Remaining(b) == bill[b].amount - Received(PaidOn(b))

(* Cash, on any date, for a charge that is not paid or for none.           *)
RecordManualPayment(m) ==
  \E date \in Dates, amount \in MoneyAmounts, b \in Bills \cup {NoRow} :
    /\ money[m] = NoRow
    /\ b # NoRow => /\ bill[b] # NoRow /\ ~bill[b].voided
                    /\ amount <= Remaining(b)
    /\ money' = [money EXCEPT ![m] = [date |-> date, amount |-> amount, bill |-> b, done |-> TRUE]]
    /\ Book([type |-> "payment", of |-> m, amount |-> -amount, on |-> today])
    /\ Touches({date})
    /\ UNCHANGED <<today, bill, report>>

(* A debit takes days: it is booked when it has come in, and counts on the *)
(* day it was started.  Without an amount it is for the whole charge.  One *)
(* that fails is never booked.                                             *)
StartDebit(m) ==
  \E b \in Bills \cup {NoRow}, amount \in MoneyAmounts :
    /\ money[m] = NoRow
    /\ b # NoRow => /\ bill[b] # NoRow /\ ~bill[b].voided
                    /\ Remaining(b) > 0
                    /\ amount \in 1 .. Remaining(b) \cup {bill[b].amount}
    /\ money' = [money EXCEPT ![m] = [date |-> today, amount |-> amount, bill |-> b, done |-> FALSE]]
    /\ UNCHANGED <<today, bill, entries, report, during, since>>

DebitSucceeds(m) ==
  /\ money[m] # NoRow /\ ~money[m].done
  /\ money' = [money EXCEPT ![m].done = TRUE]
  /\ Book([type |-> "payment", of |-> m, amount |-> -money[m].amount, on |-> today])
  /\ Touches({money[m].date})
  /\ UNCHANGED <<today, bill, report>>

Tomorrow ==
  /\ today < LastDate
  /\ today' = today + 1
  /\ Touches({today + 1})
  /\ UNCHANGED <<books, report>>

-----------------------------------------------------------------------------
(* Reading.                                                                *)

AskReport ==
  /\ ~Reading
  /\ \E kind \in Kinds, from \in Froms, to \in Tos :
       /\ kind = "lease" /\ NoRow \notin {from, to} => from <= to
       /\ report' = [kind |-> kind, from |-> from, to |-> to, unread |-> QueriesOf(kind),
                     sum |-> [s \in Sums |-> 0]]
  /\ during' = << >>
  /\ since'  = {}
  /\ UNCHANGED <<today, books>>

AnswerOf(r, query) ==
  LET rows == InRange(r.from, r.to) IN
  CASE query = "entries"    -> FindByLeaseId(r)
    [] query = "opening"    -> [r.sum EXCEPT !["opening"] = IF r.from = NoRow THEN 0 ELSE BalanceBeforeDate(r.from)]
    [] query = "balance"    -> [r.sum EXCEPT !["balance"] = CurrentBalance]
    [] query = "due"        -> [r.sum EXCEPT !["due"] = AmountDueNow]
    [] query = "properties" -> [r.sum EXCEPT !["charged"]   = KindOf(rows, "charge"),
                                             !["collected"] = Absolute(KindOf(rows, "payment")),
                                             !["credits"]   = Absolute(KindOf(rows, "credit"))]
    [] query = "units"      -> [r.sum EXCEPT !["unitCharged"]   = KindOf(rows, "charge"),
                                             !["unitCollected"] = Absolute(KindOf(rows, "payment"))]

Read(query) ==
  /\ Reading
  /\ query \in report.unread
  /\ report' = [report EXCEPT !.unread = @ \ {query}, !.sum = AnswerOf(report, query)]
  /\ UNCHANGED <<today, books, during, since>>

StatementNext ==
  \/ \E b \in Bills : CreateBill(b) \/ UpdateCharge(b) \/ VoidCharge(b)
  \/ \E m \in Moneys : RecordManualPayment(m) \/ StartDebit(m) \/ DebitSucceeds(m)
  \/ Tomorrow
  \/ AskReport
  \/ \E query \in UNION {QueriesOf(k) : k \in Kinds} : Read(query)

-----------------------------------------------------------------------------
(* An empty period ends as it opened.                                      *)
Ending(s) == IF s["last"] = NoRow THEN s["opening"] ELSE s["last"]

(* The figures of one report agree, though each is a query of its own:     *)
(* opening and activity make the ending, unless something dated before the *)
(* period was written in between.  When nothing at all was, a period       *)
(* without end ends in the balance; what is due today is the balance       *)
(* without what falls due later, and before what was paid ahead or for no  *)
(* charge; and the portfolio's units add up to their property and to the   *)
(* movement of the period.                                                 *)
ReportAddsUp ==
  Shown =>
    LET s     == report.sum
        back  == report.from # NoRow /\ \E i \in DOMAIN during : \E d \in during[i] : d < report.from
        later == {b \in Bills : bill[b] # NoRow /\ bill[b].due > today}
        ahead == {m \in Moneys : Completed(m) /\ money[m].bill \in later \cup {NoRow}}
    IN
    /\ report.kind = "lease" /\ ~back
       => s["opening"] + s["activity"] = Ending(s)
    /\ report.kind = "lease" /\ during = << >>
       => /\ report.to = NoRow => Ending(s) = s["balance"]
          /\ since = {} => s["due"] = s["balance"] - Owed({b \in later : ~bill[b].voided}) + Received(ahead)
    /\ report.kind = "portfolio" /\ during = << >>
       => /\ <<s["charged"], s["collected"]>> = <<s["unitCharged"], s["unitCollected"]>>
          /\ since = {} => s["charged"] - s["collected"] - s["credits"] = Sum(InRange(report.from, report.to))

(* What was shown or exported of a period still holds as long as nothing   *)
(* is written with a date in it or before: reversing a charge of a period  *)
(* that is over counts on the day it is done.                              *)
IssuedStays ==
  /\ Shown
  /\ report.kind \in {"lease", "statement"}
  /\ during = << >>
  /\ \A d \in since : report.to # NoRow /\ d > report.to
  => LET again == FindByLeaseId(report) IN
     \A s \in {"activity", "last"} : again[s] = report.sum[s]
================================================================================
