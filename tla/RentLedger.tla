------------------------------ MODULE RentLedger ------------------------------
(***************************************************************************)
(* Rent collection for one lease: the charges billed to it, the payments   *)
(* recorded against them, the append-only ledger, and the three parties    *)
(* that write to these tables without excluding each other:                *)
(*                                                                         *)
(*   - API requests (tenant and admin ACH payments, manual payments,       *)
(*     voids), each a sequence of SQL statements and Stripe calls between  *)
(*     which every other party may run;                                    *)
(*   - deliveries of Stripe webhooks, which Stripe repeats, reorders and   *)
(*     retries until they are answered with 200;                           *)
(*   - the reconciliation script an operator runs by hand.                 *)
(*                                                                         *)
(* A SQL transaction that writes is one step, its commit: PostgreSQL runs  *)
(* it at READ COMMITTED, no row it reads is locked, and the statements     *)
(* that precede the commit are reads.  A read in a transaction that guards *)
(* its writes is a step of its own.                                        *)
(*                                                                         *)
(* Each request of the model inserts at most one payment row and creates   *)
(* at most one PaymentIntent, so that the row, the intent and the request  *)
(* share one name.                                                         *)
(***************************************************************************)
EXTENDS Integers, FiniteSets, Functions

CONSTANTS
  Charges,       \* names of the rent_charges rows
  NoCharge,      \* the null charge_id of an unlinked payment
  Amount,        \* [Charges -> amounts], rent_charges.amount
  Rent,          \* leases.monthly_rent
  TenantAmounts, \* amounts a tenant may ask to pay; 0 is an omitted amount
  ManualAmounts, \* amounts an operator may record
  Requests,      \* API requests, and the payment row and intent of each
  Hooks,         \* webhook deliveries that may be in progress at once
  Features,      \* the endpoints and outside events of this instance
  Serialized     \* TRUE: API requests run one at a time

ASSUME ChargesAssumption == NoCharge \notin Charges
ASSUME AmountAssumption  == Amount \in [Charges -> Nat \ {0}] /\ Rent \in Nat \ {0}
ASSUME AskedAssumption   == TenantAmounts \subseteq Nat /\ ManualAmounts \subseteq Nat \ {0}
ASSUME ModeAssumption    == Serialized \in BOOLEAN

VARIABLES
  charge,    \* rent_charges: is the row absent, open or voided
  payment,   \* rent_payments.status of the row that a request inserted
  billed,    \* ledger_entries: how many 'charge' entries refer to a charge
  reversed,  \* ledger_entries: how many 'credit' entries refer to a charge
  credited,  \* ledger_entries: how many 'payment' entries refer to a payment
  intent,    \* Stripe: the state of the PaymentIntent of a request
  event,     \* Stripe: the state of the delivery of each event
  req,       \* the requests: where each one is and what it has resolved
  hook,      \* the event each webhook handler has read and will apply
  recon      \* the reconciliation script

ledger == <<billed, reversed, credited>>
tables == <<charge, payment>>
stripe == <<intent, event>>
vars   == <<charge, payment, billed, reversed, credited, intent, event, req, hook, recon>>

Events  == {"succeeded", "failed"} \X Requests
NoEvent == <<"none", "none">>

Steps == {"idle", "pending", "paid", "create", "insert", "cancel",
          "manual", "record", "payments", "check", "reverse", "sweep", "done"}

Request == [pc : Steps, charge : Charges \cup {NoCharge}, amount : Nat, doomed : SUBSET Charges]

TypeOK ==
  /\ charge   \in [Charges -> {"absent", "open", "voided"}]
  /\ payment  \in [Requests -> {"none", "pending", "completed", "failed"}]
  /\ billed   \in [Charges -> Nat]
  /\ reversed \in [Charges -> Nat]
  /\ credited \in [Requests -> Nat]
  /\ intent   \in [Requests -> {"none", "processing", "succeeded", "failed", "canceled"}]
  /\ event    \in [Events -> {"unsent", "due", "acked"}]
  /\ req      \in [Requests -> Request]
  /\ hook     \in [Hooks -> Events \cup {NoEvent}]
  /\ recon    \in [todo : SUBSET Requests, doing : SUBSET Requests,
                   verdict : {"none", "completed", "failed"}]

Init ==
  /\ charge   = [c \in Charges |-> "absent"]
  /\ payment  = [r \in Requests |-> "none"]
  /\ billed   = [c \in Charges |-> 0]
  /\ reversed = [c \in Charges |-> 0]
  /\ credited = [r \in Requests |-> 0]
  /\ intent   = [r \in Requests |-> "none"]
  /\ event    = [e \in Events |-> "unsent"]
  /\ req      = [r \in Requests |-> [pc |-> "idle", charge |-> NoCharge, amount |-> 0, doomed |-> {}]]
  /\ hook     = [h \in Hooks |-> NoEvent]
  /\ recon    = [todo |-> {}, doing |-> {}, verdict |-> "none"]

-----------------------------------------------------------------------------
(* What the queries return.                                                *)

PaymentsOn(c, status) == {p \in Requests : payment[p] = status /\ req[p].charge = c}

TotalPaid(c) == SumFunctionOnSet([p \in Requests |-> req[p].amount], PaymentsOn(c, "completed"))

(* The amount that is debited: the one asked for, else the whole charge,   *)
(* else the rent; what was paid before is not subtracted.                  *)
Debited(c, asked) ==
  IF asked # 0 THEN asked ELSE IF c = NoCharge THEN Rent ELSE Amount[c]

(* Mutation: the charge is stamped and its reversal is forgotten.          *)
ReverseUnbooked(C) ==
  /\ charge'   = [c \in Charges |-> IF c \in C THEN "voided" ELSE charge[c]]
  /\ UNCHANGED reversed

(* The two-row write of every transaction on a charge or a payment.        *)
Reverse(C) ==
  /\ charge'   = [c \in Charges |-> IF c \in C THEN "voided" ELSE charge[c]]
  /\ reversed' = [c \in Charges |-> IF c \in C THEN reversed[c] + 1 ELSE reversed[c]]

Settle(p) ==
  /\ payment'  = [payment EXCEPT ![p] = "completed"]
  /\ credited' = [credited EXCEPT ![p] = @ + 1]

-----------------------------------------------------------------------------
(* Requests.                                                               *)

InProgress(r) == req[r].pc \notin {"idle", "done"}

MayStart(r, feature) ==
  /\ feature \in Features
  /\ req[r].pc = "idle"
  /\ Serialized => \A q \in Requests : ~InProgress(q)

Goto(r, step) == req' = [req EXCEPT ![r].pc = step]

Begin(r, step, c, amount, doomed) ==
  req' = [req EXCEPT ![r] = [pc |-> step, charge |-> c, amount |-> amount, doomed |-> doomed]]

(* A request ends early when a statement or a Stripe call fails or its     *)
(* process dies; an open transaction is rolled back.  It also stands for a *)
(* cancellation that Stripe refuses, whose error is swallowed.             *)
Abort(r) ==
  /\ InProgress(r)
  /\ Goto(r, "done")
  /\ UNCHANGED <<tables, ledger, stripe, hook, recon>>

(* Charges are created one by one, in a batch, or by the late-fee job, in  *)
(* one transaction with their ledger entries.                              *)
PostCharges(C) ==
  /\ C # {} /\ \A c \in C : charge[c] = "absent"
  /\ charge' = [c \in Charges |-> IF c \in C THEN "open" ELSE charge[c]]
  /\ billed' = [c \in Charges |-> IF c \in C THEN billed[c] + 1 ELSE billed[c]]
  /\ UNCHANGED <<payment, reversed, credited, stripe, req, hook, recon>>

(* Tenant payment: read the charge, look for a pending payment, add up the *)
(* completed ones, then hand over to Stripe.                               *)
TenantReadCharge(r, c, asked) ==
  /\ MayStart(r, "tenant")
  /\ \/ c = NoCharge /\ asked <= Rent /\ Begin(r, "create", c, Debited(c, asked), {})
     \/ c \in Charges /\ charge[c] = "open" /\ Begin(r, "pending", c, asked, {})
  /\ UNCHANGED <<tables, ledger, stripe, hook, recon>>

TenantCheckPending(r) ==
  /\ req[r].pc = "pending"
  /\ Goto(r, IF PaymentsOn(req[r].charge, "pending") = {} THEN "paid" ELSE "done")
  /\ UNCHANGED <<tables, ledger, stripe, hook, recon>>

(* Mutation: a part payment is not capped at the remaining balance.        *)
TenantCheckPaidUncapped(r) ==
  LET c == req[r].charge
  IN
  /\ req[r].pc = "paid"
  /\ IF TotalPaid(c) < Amount[c]
       THEN Begin(r, "create", c, Debited(c, req[r].amount), {}) ELSE Goto(r, "done")
  /\ UNCHANGED <<tables, ledger, stripe, hook, recon>>

TenantCheckPaid(r) ==
  LET c == req[r].charge
      asked == req[r].amount
      fits == TotalPaid(c) < Amount[c] /\ asked <= Amount[c] - TotalPaid(c)
  IN
  /\ req[r].pc = "paid"
  /\ IF fits THEN Begin(r, "create", c, Debited(c, asked), {}) ELSE Goto(r, "done")
  /\ UNCHANGED <<tables, ledger, stripe, hook, recon>>

(* The admin endpoint pays the whole of any charge, whatever its state.    *)
AdminStart(r, c) ==
  /\ MayStart(r, "admin")
  /\ c \in Charges => charge[c] # "absent"
  /\ Begin(r, "create", c, Debited(c, 0), {})
  /\ UNCHANGED <<tables, ledger, stripe, hook, recon>>

(* Stripe creates the intent.  Without a payment method, which the admin   *)
(* endpoint may omit, it is left unconfirmed, the state a failed one       *)
(* returns to (requires_payment_method): here both are "failed".           *)
CreateIntent(r) ==
  /\ req[r].pc = "create"
  /\ \E s \in {"processing", "failed"} :
       /\ s = "failed" => "admin" \in Features
       /\ intent' = [intent EXCEPT ![r] = s]
  /\ Goto(r, "insert")
  /\ UNCHANGED <<tables, ledger, event, hook, recon>>

InsertPayment(r) ==
  /\ req[r].pc = "insert"
  /\ payment' = [payment EXCEPT ![r] = "pending"]
  /\ Goto(r, "done")
  /\ UNCHANGED <<charge, ledger, stripe, hook, recon>>

InsertFails(r) ==
  /\ req[r].pc = "insert"
  /\ Goto(r, "cancel")
  /\ UNCHANGED <<tables, ledger, stripe, hook, recon>>

CancelIntent(r) ==
  /\ req[r].pc = "cancel"
  /\ intent[r] \in {"processing", "failed"}
  /\ intent' = [intent EXCEPT ![r] = "canceled"]
  /\ event' = [event EXCEPT ![<<"failed", r>>] = "due"]
  /\ Goto(r, "done")
  /\ UNCHANGED <<tables, ledger, hook, recon>>

(* Manual payment: check the charge, then one transaction.                 *)
ManualReadCharge(r, c, amount) ==
  /\ MayStart(r, "manual")
  /\ \/ c = NoCharge /\ Begin(r, "record", c, amount, {})
     \/ c \in Charges /\ charge[c] = "open" /\ Begin(r, "manual", c, amount, {})
  /\ UNCHANGED <<tables, ledger, stripe, hook, recon>>

ManualCheckPaid(r) ==
  LET c == req[r].charge
  IN
  /\ req[r].pc = "manual"
  /\ Goto(r, IF TotalPaid(c) < Amount[c] /\ req[r].amount <= Amount[c] - TotalPaid(c)
               THEN "record" ELSE "done")
  /\ UNCHANGED <<tables, ledger, stripe, hook, recon>>

RecordManual(r) ==
  /\ req[r].pc = "record"
  /\ Settle(r)
  /\ Goto(r, "done")
  /\ UNCHANGED <<charge, billed, reversed, stripe, hook, recon>>

(* Mutation: a charge that is already voided may be voided.                *)
VoidReadAnyCharge(r, c) ==
  /\ MayStart(r, "void")
  /\ charge[c] # "absent"
  /\ Begin(r, "payments", NoCharge, 0, {c})
  /\ UNCHANGED <<tables, ledger, stripe, hook, recon>>

(* Void of one charge: read it, read its payments, then a transaction that *)
(* looks once more for a completed payment before it writes.               *)
VoidReadCharge(r, c) ==
  /\ MayStart(r, "void")
  /\ charge[c] = "open"
  /\ Begin(r, "payments", NoCharge, 0, {c})
  /\ UNCHANGED <<tables, ledger, stripe, hook, recon>>

(* Mutation: only completed payments block a void.                         *)
VoidCheckPaymentsCompleted(r) ==
  /\ req[r].pc = "payments"
  /\ Goto(r, IF \A c \in req[r].doomed : PaymentsOn(c, "completed") = {} THEN "check" ELSE "done")
  /\ UNCHANGED <<tables, ledger, stripe, hook, recon>>

VoidCheckPayments(r) ==
  /\ req[r].pc = "payments"
  /\ Goto(r, IF \A c \in req[r].doomed : PaymentsOn(c, "pending") \cup PaymentsOn(c, "completed") = {}
               THEN "check" ELSE "done")
  /\ UNCHANGED <<tables, ledger, stripe, hook, recon>>

VoidCheckCompleted(r) ==
  /\ req[r].pc = "check"
  /\ Goto(r, IF \A c \in req[r].doomed : PaymentsOn(c, "completed") = {} THEN "reverse" ELSE "done")
  /\ UNCHANGED <<tables, ledger, stripe, hook, recon>>

CommitVoid(r) ==
  /\ req[r].pc = "reverse"
  /\ Reverse(req[r].doomed)
  /\ Goto(r, "done")
  /\ UNCHANGED <<payment, billed, credited, stripe, hook, recon>>

(* Void of a unit: select the charges outside the transaction, then void   *)
(* all of them without looking again.                                      *)
SelectUnitCharges(r) ==
  LET doomed == {c \in Charges : charge[c] = "open" /\ PaymentsOn(c, "completed") = {}}
  IN
  /\ MayStart(r, "voidUnit")
  /\ doomed # {}
  /\ Begin(r, "sweep", NoCharge, 0, doomed)
  /\ UNCHANGED <<tables, ledger, stripe, hook, recon>>

CommitUnitVoid(r) ==
  /\ req[r].pc = "sweep"
  /\ Reverse(req[r].doomed)
  /\ Goto(r, "done")
  /\ UNCHANGED <<payment, billed, credited, stripe, hook, recon>>

-----------------------------------------------------------------------------
(* Stripe.                                                                 *)

(* With "earlySettlement" the bank may answer before the pending row is    *)
(* committed; otherwise an intent settles once its request is over.        *)
MaySettle(p) ==
  /\ intent[p] = "processing"
  /\ InProgress(p) => "earlySettlement" \in Features

IntentSucceeds(p) ==
  /\ MaySettle(p)
  /\ intent' = [intent EXCEPT ![p] = "succeeded"]
  /\ event' = [event EXCEPT ![<<"succeeded", p>>] = "due"]
  /\ UNCHANGED <<tables, ledger, req, hook, recon>>

IntentFails(p) ==
  /\ MaySettle(p)
  /\ intent' = [intent EXCEPT ![p] = "failed"]
  /\ event' = [event EXCEPT ![<<"failed", p>>] = "due"]
  /\ UNCHANGED <<tables, ledger, req, hook, recon>>

(* An intent that failed, or was never confirmed, is confirmed by the      *)
(* client with its secret.                                                 *)
IntentReconfirmed(p) ==
  /\ "reconfirm" \in Features
  /\ intent[p] = "failed"
  /\ intent' = [intent EXCEPT ![p] = "processing"]
  /\ UNCHANGED <<tables, ledger, event, req, hook, recon>>

-----------------------------------------------------------------------------
(* Webhook handlers.  An event that was answered may be delivered again.   *)

(* Mutations: a completed payment is completed again; only a pending       *)
(* payment is completed.                                                   *)
AppliesAgain(kind, p) ==
  \/ kind = "succeeded" /\ payment[p] # "none"
  \/ kind = "failed"    /\ payment[p] = "pending"

AppliesToPending(kind, p) == payment[p] = "pending"

(* Does the handler of an event, reading the row of p, find work to do?    *)
Applies(kind, p) ==
  \/ kind = "succeeded" /\ payment[p] \notin {"none", "completed"}
  \/ kind = "failed"    /\ payment[p] = "pending"

Deliver(h, kind, p) ==
  /\ hook[h] = NoEvent
  /\ event[<<kind, p>>] # "unsent"
  /\ Applies(kind, p)
  /\ hook' = [hook EXCEPT ![h] = <<kind, p>>]
  /\ UNCHANGED <<tables, ledger, stripe, req, recon>>

(* Nothing to do: answered with 200, also when there is no row.            *)
DeliverInVain(h, kind, p) ==
  /\ hook[h] = NoEvent
  /\ event[<<kind, p>>] = "due"
  /\ ~Applies(kind, p)
  /\ event' = [event EXCEPT ![<<kind, p>>] = "acked"]
  /\ UNCHANGED <<tables, ledger, intent, req, hook, recon>>

Answered(h) ==
  /\ event' = [event EXCEPT ![hook[h]] = "acked"]
  /\ hook' = [hook EXCEPT ![h] = NoEvent]

CommitSucceeded(h, p) ==
  /\ hook[h] = <<"succeeded", p>>
  /\ Settle(p)
  /\ Answered(h)
  /\ UNCHANGED <<charge, billed, reversed, intent, req, recon>>

CommitFailed(h, p) ==
  /\ hook[h] = <<"failed", p>>
  /\ payment' = [payment EXCEPT ![p] = "failed"]
  /\ Answered(h)
  /\ UNCHANGED <<charge, ledger, intent, req, recon>>

(* An error in the handler is answered with 500, or never answered when    *)
(* the process dies; the event stays due.                                  *)
HandlerFails(h) ==
  /\ hook[h] # NoEvent
  /\ hook' = [hook EXCEPT ![h] = NoEvent]
  /\ UNCHANGED <<tables, ledger, stripe, req, recon>>

-----------------------------------------------------------------------------
(* The reconciliation script: select the pending payments once, then ask   *)
(* Stripe about each of them and write the answer.                         *)

ReconSelect ==
  /\ "reconcile" \in Features
  /\ recon.todo = {} /\ recon.doing = {}
  /\ \E p \in Requests : payment[p] = "pending"
  /\ recon' = [recon EXCEPT !.todo = {p \in Requests : payment[p] = "pending"}]
  /\ UNCHANGED <<tables, ledger, stripe, req, hook>>

(* Mutation: an intent that has not failed counts as paid.                 *)
ReconRetrieveUnfailed(p) ==
  /\ p \in recon.todo /\ recon.doing = {}
  /\ recon' = [todo |-> recon.todo \ {p}, doing |-> {p},
               verdict |-> IF intent[p] \in {"failed", "canceled"} THEN "failed" ELSE "completed"]
  /\ UNCHANGED <<tables, ledger, stripe, req, hook>>

ReconRetrieve(p) ==
  /\ p \in recon.todo /\ recon.doing = {}
  /\ recon' = IF intent[p] = "succeeded"
                THEN [todo |-> recon.todo \ {p}, doing |-> {p}, verdict |-> "completed"]
              ELSE IF intent[p] \in {"failed", "canceled"}
                THEN [todo |-> recon.todo \ {p}, doing |-> {p}, verdict |-> "failed"]
              ELSE [recon EXCEPT !.todo = @ \ {p}]
  /\ UNCHANGED <<tables, ledger, stripe, req, hook>>

ReconNext == recon' = [recon EXCEPT !.doing = {}, !.verdict = "none"]

ReconComplete(p) ==
  /\ p \in recon.doing /\ recon.verdict = "completed"
  /\ Settle(p)
  /\ ReconNext
  /\ UNCHANGED <<charge, billed, reversed, stripe, req, hook>>

ReconFail(p) ==
  /\ p \in recon.doing /\ recon.verdict = "failed"
  /\ payment' = [payment EXCEPT ![p] = "failed"]
  /\ ReconNext
  /\ UNCHANGED <<charge, ledger, stripe, req, hook>>

(* A statement fails and the script goes on with the next payment.         *)
ReconError ==
  /\ recon.doing # {}
  /\ ReconNext
  /\ UNCHANGED <<tables, ledger, stripe, req, hook>>

-----------------------------------------------------------------------------
RequestStep(r) ==
  \/ \E c \in Charges \cup {NoCharge} :
       \/ \E a \in TenantAmounts : TenantReadCharge(r, c, a)
       \/ \E a \in ManualAmounts : ManualReadCharge(r, c, a)
       \/ AdminStart(r, c)
  \/ \E c \in Charges : VoidReadCharge(r, c)
  \/ TenantCheckPending(r) \/ TenantCheckPaid(r)
  \/ CreateIntent(r) \/ InsertPayment(r) \/ InsertFails(r) \/ CancelIntent(r)
  \/ ManualCheckPaid(r) \/ RecordManual(r)
  \/ VoidCheckPayments(r) \/ VoidCheckCompleted(r) \/ CommitVoid(r)
  \/ SelectUnitCharges(r) \/ CommitUnitVoid(r)
  \/ Abort(r)

StripeStep(p) == IntentSucceeds(p) \/ IntentFails(p) \/ IntentReconfirmed(p)

HookStep(h) ==
  \/ \E kind \in {"succeeded", "failed"}, p \in Requests :
       Deliver(h, kind, p) \/ DeliverInVain(h, kind, p)
  \/ \E p \in Requests : CommitSucceeded(h, p) \/ CommitFailed(h, p)
  \/ HandlerFails(h)

ReconStep ==
  \/ ReconSelect
  \/ \E p \in Requests : ReconRetrieve(p) \/ ReconComplete(p) \/ ReconFail(p)
  \/ ReconError

Next ==
  \/ \E C \in SUBSET Charges : PostCharges(C)
  \/ \E r \in Requests : RequestStep(r)
  \/ \E p \in Requests : StripeStep(p)
  \/ \E h \in Hooks : HookStep(h)
  \/ ReconStep

Spec == Init /\ [][Next]_vars

(* Stripe delivers an event until it is answered with 200, and a handler   *)
(* does not fail for ever: a database outage ends.  Nothing obliges a      *)
(* request to be made or a bank to settle.                                 *)
Fairness ==
  \A p \in Requests :
    /\ SF_vars(\E h \in Hooks, kind \in {"succeeded", "failed"} :
                 event[<<kind, p>>] = "due" /\ (Deliver(h, kind, p) \/ DeliverInVain(h, kind, p)))
    /\ SF_vars(\E h \in Hooks : CommitSucceeded(h, p))
    /\ SF_vars(\E h \in Hooks : CommitFailed(h, p))

FairSpec == Spec /\ Fairness

-----------------------------------------------------------------------------
(* Properties that hold for every interleaving.                            *)

(* The rows and the entries that one transaction writes together are never *)
(* seen apart: a charge is billed exactly when it exists, it is reversed   *)
(* when and only when it is voided, and a completed payment is credited.   *)
EveryRowIsBooked ==
  /\ \A c \in Charges : billed[c] = (IF charge[c] = "absent" THEN 0 ELSE 1)
  /\ \A c \in Charges : reversed[c] > 0 <=> charge[c] = "voided"
  /\ \A p \in Requests : payment[p] = "completed" => credited[p] > 0

(* No tenant is credited with money that did not arrive: a payment with an *)
(* intent is completed or credited only after Stripe has reported success, *)
(* whatever was delivered late, twice, or read before it changed.          *)
MoneyBehindEveryCredit ==
  \A p \in Requests :
    payment[p] = "completed" \/ credited[p] > 0 => intent[p] \in {"none", "succeeded"}

-----------------------------------------------------------------------------
(* Properties of one webhook handler at a time and no reconciliation.      *)

(* Each Stripe or manual payment is credited once when it is completed,    *)
(* however often its event is delivered, and never before.                 *)
CreditedExactlyOnce ==
  \A p \in Requests : credited[p] = (IF payment[p] = "completed" THEN 1 ELSE 0)

(* A completed payment is final: a late payment_failed or canceled event   *)
(* of an earlier attempt does not undo it.                                 *)
CompletedIsFinal ==
  [][\A p \in Requests : payment[p] = "completed" => payment'[p] = "completed"]_vars

-----------------------------------------------------------------------------
(* Properties of requests that run one at a time.                          *)

(* The ledger keeps the promise of LedgerBook.                             *)
Book == INSTANCE LedgerBook WITH Payments <- Requests
BookSpec == Book!Spec

(* A voided charge carries no money: none is on its way and none arrived.  *)
VoidedCarriesNoMoney ==
  \A c \in Charges : charge[c] = "voided" =>
    PaymentsOn(c, "pending") \cup PaymentsOn(c, "completed") = {}

(* Part payments add up to no more than the charge: the debits that were   *)
(* completed and the one in flight, over any series of attempts.  A manual *)
(* payment does not look at debits in flight and is not counted.           *)
NeverOverdebited ==
  \A c \in Charges :
    LET debits == {p \in PaymentsOn(c, "pending") \cup PaymentsOn(c, "completed") : intent[p] # "none"}
    IN  SumFunctionOnSet([p \in Requests |-> req[p].amount], debits) <= Amount[c]

-----------------------------------------------------------------------------
(* Properties that the comments state.                                     *)

(* "Idempotent": no payment is credited twice.                             *)
CreditedAtMostOnce == \A p \in Requests : credited[p] <= 1

(* A successful event that finds its payment row is applied in the end.    *)
SuccessIsApplied ==
  \A p \in Requests :
    (event[<<"succeeded", p>>] = "due" /\ payment[p] # "none") ~> payment[p] = "completed"

-----------------------------------------------------------------------------
(* The facts that make the properties above inductive.                     *)

(* Until a request is over it has no row, and until it has called Stripe   *)
(* no intent: nothing can be delivered about it.                           *)
RequestsAreFresh ==
  \A r \in Requests :
    /\ req[r].pc # "done" => payment[r] = "none" /\ credited[r] = 0
    /\ req[r].pc \notin {"insert", "cancel", "done"} => intent[r] = "none"

(* A void in progress is about charges that exist.                         *)
DoomedExist == \A r \in Requests : \A c \in req[r].doomed : charge[c] # "absent"

(* What a handler or the script has read about a row stays true of the row *)
(* as far as its existence goes, and of Stripe as far as success goes.     *)
HandlersHaveRows ==
  /\ \A h \in Hooks : \A e \in Events : hook[h] = e => payment[e[2]] # "none"
  /\ \A p \in recon.todo \cup recon.doing : payment[p] # "none"

SuccessIsTrue ==
  \A p \in Requests :
    /\ event[<<"succeeded", p>>] # "unsent" => intent[p] = "succeeded"
    /\ \A h \in Hooks : hook[h] = <<"succeeded", p>> => intent[p] = "succeeded"
    /\ p \in recon.doing /\ recon.verdict = "completed" => intent[p] = "succeeded"

Evidence ==
  /\ TypeOK /\ EveryRowIsBooked /\ MoneyBehindEveryCredit
  /\ RequestsAreFresh /\ DoomedExist /\ HandlersHaveRows /\ SuccessIsTrue

(* With a single handler and no script, what the handler read is still so  *)
(* when it commits.                                                        *)
HandlersAreCurrent ==
  /\ \A h \in Hooks, p \in Requests :
       /\ hook[h] = <<"succeeded", p>> => payment[p] # "completed"
       /\ hook[h] = <<"failed", p>> => payment[p] = "pending"
  /\ recon.todo = {} /\ recon.doing = {}

(* With requests one at a time, a charge that is being voided is still     *)
(* open when it is.                                                        *)
VoidsAreCurrent ==
  /\ \A r, q \in Requests : InProgress(r) /\ InProgress(q) => r = q
  /\ \A r \in Requests : InProgress(r) => \A c \in req[r].doomed : charge[c] = "open"
  /\ \A c \in Charges : reversed[c] = (IF charge[c] = "voided" THEN 1 ELSE 0)

=============================================================================
