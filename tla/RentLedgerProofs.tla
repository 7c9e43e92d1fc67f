--------------------------- MODULE RentLedgerProofs ---------------------------
(***************************************************************************)
(* Theorems about RentLedger for every set of charges, requests, handlers  *)
(* and features.  The last three parts are about requests one at a time:   *)
(* the refinement of LedgerBook, voided charges, and the sum of the debits *)
(* of a charge, which rests on facts about sums over finite sets.          *)
(***************************************************************************)
EXTENDS RentLedger, FiniteSetTheorems, WellFoundedInduction, TLAPS

(* The amount of a debit is a number whatever the request asked for.       *)
LEMMA DebitedType ==
  ASSUME NEW c \in Charges \cup {NoCharge}, NEW asked \in Nat
  PROVE  Debited(c, asked) \in Nat
  BY AmountAssumption, ChargesAssumption DEF Debited

(* A request that begins or moves on keeps the type of the request table.  *)
LEMMA BeginType ==
  ASSUME TypeOK, NEW r \in Requests, NEW step \in Steps, NEW c \in Charges \cup {NoCharge},
         NEW amount \in Nat, NEW doomed \in SUBSET Charges, Begin(r, step, c, amount, doomed)
  PROVE  req' \in [Requests -> Request]
  BY DEF TypeOK, Begin, Request

LEMMA GotoType ==
  ASSUME TypeOK, NEW r \in Requests, NEW step \in Steps, Goto(r, step)
  PROVE  req' \in [Requests -> Request]
<1>1. req \in [Requests -> Request]
  BY DEF TypeOK
<1>2. [req[r] EXCEPT !.pc = step] \in Request
  BY <1>1 DEF Request
<1>3. req' = [req EXCEPT ![r] = [req[r] EXCEPT !.pc = step]]
  BY DEF Goto
<1> QED  BY <1>1, <1>2, <1>3

LEMMA TypeStep == TypeOK /\ [Next]_vars => TypeOK'
<1> SUFFICES ASSUME TypeOK, [Next]_vars PROVE TypeOK'
  OBVIOUS
<1> USE DEF tables, ledger, stripe, Steps
<1>1. ASSUME NEW C \in SUBSET Charges, PostCharges(C) PROVE TypeOK'
  BY <1>1 DEF PostCharges, TypeOK
<1>2. ASSUME NEW r \in Requests, RequestStep(r) PROVE TypeOK'
  <2>1. ASSUME NEW c \in Charges \cup {NoCharge}, NEW a \in TenantAmounts, TenantReadCharge(r, c, a)
        PROVE  TypeOK'
    <3>1. a \in Nat /\ Debited(c, a) \in Nat
      BY AskedAssumption, DebitedType
    <3>2. req' \in [Requests -> Request]
      BY <2>1, <3>1, BeginType DEF TenantReadCharge
    <3> QED  BY <2>1, <3>2 DEF TenantReadCharge, TypeOK
  <2>2. ASSUME NEW c \in Charges \cup {NoCharge}, NEW a \in ManualAmounts, ManualReadCharge(r, c, a)
        PROVE  TypeOK'
    <3>1. a \in Nat
      BY AskedAssumption
    <3>2. req' \in [Requests -> Request]
      BY <2>2, <3>1, BeginType DEF ManualReadCharge
    <3> QED  BY <2>2, <3>2 DEF ManualReadCharge, TypeOK
  <2>3. ASSUME NEW c \in Charges \cup {NoCharge}, AdminStart(r, c)
        PROVE  TypeOK'
    <3>1. req' \in [Requests -> Request]
      BY <2>3, DebitedType, BeginType DEF AdminStart
    <3> QED  BY <2>3, <3>1 DEF AdminStart, TypeOK
  <2>4. ASSUME NEW c \in Charges, VoidReadCharge(r, c)
        PROVE  TypeOK'
    <3>1. {c} \in SUBSET Charges /\ NoCharge \in Charges \cup {NoCharge} /\ 0 \in Nat
      OBVIOUS
    <3>2. Begin(r, "payments", NoCharge, 0, {c})
      BY <2>4 DEF VoidReadCharge
    <3>3. req' \in [Requests -> Request]
      BY <3>1, <3>2, BeginType
    <3> QED  BY <2>4, <3>3 DEF VoidReadCharge, TypeOK
  <2>5. CASE TenantCheckPending(r)
    BY <2>5, GotoType DEF TenantCheckPending, TypeOK
  <2>6. CASE TenantCheckPaid(r)
    <3>1. req[r].charge \in Charges \cup {NoCharge} /\ req[r].amount \in Nat
      BY DEF TypeOK, Request
    <3>2. Debited(req[r].charge, req[r].amount) \in Nat
      BY <3>1, DebitedType
    <3>3. req' \in [Requests -> Request]
      BY <2>6, <3>1, <3>2, BeginType, GotoType DEF TenantCheckPaid
    <3> QED  BY <2>6, <3>3 DEF TenantCheckPaid, TypeOK
  <2>7. CASE CreateIntent(r)
    BY <2>7, GotoType DEF CreateIntent, TypeOK
  <2>8. CASE InsertPayment(r)
    BY <2>8, GotoType DEF InsertPayment, TypeOK
  <2>9. CASE InsertFails(r)
    BY <2>9, GotoType DEF InsertFails, TypeOK
  <2>10. CASE CancelIntent(r)
    BY <2>10, GotoType DEF CancelIntent, TypeOK, Events
  <2>11. CASE ManualCheckPaid(r)
    BY <2>11, GotoType DEF ManualCheckPaid, TypeOK
  <2>12. CASE RecordManual(r)
    BY <2>12, GotoType DEF RecordManual, Settle, TypeOK
  <2>13. CASE VoidCheckPayments(r)
    BY <2>13, GotoType DEF VoidCheckPayments, TypeOK
  <2>14. CASE VoidCheckCompleted(r)
    BY <2>14, GotoType DEF VoidCheckCompleted, TypeOK
  <2>15. CASE CommitVoid(r)
    BY <2>15, GotoType DEF CommitVoid, Reverse, TypeOK
  <2>16. CASE SelectUnitCharges(r)
    <3>1. req' \in [Requests -> Request]
      BY <2>16, BeginType DEF SelectUnitCharges
    <3> QED  BY <2>16, <3>1 DEF SelectUnitCharges, TypeOK
  <2>17. CASE CommitUnitVoid(r)
    BY <2>17, GotoType DEF CommitUnitVoid, Reverse, TypeOK
  <2>18. CASE Abort(r)
    BY <2>18, GotoType DEF Abort, TypeOK
  <2> QED
    BY <1>2, <2>1, <2>2, <2>3, <2>4, <2>5, <2>6, <2>7, <2>8, <2>9, <2>10, <2>11, <2>12,
       <2>13, <2>14, <2>15, <2>16, <2>17, <2>18 DEF RequestStep
<1>3. ASSUME NEW p \in Requests, StripeStep(p) PROVE TypeOK'
  BY <1>3 DEF StripeStep, IntentSucceeds, IntentFails, IntentReconfirmed, TypeOK, Events
<1>4. ASSUME NEW h \in Hooks, HookStep(h) PROVE TypeOK'
  <2>1. ASSUME NEW kind \in {"succeeded", "failed"}, NEW p \in Requests, Deliver(h, kind, p)
        PROVE  TypeOK'
    BY <2>1 DEF Deliver, TypeOK, Events
  <2>2. ASSUME NEW kind \in {"succeeded", "failed"}, NEW p \in Requests, DeliverInVain(h, kind, p)
        PROVE  TypeOK'
    BY <2>2 DEF DeliverInVain, TypeOK, Events
  <2>3. ASSUME NEW p \in Requests, CommitSucceeded(h, p)
        PROVE  TypeOK'
    BY <2>3 DEF CommitSucceeded, Settle, Answered, TypeOK, Events
  <2>4. ASSUME NEW p \in Requests, CommitFailed(h, p)
        PROVE  TypeOK'
    BY <2>4 DEF CommitFailed, Answered, TypeOK, Events
  <2>5. CASE HandlerFails(h)
    BY <2>5 DEF HandlerFails, TypeOK
  <2> QED  BY <1>4, <2>1, <2>2, <2>3, <2>4, <2>5 DEF HookStep
<1>5. CASE ReconStep
  <2>1. CASE ReconSelect
    BY <2>1 DEF ReconSelect, TypeOK
  <2>2. ASSUME NEW p \in Requests, ReconRetrieve(p) PROVE TypeOK'
    BY <2>2 DEF ReconRetrieve, TypeOK
  <2>3. ASSUME NEW p \in Requests, ReconComplete(p) PROVE TypeOK'
    <3>1. recon' \in [todo : SUBSET Requests, doing : SUBSET Requests,
                       verdict : {"none", "completed", "failed"}]
      BY <2>3 DEF ReconComplete, ReconNext, TypeOK
    <3> QED  BY <2>3, <3>1 DEF ReconComplete, Settle, TypeOK
  <2>4. ASSUME NEW p \in Requests, ReconFail(p) PROVE TypeOK'
    BY <2>4 DEF ReconFail, ReconNext, TypeOK
  <2>5. CASE ReconError
    BY <2>5 DEF ReconError, ReconNext, TypeOK
  <2> QED  BY <1>5, <2>1, <2>2, <2>3, <2>4, <2>5 DEF ReconStep
<1>6. CASE UNCHANGED vars
  BY <1>6 DEF vars, TypeOK
<1> QED  BY <1>1, <1>2, <1>3, <1>4, <1>5, <1>6 DEF Next

(* Every table holds what its schema allows, whatever happens.             *)
THEOREM TypeCorrect == Spec => []TypeOK
<1>1. Init => TypeOK
  BY DEF Init, TypeOK, Request, Steps, Events, NoEvent
<1> QED  BY <1>1, TypeStep, PTL DEF Spec

-----------------------------------------------------------------------------
(* A request that only reads and moves on disturbs nothing, provided that  *)
(* it does not leave Stripe behind and dooms only charges that exist.      *)
LEMMA ReadingKeepsEvidence ==
  ASSUME Evidence, TypeOK', NEW r \in Requests, req[r].pc # "done",
         UNCHANGED <<tables, ledger, stripe, hook, recon>>,
         \A q \in Requests : q # r => req'[q] = req[q],
         req'[r].pc \notin {"insert", "cancel", "done"} =>
           req[r].pc \notin {"insert", "cancel", "done"},
         \A c \in req'[r].doomed : charge[c] # "absent"
  PROVE  Evidence'
<1> USE DEF Evidence, tables, ledger, stripe
<1>1. EveryRowIsBooked'
  BY DEF EveryRowIsBooked
<1>2. MoneyBehindEveryCredit'
  BY DEF MoneyBehindEveryCredit
<1>3. RequestsAreFresh'
  <2> SUFFICES ASSUME NEW q \in Requests
               PROVE  /\ req'[q].pc # "done" => payment[q] = "none" /\ credited[q] = 0
                      /\ req'[q].pc \notin {"insert", "cancel", "done"} => intent[q] = "none"
    BY DEF RequestsAreFresh
  <2>1. CASE q = r
    BY <2>1 DEF RequestsAreFresh
  <2>2. CASE q # r
    BY <2>2 DEF RequestsAreFresh
  <2> QED  BY <2>1, <2>2
<1>4. DoomedExist'
  BY DEF DoomedExist
<1>5. HandlersHaveRows'
  BY DEF HandlersHaveRows
<1>6. SuccessIsTrue'
  BY DEF SuccessIsTrue
<1> QED  BY <1>1, <1>2, <1>3, <1>4, <1>5, <1>6

(* Shapes of a moved request.                                              *)
LEMMA GotoShape ==
  ASSUME TypeOK, NEW r \in Requests, NEW step \in Steps, Goto(r, step)
  PROVE  /\ \A q \in Requests : q # r => req'[q] = req[q]
         /\ req'[r].pc = step /\ req'[r].doomed = req[r].doomed
         /\ req'[r].charge = req[r].charge /\ req'[r].amount = req[r].amount
         /\ \A q \in Requests : req'[q].doomed = req[q].doomed
<1>1. req \in [Requests -> Request]
  BY DEF TypeOK
<1> QED  BY <1>1 DEF Goto, Request

LEMMA BeginShape ==
  ASSUME TypeOK, NEW r \in Requests, NEW step, NEW c, NEW amount, NEW doomed,
         Begin(r, step, c, amount, doomed)
  PROVE  /\ \A q \in Requests : q # r => req'[q] = req[q]
         /\ req'[r].pc = step /\ req'[r].doomed = doomed
  BY DEF TypeOK, Begin

LEMMA EvidenceInit == Init => Evidence
<1> SUFFICES ASSUME Init PROVE Evidence
  OBVIOUS
<1>1. TypeOK
  BY DEF Init, TypeOK, Request, Steps, Events, NoEvent
<1>2. EveryRowIsBooked /\ MoneyBehindEveryCredit /\ RequestsAreFresh /\ DoomedExist
  BY DEF Init, EveryRowIsBooked, MoneyBehindEveryCredit, RequestsAreFresh, DoomedExist
<1>3. HandlersHaveRows /\ SuccessIsTrue
  BY DEF Init, HandlersHaveRows, SuccessIsTrue, Events, NoEvent
<1> QED  BY <1>1, <1>2, <1>3 DEF Evidence

(* An intent that has not succeeded may move anywhere but to success.      *)
LEMMA IntentMoves ==
  ASSUME Evidence, NEW r \in Requests, intent[r] # "succeeded",
         \A p \in Requests : p # r => intent'[p] = intent[p],
         \A p \in Requests : event'[<<"succeeded", p>>] = event[<<"succeeded", p>>],
         UNCHANGED <<hook, recon>>
  PROVE  SuccessIsTrue'
<1> SUFFICES ASSUME NEW p \in Requests
             PROVE  /\ event'[<<"succeeded", p>>] # "unsent" => intent'[p] = "succeeded"
                    /\ \A h \in Hooks : hook[h] = <<"succeeded", p>> => intent'[p] = "succeeded"
                    /\ p \in recon.doing /\ recon.verdict = "completed" => intent'[p] = "succeeded"
  BY DEF SuccessIsTrue
<1>1. CASE p = r
  BY <1>1 DEF Evidence, SuccessIsTrue
<1>2. CASE p # r
  BY <1>2 DEF Evidence, SuccessIsTrue
<1> QED  BY <1>1, <1>2

(* One lemma for each party.                                               *)
LEMMA EvidenceOfRequests ==
  ASSUME Evidence, TypeOK', NEW r \in Requests, RequestStep(r)
  PROVE  Evidence'
<1> USE DEF tables, ledger, stripe, Steps
<1>0. TypeOK
  BY DEF Evidence
<1>1. ASSUME NEW c \in Charges \cup {NoCharge}, NEW a \in TenantAmounts, TenantReadCharge(r, c, a)
      PROVE  Evidence'
  BY <1>0, <1>1, BeginShape, ReadingKeepsEvidence DEF TenantReadCharge, MayStart
<1>2. ASSUME NEW c \in Charges \cup {NoCharge}, NEW a \in ManualAmounts, ManualReadCharge(r, c, a)
      PROVE  Evidence'
  BY <1>0, <1>2, BeginShape, ReadingKeepsEvidence DEF ManualReadCharge, MayStart
<1>3. ASSUME NEW c \in Charges \cup {NoCharge}, AdminStart(r, c)
      PROVE  Evidence'
  BY <1>0, <1>3, BeginShape, ReadingKeepsEvidence DEF AdminStart, MayStart
<1>4. ASSUME NEW c \in Charges, VoidReadCharge(r, c)
      PROVE  Evidence'
  BY <1>0, <1>4, BeginShape, ReadingKeepsEvidence DEF VoidReadCharge, MayStart
<1>5. CASE TenantCheckPending(r)
  BY <1>0, <1>5, GotoShape, ReadingKeepsEvidence DEF TenantCheckPending, Evidence, DoomedExist
<1>6. CASE TenantCheckPaid(r)
  BY <1>0, <1>6, GotoShape, BeginShape, ReadingKeepsEvidence
     DEF TenantCheckPaid, Evidence, DoomedExist
<1>7. CASE CreateIntent(r)
  <2>1. PICK s \in {"processing", "failed"} : intent' = [intent EXCEPT ![r] = s]
    BY <1>7 DEF CreateIntent
  <2>7. intent[r] = "none"
    BY <1>7 DEF CreateIntent, Evidence, RequestsAreFresh
  <2>2. payment[r] = "none" /\ credited[r] = 0
    BY <1>7 DEF CreateIntent, Evidence, RequestsAreFresh
  <2>3. EveryRowIsBooked' /\ HandlersHaveRows'
    BY <1>7 DEF CreateIntent, Evidence, EveryRowIsBooked, HandlersHaveRows
  <2>4. MoneyBehindEveryCredit'
    BY <1>0, <1>7, <2>1, <2>7, <2>2 DEF CreateIntent, Evidence, MoneyBehindEveryCredit, TypeOK
  <2>5. RequestsAreFresh' /\ DoomedExist'
    BY <1>0, <1>7, <2>1, <2>2, GotoShape
       DEF CreateIntent, Evidence, RequestsAreFresh, DoomedExist, TypeOK
  <2>6. SuccessIsTrue'
    BY <1>0, <1>7, <2>1, <2>7, IntentMoves DEF CreateIntent, TypeOK
  <2> QED  BY <2>3, <2>4, <2>5, <2>6 DEF Evidence
<1>8. CASE InsertPayment(r)
  <2>1. payment' = [payment EXCEPT ![r] = "pending"] /\ payment[r] = "none" /\ credited[r] = 0
    BY <1>8 DEF InsertPayment, Evidence, RequestsAreFresh
  <2>2. EveryRowIsBooked' /\ HandlersHaveRows' /\ SuccessIsTrue'
    BY <1>0, <1>8, <2>1
       DEF InsertPayment, Evidence, EveryRowIsBooked, HandlersHaveRows, SuccessIsTrue, TypeOK
  <2>3. MoneyBehindEveryCredit'
    BY <1>0, <1>8, <2>1 DEF InsertPayment, Evidence, MoneyBehindEveryCredit, TypeOK
  <2>4. RequestsAreFresh' /\ DoomedExist'
    BY <1>0, <1>8, <2>1, GotoShape
       DEF InsertPayment, Evidence, RequestsAreFresh, DoomedExist, TypeOK
  <2> QED  BY <2>2, <2>3, <2>4 DEF Evidence
<1>9. CASE InsertFails(r)
  BY <1>0, <1>9, GotoShape, ReadingKeepsEvidence DEF InsertFails, Evidence, DoomedExist
<1>10. CASE CancelIntent(r)
  <2>1. /\ intent' = [intent EXCEPT ![r] = "canceled"] /\ intent[r] \in {"processing", "failed"}
        /\ event' = [event EXCEPT ![<<"failed", r>>] = "due"]
    BY <1>10 DEF CancelIntent
  <2>2. payment[r] = "none" /\ credited[r] = 0
    BY <1>10 DEF CancelIntent, Evidence, RequestsAreFresh
  <2>3. EveryRowIsBooked' /\ HandlersHaveRows'
    BY <1>10 DEF CancelIntent, Evidence, EveryRowIsBooked, HandlersHaveRows
  <2>4. MoneyBehindEveryCredit'
    BY <1>0, <1>10, <2>1, <2>2 DEF CancelIntent, Evidence, MoneyBehindEveryCredit, TypeOK
  <2>5. RequestsAreFresh' /\ DoomedExist'
    BY <1>0, <1>10, <2>1, <2>2, GotoShape
       DEF CancelIntent, Evidence, RequestsAreFresh, DoomedExist, TypeOK
  <2>6. SuccessIsTrue'
    <3>1. \A p \in Requests : <<"succeeded", p>> # <<"failed", r>> /\ <<"succeeded", p>> \in Events
      BY DEF Events
    <3>2. \A p \in Requests : event'[<<"succeeded", p>>] = event[<<"succeeded", p>>]
      BY <1>0, <2>1, <3>1 DEF TypeOK
    <3> QED  BY <1>0, <1>10, <2>1, <3>2, IntentMoves DEF CancelIntent, TypeOK
  <2> QED  BY <2>3, <2>4, <2>5, <2>6 DEF Evidence
<1>11. CASE ManualCheckPaid(r)
  BY <1>0, <1>11, GotoShape, ReadingKeepsEvidence DEF ManualCheckPaid, Evidence, DoomedExist
<1>12. CASE RecordManual(r)
  <2>1. /\ payment' = [payment EXCEPT ![r] = "completed"] /\ payment[r] = "none"
        /\ credited' = [credited EXCEPT ![r] = @ + 1] /\ credited[r] = 0 /\ intent[r] = "none"
    BY <1>12 DEF RecordManual, Settle, Evidence, RequestsAreFresh
  <2>2. EveryRowIsBooked' /\ HandlersHaveRows' /\ SuccessIsTrue'
    BY <1>0, <1>12, <2>1
       DEF RecordManual, Evidence, EveryRowIsBooked, HandlersHaveRows, SuccessIsTrue, TypeOK
  <2>3. MoneyBehindEveryCredit'
    BY <1>0, <1>12, <2>1 DEF RecordManual, Evidence, MoneyBehindEveryCredit, TypeOK
  <2>4. RequestsAreFresh' /\ DoomedExist'
    BY <1>0, <1>12, <2>1, GotoShape
       DEF RecordManual, Evidence, RequestsAreFresh, DoomedExist, TypeOK
  <2> QED  BY <2>2, <2>3, <2>4 DEF Evidence
<1>13. CASE VoidCheckPayments(r)
  BY <1>0, <1>13, GotoShape, ReadingKeepsEvidence DEF VoidCheckPayments, Evidence, DoomedExist
<1>14. CASE VoidCheckCompleted(r)
  BY <1>0, <1>14, GotoShape, ReadingKeepsEvidence DEF VoidCheckCompleted, Evidence, DoomedExist
<1>15. ASSUME req[r].pc \in {"reverse", "sweep"}, Reverse(req[r].doomed), Goto(r, "done"),
              UNCHANGED <<payment, billed, credited, stripe, hook, recon>>
       PROVE  Evidence'
  <2>1. EveryRowIsBooked'
    BY <1>0, <1>15 DEF Reverse, Evidence, EveryRowIsBooked, DoomedExist, TypeOK
  <2>2. MoneyBehindEveryCredit' /\ HandlersHaveRows' /\ SuccessIsTrue'
    BY <1>15 DEF Evidence, MoneyBehindEveryCredit, HandlersHaveRows, SuccessIsTrue
  <2>3. RequestsAreFresh'
    BY <1>0, <1>15, GotoShape DEF Evidence, RequestsAreFresh
  <2>4. DoomedExist'
    BY <1>0, <1>15, GotoShape DEF Reverse, Evidence, DoomedExist, TypeOK, Request
  <2> QED  BY <2>1, <2>2, <2>3, <2>4 DEF Evidence
<1>16. CASE CommitVoid(r)
  BY <1>15, <1>16 DEF CommitVoid
<1>17. CASE SelectUnitCharges(r)
  BY <1>0, <1>17, BeginShape, ReadingKeepsEvidence DEF SelectUnitCharges, MayStart
<1>18. CASE CommitUnitVoid(r)
  BY <1>15, <1>18 DEF CommitUnitVoid
<1>19. CASE Abort(r)
  BY <1>0, <1>19, GotoShape, ReadingKeepsEvidence DEF Abort, InProgress, Evidence, DoomedExist
<1> QED
  BY <1>1, <1>2, <1>3, <1>4, <1>5, <1>6, <1>7, <1>8, <1>9, <1>10, <1>11, <1>12, <1>13, <1>14,
     <1>16, <1>17, <1>18, <1>19 DEF RequestStep

LEMMA EvidenceOfBilling ==
  ASSUME Evidence, TypeOK', NEW C \in SUBSET Charges, PostCharges(C)
  PROVE  Evidence'
<1> USE DEF tables, ledger, stripe
<1>1. TypeOK
  BY DEF Evidence
<1>2. EveryRowIsBooked'
  BY <1>1 DEF PostCharges, Evidence, EveryRowIsBooked, TypeOK
<1>3. MoneyBehindEveryCredit' /\ RequestsAreFresh' /\ HandlersHaveRows' /\ SuccessIsTrue'
  BY DEF PostCharges, Evidence, MoneyBehindEveryCredit, RequestsAreFresh, HandlersHaveRows,
         SuccessIsTrue
<1>4. DoomedExist'
  BY <1>1 DEF PostCharges, Evidence, DoomedExist, TypeOK, Request
<1> QED  BY <1>2, <1>3, <1>4 DEF Evidence

LEMMA EvidenceOfStripe ==
  ASSUME Evidence, TypeOK', NEW p \in Requests, StripeStep(p)
  PROVE  Evidence'
<1> USE DEF tables, ledger, stripe
<1>0. TypeOK
  BY DEF Evidence
<1>1. /\ intent[p] \in {"processing", "failed"}
      /\ \A q \in Requests : q # p => intent'[q] = intent[q]
      /\ intent'[p] \in {"processing", "succeeded", "failed"}
      /\ UNCHANGED <<tables, ledger, req, hook, recon>>
  BY <1>0 DEF StripeStep, IntentSucceeds, IntentFails, IntentReconfirmed, MaySettle, TypeOK
<1>2. EveryRowIsBooked' /\ DoomedExist' /\ HandlersHaveRows'
  BY <1>1 DEF Evidence, EveryRowIsBooked, DoomedExist, HandlersHaveRows
<1>3. MoneyBehindEveryCredit'
  BY <1>1 DEF Evidence, MoneyBehindEveryCredit
<1>4. RequestsAreFresh'
  BY <1>1 DEF Evidence, RequestsAreFresh
<1>5. SuccessIsTrue'
  <2>1. CASE IntentSucceeds(p)
    <3>1. /\ intent' = [intent EXCEPT ![p] = "succeeded"]
          /\ event' = [event EXCEPT ![<<"succeeded", p>>] = "due"]
      BY <2>1 DEF IntentSucceeds
    <3>2. \A q \in Requests : q # p => event'[<<"succeeded", q>>] = event[<<"succeeded", q>>]
      BY <1>0, <3>1 DEF TypeOK, Events
    <3>3. intent'[p] = "succeeded"
      BY <1>0, <3>1 DEF TypeOK
    <3> QED  BY <1>1, <3>2, <3>3 DEF Evidence, SuccessIsTrue
  <2>2. CASE IntentFails(p)
    <3>1. \A q \in Requests : event'[<<"succeeded", q>>] = event[<<"succeeded", q>>]
      <4>1. \A q \in Requests : <<"succeeded", q>> # <<"failed", p>> /\ <<"succeeded", q>> \in Events
        BY DEF Events
      <4> QED  BY <1>0, <2>2, <4>1 DEF IntentFails, TypeOK
    <3> QED  BY <1>1, <3>1, IntentMoves
  <2>3. CASE IntentReconfirmed(p)
    BY <1>1, <2>3, IntentMoves DEF IntentReconfirmed
  <2> QED  BY <2>1, <2>2, <2>3 DEF StripeStep
<1> QED  BY <1>2, <1>3, <1>4, <1>5 DEF Evidence

(* What is delivered is what Stripe has sent; answering it sends nothing.   *)
LEMMA HandlersHearTheTruth ==
  ASSUME Evidence, UNCHANGED <<intent, recon>>,
         \A p \in Requests : event'[<<"succeeded", p>>] # "unsent" =>
           event[<<"succeeded", p>>] # "unsent" \/ intent[p] = "succeeded",
         \A g \in Hooks, p \in Requests : hook'[g] = <<"succeeded", p>> =>
           hook[g] = <<"succeeded", p>> \/ event[<<"succeeded", p>>] # "unsent"
  PROVE  SuccessIsTrue'
<1> SUFFICES ASSUME NEW p \in Requests
             PROVE  /\ event'[<<"succeeded", p>>] # "unsent" => intent[p] = "succeeded"
                    /\ \A h \in Hooks : hook'[h] = <<"succeeded", p>> => intent[p] = "succeeded"
                    /\ p \in recon.doing /\ recon.verdict = "completed" => intent[p] = "succeeded"
  BY DEF SuccessIsTrue
<1> QED  BY DEF Evidence, SuccessIsTrue

(* Answering an event frees the handler and leaves the other events alone. *)
LEMMA AnsweredShape ==
  ASSUME TypeOK, NEW h \in Hooks, Answered(h)
  PROVE  /\ \A e \in Events : event'[e] = event[e] \/ e = hook[h]
         /\ \A g \in Hooks : hook'[g] = NoEvent \/ hook'[g] = hook[g]
  BY DEF Answered, TypeOK

(* Hence the handlers and the script still have rows to write to.          *)
LEMMA HandlersKeepRows ==
  ASSUME Evidence, UNCHANGED recon,
         \A p \in Requests : payment[p] # "none" => payment'[p] # "none",
         \A g \in Hooks : hook'[g] = NoEvent \/ hook'[g] = hook[g]
  PROVE  HandlersHaveRows'
<1>1. NoEvent \notin Events
  BY DEF NoEvent, Events
<1>2. \A e \in Events : e[2] \in Requests
  BY DEF Events
<1>3. \A g \in Hooks : \A e \in Events : hook'[g] = e => payment'[e[2]] # "none"
  BY <1>1, <1>2 DEF Evidence, HandlersHaveRows
<1>4. \A p \in recon.todo \cup recon.doing : payment'[p] # "none"
  BY DEF Evidence, HandlersHaveRows, TypeOK
<1> QED  BY <1>3, <1>4 DEF HandlersHaveRows

(* The three writes of a webhook or of the script.                         *)
LEMMA SettlingKeepsEvidence ==
  ASSUME Evidence, NEW p \in Requests, payment[p] # "none", intent[p] = "succeeded", Settle(p),
         UNCHANGED <<charge, billed, reversed, intent, req>>
  PROVE  EveryRowIsBooked' /\ MoneyBehindEveryCredit' /\ RequestsAreFresh' /\ DoomedExist'
<1>0. TypeOK
  BY DEF Evidence
<1>1. /\ payment' = [payment EXCEPT ![p] = "completed"]
      /\ credited' = [credited EXCEPT ![p] = @ + 1]
  BY DEF Settle
<1>2. EveryRowIsBooked' /\ MoneyBehindEveryCredit' /\ DoomedExist'
  BY <1>0, <1>1 DEF Evidence, EveryRowIsBooked, MoneyBehindEveryCredit, DoomedExist, TypeOK
<1>3. RequestsAreFresh'
  BY <1>0, <1>1 DEF Evidence, RequestsAreFresh, TypeOK
<1> QED  BY <1>2, <1>3

LEMMA FailingKeepsEvidence ==
  ASSUME Evidence, NEW p \in Requests, payment[p] # "none",
         payment' = [payment EXCEPT ![p] = "failed"],
         UNCHANGED <<charge, ledger, intent, req>>
  PROVE  EveryRowIsBooked' /\ MoneyBehindEveryCredit' /\ RequestsAreFresh' /\ DoomedExist'
<1> USE DEF ledger
<1>0. TypeOK
  BY DEF Evidence
<1>1. EveryRowIsBooked' /\ MoneyBehindEveryCredit' /\ DoomedExist'
  BY <1>0 DEF Evidence, EveryRowIsBooked, MoneyBehindEveryCredit, DoomedExist, TypeOK
<1>2. RequestsAreFresh'
  BY <1>0 DEF Evidence, RequestsAreFresh, TypeOK
<1> QED  BY <1>1, <1>2

LEMMA EvidenceOfHooks ==
  ASSUME Evidence, TypeOK', NEW h \in Hooks, HookStep(h)
  PROVE  Evidence'
<1> USE DEF tables, ledger, stripe
<1>0. TypeOK
  BY DEF Evidence
<1>1. ASSUME NEW kind \in {"succeeded", "failed"}, NEW p \in Requests, Deliver(h, kind, p)
      PROVE  Evidence'
  <2>1. payment[p] # "none" /\ hook' = [hook EXCEPT ![h] = <<kind, p>>]
    BY <1>1 DEF Deliver, Applies
  <2>2. EveryRowIsBooked' /\ MoneyBehindEveryCredit' /\ RequestsAreFresh' /\ DoomedExist'
    BY <1>1 DEF Deliver, Evidence, EveryRowIsBooked, MoneyBehindEveryCredit, RequestsAreFresh,
                DoomedExist
  <2>3. HandlersHaveRows'
    BY <1>0, <1>1, <2>1 DEF Deliver, Evidence, HandlersHaveRows, TypeOK
  <2>4. SuccessIsTrue'
    <3>1. \A g \in Hooks : hook'[g] = hook[g] \/ hook'[g] = <<kind, p>>
      BY <1>0, <2>1 DEF TypeOK
    <3>2. event[<<kind, p>>] # "unsent"
      BY <1>1 DEF Deliver
    <3>3. \A g \in Hooks, q \in Requests : hook'[g] = <<"succeeded", q>> =>
            hook[g] = <<"succeeded", q>> \/ event[<<"succeeded", q>>] # "unsent"
      BY <3>1, <3>2
    <3> QED  BY <1>1, <3>3, HandlersHearTheTruth DEF Deliver
  <2> QED  BY <2>2, <2>3, <2>4 DEF Evidence
<1>2. ASSUME NEW kind \in {"succeeded", "failed"}, NEW p \in Requests, DeliverInVain(h, kind, p)
      PROVE  Evidence'
  <2>1. EveryRowIsBooked' /\ MoneyBehindEveryCredit' /\ RequestsAreFresh' /\ DoomedExist'
        /\ HandlersHaveRows'
    BY <1>2 DEF DeliverInVain, Evidence, EveryRowIsBooked, MoneyBehindEveryCredit,
                RequestsAreFresh, DoomedExist, HandlersHaveRows
  <2>2. SuccessIsTrue'
    BY <1>0, <1>2 DEF DeliverInVain, Evidence, SuccessIsTrue, TypeOK, Events
  <2> QED  BY <2>1, <2>2 DEF Evidence
<1>3. ASSUME NEW p \in Requests, CommitSucceeded(h, p)
      PROVE  Evidence'
  <2>1. <<"succeeded", p>> \in Events /\ hook[h] = <<"succeeded", p>>
    BY <1>3 DEF CommitSucceeded, Events
  <2>2. payment[p] # "none" /\ intent[p] = "succeeded"
    BY <2>1 DEF Evidence, HandlersHaveRows, SuccessIsTrue
  <2>3. EveryRowIsBooked' /\ MoneyBehindEveryCredit' /\ RequestsAreFresh' /\ DoomedExist'
    BY <1>3, <2>2, SettlingKeepsEvidence DEF CommitSucceeded
  <2>4. HandlersHaveRows'
    BY <1>0, <1>3, AnsweredShape, HandlersKeepRows DEF CommitSucceeded, Settle, TypeOK
  <2>5. SuccessIsTrue'
    <3>1. \A q \in Requests : event'[<<"succeeded", q>>] # "unsent" =>
            event[<<"succeeded", q>>] # "unsent" \/ intent[q] = "succeeded"
      BY <1>0, <1>3, <2>1, <2>2, AnsweredShape DEF CommitSucceeded, Events
    <3>2. \A g \in Hooks, q \in Requests : hook'[g] = <<"succeeded", q>> => hook[g] = <<"succeeded", q>>
      BY <1>0, <1>3, AnsweredShape DEF CommitSucceeded, NoEvent
    <3> QED  BY <1>3, <3>1, <3>2, HandlersHearTheTruth DEF CommitSucceeded
  <2> QED  BY <2>3, <2>4, <2>5 DEF Evidence
<1>4. ASSUME NEW p \in Requests, CommitFailed(h, p)
      PROVE  Evidence'
  <2>1. <<"failed", p>> \in Events /\ hook[h] = <<"failed", p>>
    BY <1>4 DEF CommitFailed, Events
  <2>2. payment[p] # "none"
    BY <2>1 DEF Evidence, HandlersHaveRows
  <2>3. EveryRowIsBooked' /\ MoneyBehindEveryCredit' /\ RequestsAreFresh' /\ DoomedExist'
    BY <1>4, <2>2, FailingKeepsEvidence DEF CommitFailed
  <2>4. HandlersHaveRows'
    BY <1>0, <1>4, AnsweredShape, HandlersKeepRows DEF CommitFailed, TypeOK
  <2>5. SuccessIsTrue'
    <3>1. \A q \in Requests : event'[<<"succeeded", q>>] # "unsent" => event[<<"succeeded", q>>] # "unsent"
      <4>1. \A q \in Requests : <<"succeeded", q>> \in Events /\ <<"succeeded", q>> # <<"failed", p>>
        BY DEF Events
      <4> QED  BY <1>0, <1>4, <2>1, <4>1, AnsweredShape DEF CommitFailed
    <3>2. \A g \in Hooks, q \in Requests : hook'[g] = <<"succeeded", q>> => hook[g] = <<"succeeded", q>>
      BY <1>0, <1>4, AnsweredShape DEF CommitFailed, NoEvent
    <3> QED  BY <1>4, <3>1, <3>2, HandlersHearTheTruth DEF CommitFailed
  <2> QED  BY <2>3, <2>4, <2>5 DEF Evidence
<1>5. CASE HandlerFails(h)
  <2>1. EveryRowIsBooked' /\ MoneyBehindEveryCredit' /\ RequestsAreFresh' /\ DoomedExist'
    BY <1>5 DEF HandlerFails, Evidence, EveryRowIsBooked, MoneyBehindEveryCredit,
                RequestsAreFresh, DoomedExist
  <2>2. HandlersHaveRows' /\ SuccessIsTrue'
    BY <1>0, <1>5 DEF HandlerFails, Evidence, HandlersHaveRows, SuccessIsTrue, TypeOK, NoEvent, Events
  <2> QED  BY <2>1, <2>2 DEF Evidence
<1> QED  BY <1>1, <1>2, <1>3, <1>4, <1>5 DEF HookStep

LEMMA EvidenceOfRecon ==
  ASSUME Evidence, TypeOK', ReconStep
  PROVE  Evidence'
<1> USE DEF tables, ledger, stripe
<1>0. TypeOK
  BY DEF Evidence
<1>1. ASSUME UNCHANGED <<tables, ledger, stripe, req, hook>>,
             \A p \in recon'.todo \cup recon'.doing : payment[p] # "none",
             \A p \in recon'.doing : recon'.verdict = "completed" => intent[p] = "succeeded"
      PROVE  Evidence'
  <2>1. EveryRowIsBooked' /\ MoneyBehindEveryCredit' /\ RequestsAreFresh' /\ DoomedExist'
    BY <1>1 DEF Evidence, EveryRowIsBooked, MoneyBehindEveryCredit, RequestsAreFresh, DoomedExist
  <2>2. HandlersHaveRows' /\ SuccessIsTrue'
    BY <1>1 DEF Evidence, HandlersHaveRows, SuccessIsTrue
  <2> QED  BY <2>1, <2>2 DEF Evidence
<1>2. CASE ReconSelect
  <2>1. /\ recon'.todo = {p \in Requests : payment[p] = "pending"}
        /\ recon'.doing = {} /\ UNCHANGED <<tables, ledger, stripe, req, hook>>
    BY <1>0, <1>2 DEF ReconSelect, TypeOK
  <2> QED  BY <1>1, <2>1
<1>3. ASSUME NEW p \in Requests, ReconRetrieve(p) PROVE Evidence'
  <2>1. \A q \in recon.todo \cup recon.doing : payment[q] # "none"
    BY DEF Evidence, HandlersHaveRows
  <2>2. \A q \in recon'.todo \cup recon'.doing : payment[q] # "none"
    BY <1>0, <1>3, <2>1 DEF ReconRetrieve, TypeOK
  <2>3. \A q \in recon'.doing : recon'.verdict = "completed" => intent[q] = "succeeded"
    BY <1>0, <1>3 DEF ReconRetrieve, TypeOK
  <2> QED  BY <1>1, <1>3, <2>2, <2>3 DEF ReconRetrieve
<1>4. ASSUME NEW p \in Requests, ReconComplete(p) PROVE Evidence'
  <2>1. payment[p] # "none" /\ intent[p] = "succeeded"
    BY <1>4 DEF ReconComplete, Evidence, HandlersHaveRows, SuccessIsTrue
  <2>2. EveryRowIsBooked' /\ MoneyBehindEveryCredit' /\ RequestsAreFresh' /\ DoomedExist'
    BY <1>4, <2>1, SettlingKeepsEvidence DEF ReconComplete
  <2>3. HandlersHaveRows' /\ SuccessIsTrue'
    BY <1>0, <1>4 DEF ReconComplete, ReconNext, Settle, Evidence, HandlersHaveRows,
                      SuccessIsTrue, TypeOK
  <2> QED  BY <2>2, <2>3 DEF Evidence
<1>5. ASSUME NEW p \in Requests, ReconFail(p) PROVE Evidence'
  <2>1. payment[p] # "none"
    BY <1>5 DEF ReconFail, Evidence, HandlersHaveRows
  <2>2. EveryRowIsBooked' /\ MoneyBehindEveryCredit' /\ RequestsAreFresh' /\ DoomedExist'
    BY <1>5, <2>1, FailingKeepsEvidence DEF ReconFail
  <2>3. HandlersHaveRows' /\ SuccessIsTrue'
    BY <1>0, <1>5 DEF ReconFail, ReconNext, Evidence, HandlersHaveRows, SuccessIsTrue, TypeOK
  <2> QED  BY <2>2, <2>3 DEF Evidence
<1>6. CASE ReconError
  BY <1>0, <1>1, <1>6 DEF ReconError, ReconNext, Evidence, HandlersHaveRows, TypeOK
<1> QED  BY <1>2, <1>3, <1>4, <1>5, <1>6 DEF ReconStep

LEMMA EvidenceStep == Evidence /\ [Next]_vars => Evidence'
<1> SUFFICES ASSUME Evidence, [Next]_vars PROVE Evidence'
  OBVIOUS
<1>1. TypeOK'
  BY TypeStep DEF Evidence
<1>2. CASE UNCHANGED vars
  BY <1>1, <1>2 DEF vars, Evidence, EveryRowIsBooked, MoneyBehindEveryCredit, RequestsAreFresh,
                    DoomedExist, HandlersHaveRows, SuccessIsTrue
<1> QED
  BY <1>1, <1>2, EvidenceOfBilling, EvidenceOfRequests, EvidenceOfStripe, EvidenceOfHooks,
     EvidenceOfRecon DEF Next

(* In every interleaving of requests, deliveries and script runs, money is *)
(* credited and payments are completed only after Stripe reported success. *)
THEOREM CreditsAreBacked == Spec => []MoneyBehindEveryCredit
<1>1. Evidence => MoneyBehindEveryCredit
  BY DEF Evidence
<1> QED  BY <1>1, EvidenceInit, EvidenceStep, PTL DEF Spec

(* In every interleaving, the rows and their ledger entries agree.         *)
THEOREM RowsAreBooked == Spec => []EveryRowIsBooked
<1>1. Evidence => EveryRowIsBooked
  BY DEF Evidence
<1> QED  BY <1>1, EvidenceInit, EvidenceStep, PTL DEF Spec

-----------------------------------------------------------------------------
(* One webhook handler at a time and no reconciliation script.             *)

(* The only writes of a request to a payment are its two inserts.          *)
LEMMA RequestWrites ==
  ASSUME NEW r \in Requests, RequestStep(r)
  PROVE  /\ UNCHANGED <<hook, recon>>
         /\ \/ UNCHANGED <<payment, credited>>
            \/ InsertPayment(r)
            \/ RecordManual(r)
  BY DEF RequestStep, TenantReadCharge, ManualReadCharge, AdminStart, VoidReadCharge,
         TenantCheckPending, TenantCheckPaid, CreateIntent, InsertFails, CancelIntent,
         ManualCheckPaid, VoidCheckPayments, VoidCheckCompleted, CommitVoid, SelectUnitCharges,
         CommitUnitVoid, Abort, InsertPayment, RecordManual, tables, ledger, stripe

LEMMA CurrentStep ==
  ASSUME Evidence, HandlersAreCurrent, CreditedExactlyOnce, [Next]_vars,
         \A g, h \in Hooks : g = h, "reconcile" \notin Features
  PROVE  /\ HandlersAreCurrent'
         /\ CreditedExactlyOnce'
         /\ \A p \in Requests : payment[p] = "completed" => payment'[p] = "completed"
<1> USE DEF tables, ledger, stripe
<1>0. TypeOK
  BY DEF Evidence
<1>1. ASSUME UNCHANGED <<payment, credited, hook, recon>>
      PROVE  /\ HandlersAreCurrent' /\ CreditedExactlyOnce'
             /\ \A p \in Requests : payment[p] = "completed" => payment'[p] = "completed"
  BY <1>1 DEF HandlersAreCurrent, CreditedExactlyOnce
<1>2. ASSUME NEW C \in SUBSET Charges, PostCharges(C)
      PROVE  UNCHANGED <<payment, credited, hook, recon>>
  BY <1>2 DEF PostCharges
<1>3. ASSUME NEW r \in Requests, RequestStep(r)
      PROVE  /\ HandlersAreCurrent' /\ CreditedExactlyOnce'
             /\ \A p \in Requests : payment[p] = "completed" => payment'[p] = "completed"
  <2>1. CASE InsertPayment(r)
    <3>1. /\ payment[r] = "none" /\ payment' = [payment EXCEPT ![r] = "pending"]
          /\ UNCHANGED <<credited, hook, recon>>
      BY <2>1 DEF InsertPayment, Evidence, RequestsAreFresh
    <3> QED  BY <1>0, <3>1 DEF HandlersAreCurrent, CreditedExactlyOnce, TypeOK
  <2>2. CASE RecordManual(r)
    <3>1. /\ payment[r] = "none" /\ payment' = [payment EXCEPT ![r] = "completed"]
          /\ credited' = [credited EXCEPT ![r] = @ + 1] /\ credited[r] = 0
          /\ UNCHANGED <<hook, recon>>
      BY <2>2 DEF RecordManual, Settle, Evidence, RequestsAreFresh
    <3>2. \A h \in Hooks : hook[h] # <<"succeeded", r>> /\ hook[h] # <<"failed", r>>
      <4>1. <<"succeeded", r>> \in Events /\ <<"failed", r>> \in Events
        BY DEF Events
      <4> QED  BY <3>1, <4>1 DEF Evidence, HandlersHaveRows
    <3>3. HandlersAreCurrent'
      BY <1>0, <3>1, <3>2 DEF HandlersAreCurrent, TypeOK
    <3>4. CreditedExactlyOnce'
      BY <1>0, <3>1 DEF CreditedExactlyOnce, TypeOK
    <3> QED  BY <1>0, <3>1, <3>3, <3>4 DEF TypeOK
  <2> QED  BY <1>1, <1>3, <2>1, <2>2, RequestWrites
<1>4. ASSUME NEW p \in Requests, StripeStep(p)
      PROVE  UNCHANGED <<payment, credited, hook, recon>>
  BY <1>4 DEF StripeStep, IntentSucceeds, IntentFails, IntentReconfirmed
<1>5. ASSUME NEW h \in Hooks, HookStep(h)
      PROVE  /\ HandlersAreCurrent' /\ CreditedExactlyOnce'
             /\ \A p \in Requests : payment[p] = "completed" => payment'[p] = "completed"
  <2>0. hook' \in [Hooks -> Events \cup {NoEvent}]
    BY TypeStep DEF Evidence, TypeOK
  <2>1. ASSUME NEW kind \in {"succeeded", "failed"}, NEW p \in Requests, Deliver(h, kind, p)
        PROVE  HandlersAreCurrent' /\ UNCHANGED <<payment, credited>>
    <3>1. hook' = [hook EXCEPT ![h] = <<kind, p>>] /\ UNCHANGED <<payment, credited, recon>>
      BY <2>1 DEF Deliver
    <3>2. /\ kind = "succeeded" => payment[p] # "completed"
          /\ kind = "failed" => payment[p] = "pending"
      BY <2>1 DEF Deliver, Applies
    <3>3. \A g \in Hooks : hook'[g] = <<kind, p>>
      BY <1>0, <3>1 DEF TypeOK
    <3> QED  BY <3>1, <3>2, <3>3 DEF HandlersAreCurrent
  <2>2. ASSUME NEW kind \in {"succeeded", "failed"}, NEW p \in Requests, DeliverInVain(h, kind, p)
        PROVE  UNCHANGED <<payment, credited, hook, recon>>
    BY <2>2 DEF DeliverInVain
  <2>3. ASSUME \A g \in Hooks : hook'[g] = NoEvent, UNCHANGED recon
        PROVE  HandlersAreCurrent'
    BY <2>3 DEF HandlersAreCurrent, NoEvent
  <2>4. ASSUME NEW p \in Requests, CommitSucceeded(h, p)
        PROVE  /\ HandlersAreCurrent' /\ CreditedExactlyOnce'
               /\ \A q \in Requests : payment[q] = "completed" => payment'[q] = "completed"
    <3>1. payment' = [payment EXCEPT ![p] = "completed"] /\ credited' = [credited EXCEPT ![p] = @ + 1]
      BY <2>4 DEF CommitSucceeded, Settle
    <3>2. payment[p] # "completed"
      BY <2>4 DEF CommitSucceeded, HandlersAreCurrent
    <3>3. HandlersAreCurrent'
      BY <1>0, <2>3, <2>4 DEF CommitSucceeded, Answered, TypeOK
    <3> QED  BY <1>0, <3>1, <3>2, <3>3 DEF CreditedExactlyOnce, TypeOK
  <2>5. ASSUME NEW p \in Requests, CommitFailed(h, p)
        PROVE  /\ HandlersAreCurrent' /\ CreditedExactlyOnce'
               /\ \A q \in Requests : payment[q] = "completed" => payment'[q] = "completed"
    <3>1. payment' = [payment EXCEPT ![p] = "failed"] /\ UNCHANGED credited
      BY <2>5 DEF CommitFailed
    <3>2. payment[p] = "pending"
      BY <2>5 DEF CommitFailed, HandlersAreCurrent
    <3>3. HandlersAreCurrent'
      BY <1>0, <2>3, <2>5 DEF CommitFailed, Answered, TypeOK
    <3> QED  BY <1>0, <3>1, <3>2, <3>3 DEF CreditedExactlyOnce, TypeOK
  <2>6. CASE HandlerFails(h)
    <3>1. HandlersAreCurrent'
      BY <1>0, <2>3, <2>6 DEF HandlerFails, TypeOK
    <3> QED  BY <2>6, <3>1 DEF HandlerFails, CreditedExactlyOnce
  <2> QED  BY <1>1, <1>5, <2>1, <2>2, <2>4, <2>5, <2>6 DEF HookStep, CreditedExactlyOnce
<1>6. ~ReconStep
  BY DEF ReconStep, ReconSelect, ReconRetrieve, ReconComplete, ReconFail, ReconError, HandlersAreCurrent
<1>7. CASE UNCHANGED vars
  BY <1>1, <1>7 DEF vars
<1> QED  BY <1>1, <1>2, <1>3, <1>4, <1>5, <1>6, <1>7 DEF Next

LEMMA CurrentInit == Init => HandlersAreCurrent /\ CreditedExactlyOnce
  BY DEF Init, HandlersAreCurrent, CreditedExactlyOnce, NoEvent

(* Duplicated, reordered and retried deliveries credit a payment once, as  *)
(* long as no two handlers run at once and the script does not.            *)
THEOREM CreditsAreExact ==
  ASSUME \A g, h \in Hooks : g = h, "reconcile" \notin Features
  PROVE  Spec => []CreditedExactlyOnce
<1>1. Evidence /\ HandlersAreCurrent /\ CreditedExactlyOnce /\ [Next]_vars
        => HandlersAreCurrent' /\ CreditedExactlyOnce'
  BY CurrentStep
<1> QED  BY <1>1, EvidenceInit, EvidenceStep, CurrentInit, PTL DEF Spec

(* Nor does a late failure undo a completed payment.                       *)
THEOREM CompletionIsFinal ==
  ASSUME \A g, h \in Hooks : g = h, "reconcile" \notin Features
  PROVE  Spec => CompletedIsFinal
<1>1. Evidence /\ HandlersAreCurrent /\ CreditedExactlyOnce /\ [Next]_vars
        => HandlersAreCurrent' /\ CreditedExactlyOnce'
  BY CurrentStep
<1>2. Evidence /\ HandlersAreCurrent /\ CreditedExactlyOnce /\ [Next]_vars
        => [\A p \in Requests : payment[p] = "completed" => payment'[p] = "completed"]_vars
  BY CurrentStep
<1> QED  BY <1>1, <1>2, EvidenceInit, EvidenceStep, CurrentInit, PTL DEF Spec, CompletedIsFinal

-----------------------------------------------------------------------------
(* Requests one at a time as well: the ledger implements LedgerBook.       *)

(* The only writes of a request to charges and to the ledger.              *)
LEMMA RequestBooks ==
  ASSUME NEW r \in Requests, RequestStep(r)
  PROVE  /\ UNCHANGED billed
         /\ \/ UNCHANGED <<charge, reversed, credited>>
            \/ RecordManual(r)
            \/ CommitVoid(r)
            \/ CommitUnitVoid(r)
  BY DEF RequestStep, TenantReadCharge, ManualReadCharge, AdminStart, VoidReadCharge,
         TenantCheckPending, TenantCheckPaid, CreateIntent, InsertPayment, InsertFails, CancelIntent,
         ManualCheckPaid, VoidCheckPayments, VoidCheckCompleted, SelectUnitCharges,
         Abort, RecordManual, CommitVoid, CommitUnitVoid, tables, ledger, stripe

(* A request that moves on was in progress, or nothing was and it begins   *)
(* with charges that are open, and the other requests stay where they are. *)
LEMMA RequestTurn ==
  ASSUME TypeOK, Serialized = TRUE, NEW r \in Requests, RequestStep(r)
  PROVE  /\ \A q \in Requests : q # r => req'[q] = req[q]
         /\ InProgress(r) \/ \A q \in Requests : ~InProgress(q)
         /\ \/ req'[r].doomed = {}
            \/ InProgress(r) /\ req'[r].doomed = req[r].doomed
            \/ \A c \in req'[r].doomed : charge[c] = "open"
<1> USE DEF Steps
<1>1. ASSUME NEW c \in Charges \cup {NoCharge}, NEW a \in TenantAmounts, TenantReadCharge(r, c, a)
      PROVE  /\ \A q \in Requests : ~InProgress(q) /\ (q # r => req'[q] = req[q])
             /\ req'[r].doomed = {}
  BY <1>1, BeginShape DEF TenantReadCharge, MayStart
<1>2. ASSUME NEW c \in Charges \cup {NoCharge}, NEW a \in ManualAmounts, ManualReadCharge(r, c, a)
      PROVE  /\ \A q \in Requests : ~InProgress(q) /\ (q # r => req'[q] = req[q])
             /\ req'[r].doomed = {}
  BY <1>2, BeginShape DEF ManualReadCharge, MayStart
<1>3. ASSUME NEW c \in Charges \cup {NoCharge}, AdminStart(r, c)
      PROVE  /\ \A q \in Requests : ~InProgress(q) /\ (q # r => req'[q] = req[q])
             /\ req'[r].doomed = {}
  BY <1>3, BeginShape DEF AdminStart, MayStart
<1>4. ASSUME NEW c \in Charges, VoidReadCharge(r, c)
      PROVE  /\ \A q \in Requests : ~InProgress(q) /\ (q # r => req'[q] = req[q])
             /\ \A d \in req'[r].doomed : charge[d] = "open"
  BY <1>4, BeginShape DEF VoidReadCharge, MayStart
<1>5. CASE SelectUnitCharges(r)
  <2>1. /\ \A q \in Requests : ~InProgress(q) /\ (q # r => req'[q] = req[q])
        /\ \A d \in req'[r].doomed : charge[d] = "open"
    BY <1>5, BeginShape DEF SelectUnitCharges, MayStart
  <2> QED  BY <2>1
<1>6. CASE TenantCheckPaid(r)
  <2>1. InProgress(r)
    BY <1>6 DEF TenantCheckPaid, InProgress
  <2>2. /\ \A q \in Requests : q # r => req'[q] = req[q]
        /\ req'[r].doomed = {} \/ req'[r].doomed = req[r].doomed
    BY <1>6, BeginShape, GotoShape DEF TenantCheckPaid
  <2> QED  BY <2>1, <2>2
<1>7. ASSUME InProgress(r), NEW step \in Steps, Goto(r, step)
      PROVE  /\ \A q \in Requests : q # r => req'[q] = req[q]
             /\ InProgress(r) /\ req'[r].doomed = req[r].doomed
  BY <1>7, GotoShape
<1>8. CASE \/ TenantCheckPending(r) \/ CreateIntent(r) \/ InsertPayment(r) \/ InsertFails(r)
           \/ CancelIntent(r) \/ ManualCheckPaid(r) \/ RecordManual(r) \/ VoidCheckPayments(r)
           \/ VoidCheckCompleted(r) \/ CommitVoid(r) \/ CommitUnitVoid(r) \/ Abort(r)
  <2>1. InProgress(r) /\ \E step \in Steps : Goto(r, step)
    BY <1>8 DEF TenantCheckPending, CreateIntent, InsertPayment, InsertFails, CancelIntent,
                ManualCheckPaid, RecordManual, VoidCheckPayments, VoidCheckCompleted, CommitVoid,
                CommitUnitVoid, Abort, InProgress
  <2> QED  BY <1>7, <2>1
<1> QED  BY <1>1, <1>2, <1>3, <1>4, <1>5, <1>6, <1>8 DEF RequestStep

(* A void writes open charges, each of which gets its first reversal.      *)
LEMMA VoidBooks ==
  ASSUME TypeOK, VoidsAreCurrent, NEW r \in Requests, CommitVoid(r) \/ CommitUnitVoid(r)
  PROVE  /\ InProgress(r) /\ Goto(r, "done") /\ Reverse(req[r].doomed)
         /\ UNCHANGED <<billed, credited>>
         /\ req[r].doomed \subseteq Charges
         /\ \A c \in req[r].doomed : charge[c] = "open" /\ reversed[c] = 0
<1>1. /\ InProgress(r) /\ Goto(r, "done") /\ Reverse(req[r].doomed)
      /\ UNCHANGED <<billed, credited>>
  BY DEF CommitVoid, CommitUnitVoid, InProgress
<1>2. req[r].doomed \subseteq Charges
  BY DEF TypeOK, Request
<1>3. \A c \in req[r].doomed : charge[c] = "open"
  BY <1>1 DEF VoidsAreCurrent
<1>4. \A c \in req[r].doomed : reversed[c] = 0
  BY <1>2, <1>3 DEF VoidsAreCurrent
<1> QED  BY <1>1, <1>2, <1>3, <1>4

LEMMA VoidsStep ==
  ASSUME Evidence, VoidsAreCurrent, [Next]_vars, Serialized = TRUE
  PROVE  VoidsAreCurrent'
<1> USE DEF tables, ledger, stripe
<1>0. TypeOK
  BY DEF Evidence
<1>1. ASSUME UNCHANGED <<charge, reversed, req>> PROVE VoidsAreCurrent'
  BY <1>1 DEF VoidsAreCurrent, InProgress
<1>2. ASSUME NEW C \in SUBSET Charges, PostCharges(C) PROVE VoidsAreCurrent'
  <2>1. /\ \A c \in C : charge[c] = "absent" /\ charge'[c] = "open"
        /\ \A c \in Charges \ C : charge'[c] = charge[c]
        /\ UNCHANGED <<reversed, req>>
    BY <1>0, <1>2 DEF PostCharges, TypeOK
  <2>2. \A r \in Requests : req[r].doomed \subseteq Charges
    BY <1>0 DEF TypeOK, Request
  <2> QED  BY <2>1, <2>2 DEF VoidsAreCurrent, InProgress
<1>3. ASSUME NEW r \in Requests, RequestStep(r) PROVE VoidsAreCurrent'
  <2>1. /\ \A q \in Requests : q # r => req'[q] = req[q]
        /\ InProgress(r) \/ \A q \in Requests : ~InProgress(q)
        /\ \/ req'[r].doomed = {}
           \/ InProgress(r) /\ req'[r].doomed = req[r].doomed
           \/ \A c \in req'[r].doomed : charge[c] = "open"
    BY <1>0, <1>3, RequestTurn
  <2>2. \A q \in Requests : q # r => ~InProgress(q)' /\ ~InProgress(q)
    BY <2>1 DEF VoidsAreCurrent, InProgress
  <2>3. CASE UNCHANGED <<charge, reversed>>
    <3>1. \A c \in req'[r].doomed : charge[c] = "open"
      BY <2>1 DEF VoidsAreCurrent
    <3> QED  BY <2>2, <2>3, <3>1 DEF VoidsAreCurrent
  <2>4. CASE CommitVoid(r) \/ CommitUnitVoid(r)
    <3>1. /\ Goto(r, "done") /\ Reverse(req[r].doomed) /\ req[r].doomed \subseteq Charges
          /\ \A c \in req[r].doomed : reversed[c] = 0
      BY <1>0, <2>4, VoidBooks
    <3>2. ~InProgress(r)'
      BY <1>0, <3>1, GotoShape DEF InProgress, Steps
    <3>3. \A c \in Charges : reversed'[c] = (IF charge'[c] = "voided" THEN 1 ELSE 0)
      BY <1>0, <3>1 DEF Reverse, VoidsAreCurrent, TypeOK
    <3> QED  BY <2>2, <3>2, <3>3 DEF VoidsAreCurrent
  <2>5. CASE RecordManual(r)
    BY <2>3, <2>5 DEF RecordManual
  <2> QED  BY <1>3, <2>3, <2>4, <2>5, RequestBooks
<1>4. ASSUME NEW p \in Requests, StripeStep(p) PROVE VoidsAreCurrent'
  BY <1>1, <1>4 DEF StripeStep, IntentSucceeds, IntentFails, IntentReconfirmed
<1>5. ASSUME NEW h \in Hooks, HookStep(h) PROVE VoidsAreCurrent'
  BY <1>1, <1>5 DEF HookStep, Deliver, DeliverInVain, CommitSucceeded, CommitFailed, HandlerFails
<1>6. CASE ReconStep
  BY <1>1, <1>6 DEF ReconStep, ReconSelect, ReconRetrieve, ReconComplete, ReconFail, ReconError
<1>7. CASE UNCHANGED vars
  BY <1>1, <1>7 DEF vars
<1> QED  BY <1>2, <1>3, <1>4, <1>5, <1>6, <1>7 DEF Next

(* Each step of RentLedger is a step of the book or leaves the book alone. *)
LEMMA BookStep ==
  ASSUME Evidence, HandlersAreCurrent, CreditedExactlyOnce, VoidsAreCurrent, [Next]_vars
  PROVE  [Book!Next]_(Book!bookVars)
<1> USE DEF tables, ledger, stripe
<1>0. TypeOK
  BY DEF Evidence
<1>1. ASSUME UNCHANGED ledger PROVE [Book!Next]_(Book!bookVars)
  BY <1>1 DEF Book!bookVars
<1>2. ASSUME NEW p \in Requests, payment[p] # "completed", Settle(p), UNCHANGED <<billed, reversed>>
      PROVE  [Book!Next]_(Book!bookVars)
  <2>1. credited[p] = 0 /\ credited' = [credited EXCEPT ![p] = @ + 1]
    BY <1>2 DEF Settle, CreditedExactlyOnce
  <2>2. credited' = Book!AddTo(credited, {p})
    BY <1>0, <2>1 DEF Book!AddTo, TypeOK
  <2>3. Book!Credit(p)
    BY <1>2, <2>1, <2>2 DEF Book!Credit
  <2> QED  BY <2>3 DEF Book!Next
<1>3. ASSUME NEW C \in SUBSET Charges, PostCharges(C) PROVE [Book!Next]_(Book!bookVars)
  <2>1. \A c \in C : billed[c] = 0
    BY <1>3 DEF PostCharges, Evidence, EveryRowIsBooked
  <2>2. billed' = Book!AddTo(billed, C)
    BY <1>0, <1>3 DEF PostCharges, Book!AddTo, TypeOK
  <2>3. Book!Bill(C)
    BY <1>3, <2>1, <2>2 DEF PostCharges, Book!Bill
  <2> QED  BY <2>3 DEF Book!Next
<1>4. ASSUME NEW r \in Requests, RequestStep(r) PROVE [Book!Next]_(Book!bookVars)
  <2>1. CASE UNCHANGED <<charge, reversed, credited>>
    BY <1>1, <1>4, <2>1, RequestBooks
  <2>2. CASE RecordManual(r)
    <3>1. payment[r] # "completed" /\ Settle(r) /\ UNCHANGED <<billed, reversed>>
      BY <2>2 DEF RecordManual, Evidence, RequestsAreFresh
    <3> QED  BY <1>2, <3>1
  <2>3. CASE CommitVoid(r) \/ CommitUnitVoid(r)
    <3> DEFINE C == req[r].doomed
    <3>1. /\ Reverse(C) /\ UNCHANGED <<billed, credited>> /\ C \subseteq Charges
          /\ \A c \in C : charge[c] = "open" /\ reversed[c] = 0
      BY <1>0, <2>3, VoidBooks
    <3>2. \A c \in C : billed[c] = 1
      BY <3>1 DEF Evidence, EveryRowIsBooked
    <3>3. reversed' = Book!AddTo(reversed, C)
      BY <1>0, <3>1 DEF Reverse, Book!AddTo, TypeOK
    <3>4. Book!Undo(C)
      BY <3>1, <3>2, <3>3 DEF Book!Undo
    <3> QED  BY <3>1, <3>4 DEF Book!Next
  <2> QED  BY <1>4, <2>1, <2>2, <2>3, RequestBooks
<1>5. ASSUME NEW p \in Requests, StripeStep(p) PROVE [Book!Next]_(Book!bookVars)
  BY <1>1, <1>5 DEF StripeStep, IntentSucceeds, IntentFails, IntentReconfirmed
<1>6. ASSUME NEW h \in Hooks, HookStep(h) PROVE [Book!Next]_(Book!bookVars)
  <2>1. CASE UNCHANGED ledger
    BY <1>1, <2>1
  <2>2. ASSUME NEW p \in Requests, CommitSucceeded(h, p) PROVE [Book!Next]_(Book!bookVars)
    <3>1. payment[p] # "completed" /\ Settle(p) /\ UNCHANGED <<billed, reversed>>
      BY <2>2 DEF CommitSucceeded, HandlersAreCurrent
    <3> QED  BY <1>2, <3>1
  <2> QED  BY <1>6, <2>1, <2>2 DEF HookStep, Deliver, DeliverInVain, CommitFailed, HandlerFails
<1>7. ~ReconStep \/ UNCHANGED ledger
  BY DEF ReconStep, ReconSelect, ReconRetrieve, ReconComplete, ReconFail, ReconError, HandlersAreCurrent
<1>8. CASE UNCHANGED vars
  BY <1>1, <1>8 DEF vars
<1> QED  BY <1>1, <1>3, <1>4, <1>5, <1>6, <1>7, <1>8 DEF Next

(* Requests, deliveries and crashes in any order that keeps requests and   *)
(* handlers apart leave a book in which nothing is entered twice.          *)
THEOREM LedgerIsABook ==
  ASSUME \A g, h \in Hooks : g = h, "reconcile" \notin Features, Serialized = TRUE
  PROVE  Spec => BookSpec
<1>1. Init => Book!Init
  BY DEF Init, Book!Init
<1>2. Init => VoidsAreCurrent
  BY DEF Init, VoidsAreCurrent, InProgress
<1>3. Evidence /\ HandlersAreCurrent /\ CreditedExactlyOnce /\ [Next]_vars
        => HandlersAreCurrent' /\ CreditedExactlyOnce'
  BY CurrentStep
<1>4. Evidence /\ VoidsAreCurrent /\ [Next]_vars => VoidsAreCurrent'
  BY VoidsStep
<1>5. Evidence /\ HandlersAreCurrent /\ CreditedExactlyOnce /\ VoidsAreCurrent /\ [Next]_vars
        => [Book!Next]_(Book!bookVars)
  BY BookStep
<1> QED
  BY <1>1, <1>2, <1>3, <1>4, <1>5, EvidenceInit, EvidenceStep, CurrentInit, PTL
     DEF Spec, BookSpec, Book!Spec

-----------------------------------------------------------------------------
(* Requests one at a time: no money on a voided charge.                    *)

(* A failure is the last word on a payment: its intent is not confirmed    *)
(* again.                                                                  *)
FailureIsFinal ==
  \A p \in Requests :
    \/ intent[p] \in {"failed", "canceled"}
    \/ /\ event[<<"failed", p>>] = "unsent"
       /\ payment[p] # "failed"
       /\ \A h \in Hooks : hook[h] # <<"failed", p>>
       /\ ~(p \in recon.doing /\ recon.verdict = "failed")

(* No payment for the charge is under way, and none is left on it.         *)
Clear(c) ==
  \A p \in Requests : req[p].charge = c => ~InProgress(p) /\ payment[p] \in {"none", "failed"}

(* A void that has looked at the payments still finds none; it is no       *)
(* payment itself, and units are not voided as a whole.                    *)
VoidsAreClear ==
  /\ \A c \in Charges : charge[c] = "voided" => Clear(c)
  /\ \A r \in Requests :
       /\ req[r].pc \in {"check", "reverse"} => \A c \in req[r].doomed : Clear(c)
       /\ req[r].pc \in {"payments", "check", "reverse"} => req[r].charge = NoCharge
       /\ req[r].pc # "sweep"

LEMMA FinalStep ==
  ASSUME Evidence, FailureIsFinal, [Next]_vars, "reconfirm" \notin Features
  PROVE  FailureIsFinal'
<1> USE DEF tables, ledger, stripe
<1>0. TypeOK
  BY DEF Evidence
<1>9. \A q \in Requests : NoEvent # <<"failed", q>>
  BY DEF NoEvent
<1>1. ASSUME UNCHANGED <<intent, event, payment, hook, recon>>
      PROVE  FailureIsFinal'
  BY <1>1 DEF FailureIsFinal
<1>2. ASSUME NEW C \in SUBSET Charges, PostCharges(C) PROVE FailureIsFinal'
  BY <1>1, <1>2 DEF PostCharges
<1>3. ASSUME NEW r \in Requests, RequestStep(r) PROVE FailureIsFinal'
  <2>1. CASE CreateIntent(r)
    <3>1. intent[r] = "none"
      BY <2>1 DEF CreateIntent, Evidence, RequestsAreFresh
    <3>2. \A p \in Requests : p # r => intent'[p] = intent[p]
      BY <1>0, <2>1 DEF CreateIntent, TypeOK
    <3>3. UNCHANGED <<event, payment, hook, recon>>
      BY <2>1 DEF CreateIntent
    <3> QED  BY <3>1, <3>2, <3>3 DEF FailureIsFinal
  <2>2. CASE CancelIntent(r)
    <3>1. intent'[r] = "canceled" /\ \A p \in Requests : p # r => intent'[p] = intent[p]
      BY <1>0, <2>2 DEF CancelIntent, TypeOK
    <3>2. \A p \in Requests : p # r => event'[<<"failed", p>>] = event[<<"failed", p>>]
      BY <1>0, <2>2 DEF CancelIntent, TypeOK
    <3>3. UNCHANGED <<payment, hook, recon>>
      BY <2>2 DEF CancelIntent
    <3> QED  BY <3>1, <3>2, <3>3 DEF FailureIsFinal
  <2>3. CASE InsertPayment(r) \/ RecordManual(r)
    <3>1. /\ \A p \in Requests : payment'[p] = "failed" => payment[p] = "failed"
          /\ UNCHANGED <<intent, event, hook, recon>>
      BY <1>0, <2>3 DEF InsertPayment, RecordManual, Settle, TypeOK
    <3> QED  BY <3>1 DEF FailureIsFinal
  <2>4. CASE ~(CreateIntent(r) \/ CancelIntent(r) \/ InsertPayment(r) \/ RecordManual(r))
    <3>1. UNCHANGED <<intent, event>>
      BY <1>3, <2>4 DEF RequestStep, TenantReadCharge, ManualReadCharge, AdminStart, VoidReadCharge,
           TenantCheckPending, TenantCheckPaid, InsertFails, ManualCheckPaid, VoidCheckPayments,
           VoidCheckCompleted, CommitVoid, SelectUnitCharges, CommitUnitVoid, Abort
    <3> QED  BY <1>1, <1>3, <2>4, <3>1, RequestWrites
  <2> QED  BY <2>1, <2>2, <2>3, <2>4
<1>4. ASSUME NEW p \in Requests, StripeStep(p) PROVE FailureIsFinal'
  <2>1. CASE IntentSucceeds(p)
    <3>1. intent[p] = "processing" /\ \A q \in Requests : q # p => intent'[q] = intent[q]
      BY <1>0, <2>1 DEF IntentSucceeds, MaySettle, TypeOK
    <3>2. \A q \in Requests : event'[<<"failed", q>>] = event[<<"failed", q>>]
      <4>1. \A q \in Requests : <<"failed", q>> \in Events /\ <<"failed", q>> # <<"succeeded", p>>
        BY DEF Events
      <4> QED  BY <1>0, <2>1, <4>1 DEF IntentSucceeds, TypeOK
    <3>3. UNCHANGED <<payment, hook, recon>>
      BY <2>1 DEF IntentSucceeds
    <3> QED  BY <3>1, <3>2, <3>3 DEF FailureIsFinal
  <2>2. CASE IntentFails(p)
    <3>1. intent'[p] = "failed" /\ \A q \in Requests : q # p => intent'[q] = intent[q]
      BY <1>0, <2>2 DEF IntentFails, TypeOK
    <3>2. \A q \in Requests : q # p => event'[<<"failed", q>>] = event[<<"failed", q>>]
      BY <1>0, <2>2 DEF IntentFails, TypeOK
    <3>3. UNCHANGED <<payment, hook, recon>>
      BY <2>2 DEF IntentFails
    <3> QED  BY <3>1, <3>2, <3>3 DEF FailureIsFinal
  <2> QED  BY <1>4, <2>1, <2>2 DEF StripeStep, IntentReconfirmed
<1>5. ASSUME NEW h \in Hooks, HookStep(h) PROVE FailureIsFinal'
  <2>1. ASSUME NEW kind \in {"succeeded", "failed"}, NEW p \in Requests, Deliver(h, kind, p)
        PROVE  FailureIsFinal'
    <3>1. /\ event[<<kind, p>>] # "unsent"
          /\ \A g \in Hooks : hook'[g] = hook[g] \/ hook'[g] = <<kind, p>>
          /\ UNCHANGED <<intent, event, payment, recon>>
      BY <1>0, <2>1 DEF Deliver, TypeOK
    <3> QED  BY <3>1 DEF FailureIsFinal
  <2>2. ASSUME NEW kind \in {"succeeded", "failed"}, NEW p \in Requests, DeliverInVain(h, kind, p)
        PROVE  FailureIsFinal'
    <3>1. \A q \in Requests : event[<<"failed", q>>] = "unsent" => event'[<<"failed", q>>] = "unsent"
      BY <1>0, <2>2 DEF DeliverInVain, TypeOK
    <3>2. UNCHANGED <<intent, payment, hook, recon>>
      BY <2>2 DEF DeliverInVain
    <3> QED  BY <3>1, <3>2 DEF FailureIsFinal
  <2>3. ASSUME NEW p \in Requests, CommitSucceeded(h, p) PROVE FailureIsFinal'
    <3>1. /\ \A q \in Requests : payment'[q] = "failed" => payment[q] = "failed"
          /\ \A g \in Hooks : hook'[g] = hook[g] \/ hook'[g] = NoEvent
          /\ \A q \in Requests : event'[<<"failed", q>>] = event[<<"failed", q>>]
          /\ UNCHANGED <<intent, recon>>
      <4>1. \A q \in Requests : <<"failed", q>> \in Events /\ <<"failed", q>> # <<"succeeded", p>>
        BY DEF Events
      <4> QED  BY <1>0, <2>3, <4>1 DEF CommitSucceeded, Settle, Answered, TypeOK
    <3> QED  BY <1>9, <3>1 DEF FailureIsFinal
  <2>4. ASSUME NEW p \in Requests, CommitFailed(h, p) PROVE FailureIsFinal'
    <3>1. intent[p] \in {"failed", "canceled"} /\ UNCHANGED <<intent, recon>>
      BY <2>4 DEF CommitFailed, FailureIsFinal
    <3>2. /\ \A q \in Requests : q # p => payment'[q] = payment[q]
          /\ \A g \in Hooks : hook'[g] = hook[g] \/ hook'[g] = NoEvent
          /\ \A q \in Requests : q # p => event'[<<"failed", q>>] = event[<<"failed", q>>]
      BY <1>0, <2>4 DEF CommitFailed, Answered, TypeOK
    <3> QED  BY <1>9, <3>1, <3>2 DEF FailureIsFinal
  <2>5. CASE HandlerFails(h)
    <3>1. /\ \A g \in Hooks : hook'[g] = hook[g] \/ hook'[g] = NoEvent
          /\ UNCHANGED <<intent, event, payment, recon>>
      BY <1>0, <2>5 DEF HandlerFails, TypeOK
    <3> QED  BY <1>9, <3>1 DEF FailureIsFinal
  <2> QED  BY <1>5, <2>1, <2>2, <2>3, <2>4, <2>5 DEF HookStep
<1>6. CASE ReconStep
  <2>1. UNCHANGED <<intent, event, hook>>
    BY <1>6 DEF ReconStep, ReconSelect, ReconRetrieve, ReconComplete, ReconFail, ReconError
  <2>2. CASE ReconSelect
    <3>1. recon'.doing = {} /\ UNCHANGED payment
      BY <1>0, <2>2 DEF ReconSelect, TypeOK
    <3> QED  BY <2>1, <3>1 DEF FailureIsFinal
  <2>3. ASSUME NEW p \in Requests, ReconRetrieve(p) PROVE FailureIsFinal'
    <3>1. \/ intent[p] \in {"failed", "canceled"} /\ recon'.doing = {p}
          \/ recon'.verdict = "completed"
          \/ recon'.doing = {}
      BY <1>0, <2>3 DEF ReconRetrieve, TypeOK
    <3>2. UNCHANGED payment
      BY <2>3 DEF ReconRetrieve
    <3> QED  BY <2>1, <3>1, <3>2 DEF FailureIsFinal
  <2>4. ASSUME NEW p \in Requests, ReconComplete(p) \/ ReconFail(p) PROVE FailureIsFinal'
    <3>1. recon'.doing = {}
      BY <1>0, <2>4 DEF ReconComplete, ReconFail, ReconNext, TypeOK
    <3>2. \A q \in Requests : payment'[q] = "failed" => payment[q] = "failed" \/ intent[q] \in {"failed", "canceled"}
      BY <1>0, <2>4 DEF ReconComplete, ReconFail, Settle, TypeOK, FailureIsFinal
    <3> QED  BY <2>1, <3>1, <3>2 DEF FailureIsFinal
  <2>5. CASE ReconError
    <3>1. recon'.doing = {} /\ UNCHANGED payment
      BY <1>0, <2>5 DEF ReconError, ReconNext, TypeOK
    <3> QED  BY <2>1, <3>1 DEF FailureIsFinal
  <2> QED  BY <1>6, <2>2, <2>3, <2>4, <2>5 DEF ReconStep
<1>7. CASE UNCHANGED vars
  BY <1>1, <1>7 DEF vars
<1> QED  BY <1>2, <1>3, <1>4, <1>5, <1>6, <1>7 DEF Next

(* The charge of a request: none, or one that is open when it begins.      *)
LEMMA RequestCharge ==
  ASSUME TypeOK, NEW r \in Requests, RequestStep(r), "admin" \notin Features
  PROVE  \/ req'[r].charge = req[r].charge
         \/ req'[r].charge = NoCharge
         \/ ~InProgress(r) /\ req'[r].charge \in Charges /\ charge[req'[r].charge] = "open"
<1> USE DEF Steps
<1>0. req \in [Requests -> Request]
  BY DEF TypeOK
<1>1. ASSUME NEW step, NEW c, NEW amount, NEW doomed, Begin(r, step, c, amount, doomed)
      PROVE  req'[r].charge = c
  BY <1>0, <1>1 DEF Begin
<1>2. ASSUME NEW c \in Charges \cup {NoCharge}, NEW a \in TenantAmounts, TenantReadCharge(r, c, a)
      PROVE  \/ req'[r].charge = NoCharge
             \/ ~InProgress(r) /\ req'[r].charge \in Charges /\ charge[req'[r].charge] = "open"
  BY <1>1, <1>2 DEF TenantReadCharge, MayStart, InProgress
<1>3. ASSUME NEW c \in Charges \cup {NoCharge}, NEW a \in ManualAmounts, ManualReadCharge(r, c, a)
      PROVE  \/ req'[r].charge = NoCharge
             \/ ~InProgress(r) /\ req'[r].charge \in Charges /\ charge[req'[r].charge] = "open"
  BY <1>1, <1>3 DEF ManualReadCharge, MayStart, InProgress
<1>4. ASSUME (\E c \in Charges : VoidReadCharge(r, c)) \/ SelectUnitCharges(r)
      PROVE  req'[r].charge = NoCharge
  BY <1>1, <1>4 DEF VoidReadCharge, SelectUnitCharges
<1>5. ASSUME NEW step \in Steps, Goto(r, step)
      PROVE  req'[r].charge = req[r].charge
  BY <1>5, GotoShape
<1>6. CASE TenantCheckPaid(r)
  BY <1>1, <1>5, <1>6 DEF TenantCheckPaid
<1>7. CASE \/ TenantCheckPending(r) \/ CreateIntent(r) \/ InsertPayment(r) \/ InsertFails(r)
           \/ CancelIntent(r) \/ ManualCheckPaid(r) \/ RecordManual(r) \/ VoidCheckPayments(r)
           \/ VoidCheckCompleted(r) \/ CommitVoid(r) \/ CommitUnitVoid(r) \/ Abort(r)
  <2>1. \E step \in Steps : Goto(r, step)
    BY <1>7 DEF TenantCheckPending, CreateIntent, InsertPayment, InsertFails, CancelIntent,
                ManualCheckPaid, RecordManual, VoidCheckPayments, VoidCheckCompleted, CommitVoid,
                CommitUnitVoid, Abort
  <2> QED  BY <1>5, <2>1
<1>8. ~\E c \in Charges \cup {NoCharge} : AdminStart(r, c)
  BY DEF AdminStart, MayStart
<1> QED  BY <1>2, <1>3, <1>4, <1>6, <1>7, <1>8 DEF RequestStep

(* Which step a void comes to, and from where.                             *)
LEMMA VoidTurn ==
  ASSUME TypeOK, NEW r \in Requests, RequestStep(r), "voidUnit" \notin Features, req[r].pc # "sweep"
  PROVE  /\ req'[r].pc # "sweep"
         /\ req'[r].pc = "payments" => req'[r].charge = NoCharge
         /\ req'[r].pc = "check" => VoidCheckPayments(r)
         /\ req'[r].pc = "reverse" => VoidCheckCompleted(r)
<1> USE DEF Steps
<1>0. req \in [Requests -> Request]
  BY DEF TypeOK
<1>1. ASSUME NEW step, NEW c, NEW amount, NEW doomed, Begin(r, step, c, amount, doomed)
      PROVE  req'[r].pc = step /\ req'[r].charge = c
  BY <1>0, <1>1 DEF Begin
<1>2. ASSUME NEW step \in Steps, Goto(r, step)
      PROVE  req'[r].pc = step
  BY <1>2, GotoShape
<1>3. CASE \/ \E c \in Charges \cup {NoCharge} :
                \/ \E a \in TenantAmounts : TenantReadCharge(r, c, a)
                \/ \E a \in ManualAmounts : ManualReadCharge(r, c, a)
                \/ AdminStart(r, c)
  <2>1. req'[r].pc \in {"create", "pending", "record", "manual"}
    BY <1>1, <1>3 DEF TenantReadCharge, ManualReadCharge, AdminStart
  <2> QED  BY <2>1
<1>4. CASE \E c \in Charges : VoidReadCharge(r, c)
  <2>1. req'[r].pc = "payments" /\ req'[r].charge = NoCharge
    BY <1>1, <1>4 DEF VoidReadCharge
  <2> QED  BY <2>1
<1>5. CASE TenantCheckPaid(r)
  <2>1. req'[r].pc \in {"create", "done"}
    BY <1>1, <1>2, <1>5 DEF TenantCheckPaid
  <2> QED  BY <2>1
<1>6. CASE \/ TenantCheckPending(r) \/ CreateIntent(r) \/ InsertPayment(r) \/ InsertFails(r)
           \/ CancelIntent(r) \/ ManualCheckPaid(r) \/ RecordManual(r)
           \/ CommitVoid(r) \/ Abort(r)
  <2>1. req'[r].pc \in {"paid", "insert", "cancel", "record", "done"}
    BY <1>2, <1>6 DEF TenantCheckPending, CreateIntent, InsertPayment, InsertFails, CancelIntent,
                      ManualCheckPaid, RecordManual, CommitVoid, Abort
  <2> QED  BY <2>1
<1>7. CASE VoidCheckPayments(r)
  <2>1. req'[r].pc \in {"check", "done"}
    BY <1>2, <1>7 DEF VoidCheckPayments
  <2> QED  BY <1>7, <2>1
<1>8. CASE VoidCheckCompleted(r)
  <2>1. req'[r].pc \in {"reverse", "done"}
    BY <1>2, <1>8 DEF VoidCheckCompleted
  <2> QED  BY <1>8, <2>1
<1>9. ~SelectUnitCharges(r) /\ ~CommitUnitVoid(r)
  BY DEF SelectUnitCharges, MayStart, CommitUnitVoid
<1> QED  BY <1>3, <1>4, <1>5, <1>6, <1>7, <1>8, <1>9 DEF RequestStep

(* A charge stays clear when a payment of another charge goes on, and when *)
(* a payment that has not failed is settled.                               *)
LEMMA ClearStays ==
  ASSUME NEW c \in Charges, Clear(c), UNCHANGED req,
         \A p \in Requests : payment[p] \in {"none", "failed"} => payment'[p] \in {"none", "failed"}
  PROVE  Clear(c)'
  BY DEF Clear, InProgress

LEMMA ClearStep ==
  ASSUME Evidence, FailureIsFinal, VoidsAreCurrent, VoidsAreClear, [Next]_vars, Serialized = TRUE,
         "admin" \notin Features, "voidUnit" \notin Features
  PROVE  VoidsAreClear'
<1> USE DEF tables, ledger, stripe
<1>0. TypeOK
  BY DEF Evidence
<1>1. ASSUME UNCHANGED req,
             \A p \in Requests : payment[p] \in {"none", "failed"} => payment'[p] \in {"none", "failed"},
             \A c \in Charges : charge'[c] = "voided" => charge[c] = "voided"
      PROVE  VoidsAreClear'
  <2>1. \A c \in Charges : Clear(c) => Clear(c)'
    BY <1>1, ClearStays
  <2>2. \A r \in Requests : req[r].doomed \subseteq Charges
    BY <1>0 DEF TypeOK, Request
  <2>3. \A c \in Charges : charge'[c] = "voided" => Clear(c)'
    BY <1>1, <2>1 DEF VoidsAreClear
  <2>4. \A r \in Requests : req'[r].pc \in {"check", "reverse"} => \A c \in req'[r].doomed : Clear(c)'
    BY <1>1, <2>1, <2>2 DEF VoidsAreClear
  <2>5. \A r \in Requests :
          /\ req'[r].pc \in {"payments", "check", "reverse"} => req'[r].charge = NoCharge
          /\ req'[r].pc # "sweep"
    BY <1>1 DEF VoidsAreClear
  <2> QED  BY <2>3, <2>4, <2>5 DEF VoidsAreClear
<1>2. ASSUME NEW p \in Requests, intent[p] = "succeeded", payment[p] # "none", Settle(p)
      PROVE  \A q \in Requests : payment[q] \in {"none", "failed"} => payment'[q] \in {"none", "failed"}
  <2>1. payment[p] \notin {"none", "failed"}
    BY <1>2 DEF FailureIsFinal
  <2> QED  BY <1>0, <1>2, <2>1 DEF Settle, TypeOK
<1>3. ASSUME NEW C \in SUBSET Charges, PostCharges(C) PROVE VoidsAreClear'
  <2>1. \A c \in Charges : charge'[c] = "voided" => charge[c] = "voided"
    BY <1>0, <1>3 DEF PostCharges, TypeOK
  <2> QED  BY <1>1, <1>3, <2>1 DEF PostCharges
<1>4. ASSUME NEW r \in Requests, RequestStep(r) PROVE VoidsAreClear'
  <2>1. /\ \A q \in Requests : q # r => req'[q] = req[q]
        /\ InProgress(r) \/ \A q \in Requests : ~InProgress(q)
        /\ \/ req'[r].doomed = {}
           \/ InProgress(r) /\ req'[r].doomed = req[r].doomed
           \/ \A c \in req'[r].doomed : charge[c] = "open"
    BY <1>0, <1>4, RequestTurn
  <2>2. \A q \in Requests : q # r => ~InProgress(q)
    BY <2>1 DEF VoidsAreCurrent
  <2>3. \/ req'[r].charge = req[r].charge
        \/ req'[r].charge = NoCharge
        \/ ~InProgress(r) /\ req'[r].charge \in Charges /\ charge[req'[r].charge] = "open"
    BY <1>0, <1>4, RequestCharge
  <2>4. \A q \in Requests : q # r => payment'[q] = payment[q]
    BY <1>0, <1>4, RequestWrites DEF InsertPayment, RecordManual, Settle, TypeOK
  <2>5. ASSUME NEW c \in Charges, Clear(c), InProgress(r) \/ charge[c] # "open"
        PROVE  Clear(c)'
    <3>1. \A q \in Requests : q # r /\ req'[q].charge = c => ~InProgress(q)' /\ payment'[q] \in {"none", "failed"}
      BY <2>1, <2>4, <2>5 DEF Clear, InProgress
    <3>2. CASE InProgress(r)
      <4>1. req[r].charge # c
        BY <2>5, <3>2 DEF Clear
      <4>2. req'[r].charge # c
        BY <2>3, <3>2, <4>1, ChargesAssumption
      <4> QED  BY <3>1, <4>2 DEF Clear
    <3>3. CASE ~InProgress(r)
      <4>1. req'[r].charge # c
        <5>1. ASSUME NEW d \in Charges \cup {NoCharge}, NEW a \in TenantAmounts \cup ManualAmounts,
                     TenantReadCharge(r, d, a) \/ ManualReadCharge(r, d, a)
              PROVE  req'[r].charge # c
          <6>1. req'[r].charge = d
            BY <1>0, <5>1 DEF TenantReadCharge, ManualReadCharge, Begin, TypeOK
          <6>2. d = NoCharge \/ charge[d] = "open"
            BY <5>1 DEF TenantReadCharge, ManualReadCharge
          <6> QED  BY <2>5, <3>3, <6>1, <6>2, ChargesAssumption
        <5>2. ASSUME (\E d \in Charges : VoidReadCharge(r, d)) PROVE req'[r].charge # c
          <6>1. req'[r].charge = NoCharge
            BY <1>0, <5>2 DEF VoidReadCharge, Begin, TypeOK
          <6> QED  BY <6>1, ChargesAssumption
        <5>3. \/ \E d \in Charges \cup {NoCharge} :
                   \/ \E a \in TenantAmounts : TenantReadCharge(r, d, a)
                   \/ \E a \in ManualAmounts : ManualReadCharge(r, d, a)
              \/ \E d \in Charges : VoidReadCharge(r, d)
          BY <1>4, <3>3 DEF RequestStep, AdminStart, MayStart, InProgress, SelectUnitCharges,
               TenantCheckPending, TenantCheckPaid, CreateIntent, InsertPayment, InsertFails, CancelIntent,
               ManualCheckPaid, RecordManual, VoidCheckPayments, VoidCheckCompleted, CommitVoid,
               CommitUnitVoid, Abort
        <5> QED  BY <5>1, <5>2, <5>3
      <4> QED  BY <3>1, <4>1 DEF Clear
    <3> QED  BY <3>2, <3>3
  <2>6. req[r].doomed \subseteq Charges
    BY <1>0 DEF TypeOK, Request
  <2>7. /\ req'[r].pc # "sweep"
        /\ req'[r].pc = "payments" => req'[r].charge = NoCharge
        /\ req'[r].pc = "check" => VoidCheckPayments(r)
        /\ req'[r].pc = "reverse" => VoidCheckCompleted(r)
    BY <1>0, <1>4, VoidTurn DEF VoidsAreClear
  <2>8. \A q \in Requests \ {r} : req'[q].pc \in {"idle", "done"}
    BY <2>1, <2>2 DEF InProgress
  <2>9. \A c \in Charges : charge'[c] = "voided" => Clear(c)'
    <3>1. CASE CommitVoid(r)
      <4>1. /\ InProgress(r) /\ \A c \in req[r].doomed : Clear(c)
            /\ \A c \in Charges : charge'[c] = "voided" => c \in req[r].doomed \/ charge[c] = "voided"
        BY <3>1 DEF CommitVoid, Reverse, InProgress, VoidsAreClear
      <4> QED  BY <2>5, <4>1 DEF VoidsAreClear
    <3>2. CASE UNCHANGED charge
      BY <2>5, <3>2 DEF VoidsAreClear
    <3>3. ~CommitUnitVoid(r)
      BY DEF CommitUnitVoid, VoidsAreClear
    <3> QED  BY <1>4, <3>1, <3>2, <3>3, RequestBooks DEF RecordManual
  <2>10. ASSUME VoidCheckPayments(r) \/ VoidCheckCompleted(r)
         PROVE  req'[r].doomed = req[r].doomed /\ req'[r].charge = NoCharge /\ InProgress(r)
    <3>1. req[r].pc \in {"payments", "check"} /\ \E step \in Steps : Goto(r, step)
      BY <2>10 DEF VoidCheckPayments, VoidCheckCompleted, Steps
    <3> QED  BY <1>0, <3>1, GotoShape DEF VoidsAreClear, InProgress
  <2>11. ASSUME VoidCheckPayments(r), req'[r].pc = "check", NEW c \in req[r].doomed
         PROVE  Clear(c)
    <3>1. PaymentsOn(c, "pending") \cup PaymentsOn(c, "completed") = {}
      <4>1. Goto(r, "done") => req'[r].pc = "done"
        BY <1>0, GotoShape DEF Steps
      <4> QED  BY <2>11, <4>1 DEF VoidCheckPayments
    <3>2. \A p \in Requests : req[p].charge = c => payment[p] \notin {"pending", "completed"}
      BY <3>1 DEF PaymentsOn
    <3>3. req[r].charge = NoCharge
      BY <2>11 DEF VoidCheckPayments, VoidsAreClear
    <3> QED  BY <1>0, <2>2, <2>6, <3>2, <3>3, ChargesAssumption DEF Clear, TypeOK
  <2>12. ASSUME req'[r].pc \in {"check", "reverse"}
         PROVE  req'[r].charge = NoCharge /\ \A c \in req'[r].doomed : Clear(c)'
    <3>1. \A c \in req[r].doomed : Clear(c)
      BY <2>7, <2>11, <2>12 DEF VoidCheckCompleted, VoidsAreClear
    <3> QED  BY <2>5, <2>6, <2>7, <2>10, <2>12, <3>1
  <2>13. \A q \in Requests :
           /\ req'[q].pc \in {"check", "reverse"} => \A c \in req'[q].doomed : Clear(c)'
           /\ req'[q].pc \in {"payments", "check", "reverse"} => req'[q].charge = NoCharge
           /\ req'[q].pc # "sweep"
    BY <2>7, <2>8, <2>12
  <2> QED  BY <2>9, <2>13 DEF VoidsAreClear
<1>5. ASSUME NEW p \in Requests, StripeStep(p) PROVE VoidsAreClear'
  BY <1>1, <1>5 DEF StripeStep, IntentSucceeds, IntentFails, IntentReconfirmed
<1>6. ASSUME NEW h \in Hooks, HookStep(h) PROVE VoidsAreClear'
  <2>1. ASSUME NEW p \in Requests, CommitSucceeded(h, p) PROVE VoidsAreClear'
    <3>1. intent[p] = "succeeded" /\ payment[p] # "none"
      <4>1. <<"succeeded", p>> \in Events
        BY DEF Events
      <4> QED  BY <2>1, <4>1 DEF CommitSucceeded, Evidence, SuccessIsTrue, HandlersHaveRows
    <3>2. Settle(p) /\ UNCHANGED <<charge, req>>
      BY <2>1 DEF CommitSucceeded
    <3> QED  BY <1>1, <1>2, <3>1, <3>2
  <2>2. ASSUME NEW p \in Requests, CommitFailed(h, p) PROVE VoidsAreClear'
    BY <1>0, <1>1, <2>2 DEF CommitFailed, TypeOK
  <2> QED  BY <1>1, <1>6, <2>1, <2>2 DEF HookStep, Deliver, DeliverInVain, HandlerFails
<1>7. CASE ReconStep
  <2>1. ASSUME NEW p \in Requests, ReconComplete(p) PROVE VoidsAreClear'
    <3>1. intent[p] = "succeeded" /\ payment[p] # "none"
      BY <2>1 DEF ReconComplete, Evidence, SuccessIsTrue, HandlersHaveRows
    <3>2. Settle(p) /\ UNCHANGED <<charge, req>>
      BY <2>1 DEF ReconComplete
    <3> QED  BY <1>1, <1>2, <3>1, <3>2
  <2>2. ASSUME NEW p \in Requests, ReconFail(p) PROVE VoidsAreClear'
    BY <1>0, <1>1, <2>2 DEF ReconFail, TypeOK
  <2> QED  BY <1>1, <1>7, <2>1, <2>2 DEF ReconStep, ReconSelect, ReconRetrieve, ReconError
<1>8. CASE UNCHANGED vars
  BY <1>1, <1>8 DEF vars
<1> QED  BY <1>3, <1>4, <1>5, <1>6, <1>7, <1>8 DEF Next

(* With requests one at a time, a voided charge has no payment on it and   *)
(* none on the way (VoidedCarriesNoMoney), however deliveries, handlers,   *)
(* the script and failures interleave.  The endpoints that do not look are *)
(* left out: the admin's payment and the void of a unit; and an intent     *)
(* that failed is not confirmed again.                                     *)
THEOREM VoidedIsClear ==
  ASSUME Serialized = TRUE, {"admin", "voidUnit", "reconfirm"} \cap Features = {}
  PROVE  Spec => []VoidedCarriesNoMoney
<1>0. "admin" \notin Features /\ "voidUnit" \notin Features /\ "reconfirm" \notin Features
  OBVIOUS
<1>1. Init => FailureIsFinal /\ VoidsAreClear /\ VoidsAreCurrent
  BY DEF Init, FailureIsFinal, VoidsAreClear, VoidsAreCurrent, InProgress, Events, NoEvent
<1>2. Evidence /\ FailureIsFinal /\ [Next]_vars => FailureIsFinal'
  BY <1>0, FinalStep
<1>3. Evidence /\ VoidsAreCurrent /\ [Next]_vars => VoidsAreCurrent'
  BY VoidsStep
<1>4. Evidence /\ FailureIsFinal /\ VoidsAreCurrent /\ VoidsAreClear /\ [Next]_vars => VoidsAreClear'
  BY <1>0, ClearStep
<1>5. VoidsAreClear => VoidedCarriesNoMoney
  BY DEF VoidsAreClear, Clear, VoidedCarriesNoMoney, PaymentsOn
<1> QED
  BY <1>1, <1>2, <1>3, <1>4, <1>5, EvidenceInit, EvidenceStep, PTL DEF Spec

-----------------------------------------------------------------------------
(* Sums over finite sets.  The library's induction takes an operator, so   *)
(* each of these looks at a smallest counterexample instead.               *)

(* A set of numbers has a least one.                                       *)
LEMMA LeastNumber ==
  ASSUME NEW T \in SUBSET Nat, T # {}
  PROVE  \E n \in T : \A m \in T : n <= m
<1>1. PICK R : IsWellFoundedOn(R, Nat) /\ \A m, n \in Nat : m < n => <<m, n>> \in R
  <2>1. \A m, n \in Nat : m < n => <<m, n>> \in OpToRel(<, Nat)
    BY DEF OpToRel
  <2> QED  BY <2>1, NatLessThanWellFounded, Zenon
<1>2. PICK n \in T : \A m \in T : ~(<<m, n>> \in R)
  <2>1. IsWellFoundedOn(R, Nat) /\ T \subseteq Nat
    BY <1>1
  <2> QED  BY <2>1, WFMin, Zenon
<1>3. \A m \in T : ~(m < n)
  BY <1>1, <1>2, Zenon
<1> QED  BY <1>3

(* The element that is taken off first.                                    *)
Pick(s) == CHOOSE x \in s : TRUE

(* g adds up f over each set of the family.                                *)
AddsUp(g, f, family) ==
  g = [s \in family |-> IF s = {} THEN 0 ELSE f[Pick(s)] + g[s \ {Pick(s)}]]

(* What SumFunctionOnSet computes on the way to the sum over S.            *)
Sums(f, S) == CHOOSE g : AddsUp(g, f, SUBSET S)

(* The library's definition, spelled out.                                  *)
LEMMA SumUnfolded ==
  ASSUME NEW f, NEW S
  PROVE  SumFunctionOnSet(f, S) = Sums(f, S)[S]
  BY Zenon DEF SumFunctionOnSet, FoldFunctionOnSet, MapThenFoldSet, Sums, AddsUp, Pick

(* What taking an element off leaves.                                      *)
LEMMA PickFacts ==
  ASSUME NEW S, IsFiniteSet(S), S # {}
  PROVE  /\ Pick(S) \in S
         /\ IsFiniteSet(S \ {Pick(S)})
         /\ Cardinality(S) \in Nat \ {0}
         /\ Cardinality(S \ {Pick(S)}) = Cardinality(S) - 1
<1>1. Pick(S) \in S
  BY DEF Pick
<1> DEFINE c == Pick(S)
<1> HIDE DEF c
<1>2. /\ IsFiniteSet(S \ {c})
      /\ Cardinality(S \ {c}) = IF c \in S THEN Cardinality(S)-1 ELSE Cardinality(S)
  BY FS_RemoveElement
<1>3. Cardinality(S) \in Nat /\ Cardinality(S) # 0
  BY FS_CardinalityType, FS_EmptySet
<1>4. c \in S
  BY <1>1 DEF c
<1> QED  BY <1>2, <1>3, <1>4 DEF c

(* Subsets of at most n elements.                                          *)
Small(S, n) == {s \in SUBSET S : Cardinality(s) <= n}

(* The recursion has a solution.                                           *)
LEMMA SumsExist ==
  ASSUME NEW f, NEW S, IsFiniteSet(S)
  PROVE  AddsUp(Sums(f, S), f, SUBSET S)
<1> DEFINE Bad == {n \in Nat : ~\E g : AddsUp(g, f, Small(S, n))}
<1>0. \A s \in SUBSET S : IsFiniteSet(s) /\ Cardinality(s) \in Nat
  BY FS_Subset, FS_CardinalityType
<1>1. Bad = {}
  <2> SUFFICES ASSUME Bad # {} PROVE FALSE
    OBVIOUS
  <2>1. PICK n \in Bad : \A m \in Bad : n <= m
    BY LeastNumber
  <2>2. PICK h : n # 0 => AddsUp(h, f, Small(S, n - 1))
    <3>1. n # 0 => n - 1 \in Nat /\ n - 1 \notin Bad
      BY <2>1
    <3> QED  BY <3>1
  <2> DEFINE g == [s \in Small(S, n) |-> IF s = {} THEN 0 ELSE f[Pick(s)] + h[s \ {Pick(s)}]]
  <2>3. ASSUME NEW s \in Small(S, n), s # {}
        PROVE  g[s \ {Pick(s)}] = h[s \ {Pick(s)}]
    <3>1. /\ Pick(s) \in s
          /\ Cardinality(s) \in Nat \ {0}
          /\ Cardinality(s \ {Pick(s)}) = Cardinality(s) - 1
      BY <1>0, <2>3, PickFacts DEF Small
    <3>2. PICK t : t = s \ {Pick(s)}
      OBVIOUS
    <3>3. n \in Nat /\ Cardinality(s) <= n /\ s \in SUBSET S
      BY DEF Small
    <3>4. n # 0 /\ Cardinality(t) \in Nat /\ Cardinality(t) <= n - 1 /\ t \in SUBSET S
      BY <3>1, <3>2, <3>3
    <3>5. t \in Small(S, n - 1) /\ t \in Small(S, n)
      BY <3>3, <3>4 DEF Small
    <3>6. h = [u \in Small(S, n - 1) |-> IF u = {} THEN 0 ELSE f[Pick(u)] + h[u \ {Pick(u)}]]
      BY <2>2, <3>4 DEF AddsUp
    <3>7. h[t] = IF t = {} THEN 0 ELSE f[Pick(t)] + h[t \ {Pick(t)}]
      BY <3>5, <3>6
    <3>8. g[t] = IF t = {} THEN 0 ELSE f[Pick(t)] + h[t \ {Pick(t)}]
      BY <3>5
    <3> QED  BY <3>2, <3>7, <3>8
  <2>4. AddsUp(g, f, Small(S, n))
    <3> HIDE DEF g
    <3>1. \A s \in Small(S, n) : s # {} => f[Pick(s)] + h[s \ {Pick(s)}] = f[Pick(s)] + g[s \ {Pick(s)}]
      BY <2>3
    <3>2. g = [s \in Small(S, n) |-> IF s = {} THEN 0 ELSE f[Pick(s)] + h[s \ {Pick(s)}]]
      BY DEF g
    <3> QED  BY <3>1, <3>2 DEF AddsUp
  <2> QED  BY <2>4
<1>2. Cardinality(S) \in Nat /\ Small(S, Cardinality(S)) = SUBSET S
  BY FS_Subset, FS_CardinalityType DEF Small
<1>3. \E g : AddsUp(g, f, SUBSET S)
  BY <1>1, <1>2
<1> QED  BY <1>3 DEF Sums

(* A sum does not depend on the family it is read from.                    *)
LEMMA SumsAgree ==
  ASSUME NEW f, NEW g, NEW e, NEW h, NEW S, IsFiniteSet(S), NEW T, IsFiniteSet(T),
         AddsUp(e, f, SUBSET S), AddsUp(h, g, SUBSET T)
  PROVE  \A s \in (SUBSET S) \cap (SUBSET T) : (\A x \in s : f[x] = g[x]) => e[s] = h[s]
<1> DEFINE Wrong(s) == s \in SUBSET S /\ s \in SUBSET T /\ (\A x \in s : f[x] = g[x]) /\ e[s] # h[s]
<1> SUFFICES ASSUME NEW w, Wrong(w) PROVE FALSE
  OBVIOUS
<1> DEFINE Bad == {n \in Nat : \E s \in SUBSET S : Wrong(s) /\ Cardinality(s) = n}
<1>1. Cardinality(w) \in Bad
  BY FS_Subset, FS_CardinalityType
<1>2. PICK n \in Bad : \A m \in Bad : n <= m
  BY <1>1, LeastNumber
<1>3. PICK s : Wrong(s) /\ Cardinality(s) = n /\ n \in Nat
  BY <1>2
<1>4. e[s] = IF s = {} THEN 0 ELSE f[Pick(s)] + e[s \ {Pick(s)}]
  BY <1>3 DEF AddsUp
<1>5. h[s] = IF s = {} THEN 0 ELSE g[Pick(s)] + h[s \ {Pick(s)}]
  BY <1>3 DEF AddsUp
<1>6. s # {} /\ IsFiniteSet(s)
  BY <1>3, <1>4, <1>5, FS_Subset
<1>7. Pick(s) \in s /\ Cardinality(s \ {Pick(s)}) = Cardinality(s) - 1 /\ Cardinality(s) \in Nat \ {0}
  BY <1>6, PickFacts
<1>8. PICK t : t = s \ {Pick(s)}
  OBVIOUS
<1>9. e[t] # h[t]
  BY <1>3, <1>4, <1>5, <1>6, <1>7, <1>8
<1>10. Wrong(t)
  BY <1>3, <1>8, <1>9
<1>11. n - 1 \in Bad
  BY <1>3, <1>7, <1>8, <1>10
<1> QED  BY <1>2, <1>3, <1>11

(* Taking the chosen element off a sum, and the empty sum.                 *)
LEMMA SumPicked ==
  ASSUME NEW f, NEW S, IsFiniteSet(S)
  PROVE  SumFunctionOnSet(f, S) =
           IF S = {} THEN 0 ELSE f[Pick(S)] + SumFunctionOnSet(f, S \ {Pick(S)})
<1>1. PICK e : e = Sums(f, S) /\ AddsUp(e, f, SUBSET S)
  BY SumsExist
<1>2. e[S] = IF S = {} THEN 0 ELSE f[Pick(S)] + e[S \ {Pick(S)}]
  BY <1>1 DEF AddsUp
<1>3. PICK T : T = S \ {Pick(S)}
  OBVIOUS
<1>4. IsFiniteSet(T) /\ T \in SUBSET S
  BY <1>3, FS_Subset
<1>5. PICK g : g = f
  OBVIOUS
<1>6. PICK h : h = Sums(g, T) /\ AddsUp(h, g, SUBSET T)
  BY <1>4, SumsExist
<1>7. e[T] = h[T]
  <2>1. \A s \in (SUBSET S) \cap (SUBSET T) : (\A x \in s : f[x] = g[x]) => e[s] = h[s]
    <3>1. IsFiniteSet(S) /\ IsFiniteSet(T)
      BY <1>4
    <3>2. AddsUp(e, f, SUBSET S) /\ AddsUp(h, g, SUBSET T)
      BY <1>1, <1>6
    <3> QED  BY <3>1, <3>2, SumsAgree
  <2> QED  BY <1>4, <1>5, <2>1
<1>8. SumFunctionOnSet(f, S) = e[S] /\ SumFunctionOnSet(f, T) = h[T]
  BY <1>1, <1>5, <1>6, SumUnfolded
<1> QED  BY <1>2, <1>3, <1>7, <1>8

(* A sum depends on what is summed only.                                   *)
LEMMA SumSame ==
  ASSUME NEW f, NEW g, NEW S, IsFiniteSet(S), \A x \in S : f[x] = g[x]
  PROVE  SumFunctionOnSet(f, S) = SumFunctionOnSet(g, S)
<1>1. PICK e : e = Sums(f, S) /\ AddsUp(e, f, SUBSET S)
  BY SumsExist
<1>2. PICK h : h = Sums(g, S) /\ AddsUp(h, g, SUBSET S)
  BY SumsExist
<1>3. e[S] = h[S]
  BY <1>1, <1>2, SumsAgree
<1> QED  BY <1>1, <1>2, <1>3, SumUnfolded

(* Sums of natural numbers are natural numbers.                            *)
LEMMA SumType ==
  ASSUME NEW D, NEW f \in [D -> Nat], NEW S \in SUBSET D, IsFiniteSet(S)
  PROVE  SumFunctionOnSet(f, S) \in Nat
<1> SUFFICES ASSUME SumFunctionOnSet(f, S) \notin Nat PROVE FALSE
  OBVIOUS
<1> DEFINE Wrong(s) == s \in SUBSET S /\ SumFunctionOnSet(f, s) \notin Nat
           Bad == {n \in Nat : \E s \in SUBSET S : Wrong(s) /\ Cardinality(s) = n}
<1>1. Cardinality(S) \in Bad
  BY FS_CardinalityType
<1>2. PICK n \in Bad : \A m \in Bad : n <= m
  BY <1>1, LeastNumber
<1>3. PICK s : Wrong(s) /\ Cardinality(s) = n /\ n \in Nat
  BY <1>2
<1>4. IsFiniteSet(s)
  BY <1>3, FS_Subset
<1>5. PICK t : t = s \ {Pick(s)}
  OBVIOUS
<1>6. SumFunctionOnSet(f, s) = IF s = {} THEN 0 ELSE f[Pick(s)] + SumFunctionOnSet(f, t)
  BY <1>4, <1>5, SumPicked
<1>7. s # {}
  BY <1>3, <1>6
<1>8. Pick(s) \in s /\ Cardinality(t) = Cardinality(s) - 1 /\ Cardinality(s) \in Nat \ {0}
  BY <1>4, <1>5, <1>7, PickFacts
<1>9. f[Pick(s)] \in Nat
  BY <1>3, <1>8
<1>10. Wrong(t)
  BY <1>3, <1>5, <1>6, <1>7, <1>9
<1>11. n - 1 \in Bad
  BY <1>3, <1>8, <1>10
<1> QED  BY <1>2, <1>3, <1>11

(* Adding one element adds its number.                                     *)
LEMMA SumAdded ==
  ASSUME NEW D, NEW f \in [D -> Nat], NEW S \in SUBSET D, IsFiniteSet(S), NEW x \in D \ S
  PROVE  SumFunctionOnSet(f, S \cup {x}) = f[x] + SumFunctionOnSet(f, S)
<1> DEFINE Sum(s) == SumFunctionOnSet(f, s)
<1> HIDE DEF Sum
<1> DEFINE Wrong(s, y) == /\ s \in SUBSET D /\ IsFiniteSet(s) /\ y \in D \ s
                          /\ Sum(s \cup {y}) # f[y] + Sum(s)
           Bad == {n \in Nat : \E s, y : Wrong(s, y) /\ Cardinality(s) = n}
<1> SUFFICES ASSUME Wrong(S, x) PROVE FALSE
  BY DEF Sum
<1>1. Cardinality(S) \in Bad
  BY FS_CardinalityType
<1>2. PICK n \in Bad : \A m \in Bad : n <= m
  BY <1>1, LeastNumber
<1>3. PICK s, y : Wrong(s, y) /\ Cardinality(s) = n /\ n \in Nat
  BY <1>2
<1>4. PICK U : U = s \cup {y}
  OBVIOUS
<1>5. IsFiniteSet(U) /\ U # {} /\ U \in SUBSET D
  BY <1>3, <1>4, FS_AddElement
<1>6. PICK c : c = Pick(U)
  OBVIOUS
<1>7. c \in U
  BY <1>5, <1>6, PickFacts
<1>8. Sum(U) = f[c] + Sum(U \ {c})
  BY <1>5, <1>6, SumPicked DEF Sum
<1>9. c # y
  <2>1. ASSUME c = y PROVE FALSE
    <3>1. U \ {c} = s
      BY <1>3, <1>4, <2>1
    <3> QED  BY <1>3, <1>4, <1>8, <2>1, <3>1
  <2> QED  BY <2>1
<1>10. PICK t : t = s \ {c}
  OBVIOUS
<1>11. c \in s /\ IsFiniteSet(t) /\ t \in SUBSET D /\ y \in D \ t /\ c \in D \ t
  BY <1>3, <1>4, <1>7, <1>9, <1>10, FS_Subset
<1>12. Cardinality(t) = n - 1 /\ n - 1 \in Nat
  <2>1. Cardinality(t) = (IF c \in s THEN Cardinality(s) - 1 ELSE Cardinality(s)) /\ Cardinality(t) \in Nat
    BY <1>3, <1>10, <1>11, FS_RemoveElement, FS_CardinalityType
  <2> QED  BY <1>3, <1>11, <2>1
<1>13. ~Wrong(t, y) /\ ~Wrong(t, c)
  <2>1. ASSUME NEW z, Wrong(t, z) PROVE FALSE
    <3> HIDE DEF Wrong
    <3>1. PICK k \in Nat : k = n - 1
      BY <1>12
    <3>2. \E s1, y1 : Wrong(s1, y1) /\ Cardinality(s1) = k
      BY <1>12, <2>1, <3>1
    <3>3. k \in Bad
      BY <3>2
    <3> QED  BY <1>2, <1>3, <3>1, <3>3
  <2> QED  BY <2>1
<1>14. Sum(t \cup {y}) = f[y] + Sum(t) /\ Sum(t \cup {c}) = f[c] + Sum(t)
  BY <1>11, <1>13
<1>15. U \ {c} = t \cup {y} /\ s = t \cup {c}
  BY <1>3, <1>4, <1>9, <1>10, <1>11
<1>16. f[c] \in Nat /\ f[y] \in Nat /\ Sum(t) \in Nat
  BY <1>3, <1>11, SumType DEF Sum
<1>17. Sum(U) = f[c] + (f[y] + Sum(t)) /\ Sum(s) = f[c] + Sum(t)
  BY <1>8, <1>14, <1>15
<1>18. Sum(U) = f[y] + Sum(s)
  BY <1>16, <1>17
<1> QED  BY <1>3, <1>4, <1>18

(* A part adds up to no more than the whole.                               *)
LEMMA SumOfPart ==
  ASSUME NEW D, NEW f \in [D -> Nat], NEW S \in SUBSET D, IsFiniteSet(S), NEW T \in SUBSET S
  PROVE  SumFunctionOnSet(f, T) <= SumFunctionOnSet(f, S)
<1> DEFINE Sum(s) == SumFunctionOnSet(f, s)
<1> HIDE DEF Sum
<1> DEFINE Wrong(s) == s \in SUBSET S /\ T \subseteq s /\ ~(Sum(T) <= Sum(s))
           Bad == {n \in Nat : \E s \in SUBSET S : Wrong(s) /\ Cardinality(s) = n}
<1> SUFFICES ASSUME Wrong(S) PROVE FALSE
  BY DEF Sum
<1>0. \A s \in SUBSET S : IsFiniteSet(s) /\ Cardinality(s) \in Nat /\ Sum(s) \in Nat
  BY FS_Subset, FS_CardinalityType, SumType DEF Sum
<1>1. Cardinality(S) \in Bad
  BY <1>0
<1>2. PICK n \in Bad : \A m \in Bad : n <= m
  BY <1>1, LeastNumber
<1>3. PICK s : Wrong(s) /\ Cardinality(s) = n /\ n \in Nat
  BY <1>2
<1>4. PICK x : x \in s \ T
  <2>1. s # T
    BY <1>0, <1>3
  <2> QED  BY <1>3, <2>1
<1>5. PICK t : t = s \ {x}
  OBVIOUS
<1>6. t \in SUBSET S /\ IsFiniteSet(t) /\ T \subseteq t /\ x \in D \ t /\ s = t \cup {x}
  BY <1>0, <1>3, <1>4, <1>5
<1>7. Sum(s) = f[x] + Sum(t)
  BY <1>6, SumAdded DEF Sum
<1>8. f[x] \in Nat
  BY <1>6
<1>9. Wrong(t)
  BY <1>0, <1>3, <1>6, <1>7, <1>8
<1>10. Cardinality(t) = n - 1 /\ n - 1 \in Nat
  <2>1. Cardinality(t) = (IF x \in s THEN Cardinality(s) - 1 ELSE Cardinality(s)) /\ Cardinality(t) \in Nat
    BY <1>0, <1>3, <1>5, <1>6, FS_RemoveElement
  <2> QED  BY <1>3, <1>4, <2>1
<1> QED  BY <1>2, <1>3, <1>6, <1>9, <1>10

-----------------------------------------------------------------------------
(* Requests one at a time: no charge is debited beyond its amount.         *)

Debits(c) ==
  {p \in PaymentsOn(c, "pending") \cup PaymentsOn(c, "completed") : intent[p] # "none"}

Amounts == [p \in Requests |-> req[p].amount]

DebitSum(c) == SumFunctionOnSet(Amounts, Debits(c))

(* What a tenant is about to debit fits into what is left of the charge,   *)
(* and the part asked for is looked at with nothing in flight.             *)
RoomFor(r) ==
  /\ req[r].pc \in {"pending", "paid"} => req[r].charge \in Charges /\ req[r].amount # 0
  /\ \A c \in Charges : req[r].charge = c =>
       /\ req[r].pc = "paid" => PaymentsOn(c, "pending") = {}
       /\ req[r].pc \in {"create", "insert"} => DebitSum(c) + req[r].amount <= Amount[c]

DebitsFit ==
  /\ IsFiniteSet({p \in Requests : payment[p] # "none"})
  /\ \A c \in Charges : DebitSum(c) <= Amount[c]
  /\ \A r \in Requests : RoomFor(r)

(* Fewer debits of the same amounts add up to no more.                     *)
LEMMA FewerAddUpToLess ==
  ASSUME NEW D, NEW f \in [D -> Nat], NEW g \in [D -> Nat], NEW S \in SUBSET D, IsFiniteSet(S),
         NEW T \in SUBSET S, \A x \in T : g[x] = f[x]
  PROVE  /\ SumFunctionOnSet(g, T) <= SumFunctionOnSet(f, S)
         /\ SumFunctionOnSet(f, S) \in Nat /\ SumFunctionOnSet(g, T) \in Nat
<1>1. IsFiniteSet(T) /\ T \in SUBSET D
  BY FS_Subset
<1>2. SumFunctionOnSet(g, T) = SumFunctionOnSet(f, T)
  BY <1>1, SumSame
<1>3. SumFunctionOnSet(f, T) <= SumFunctionOnSet(f, S)
  BY SumOfPart
<1>4. SumFunctionOnSet(f, S) \in Nat /\ SumFunctionOnSet(f, T) \in Nat
  BY <1>1, SumType
<1> QED  BY <1>2, <1>3, <1>4

LEMMA DebitsType ==
  ASSUME TypeOK, DebitsFit, NEW c \in Charges
  PROVE  /\ Amounts \in [Requests -> Nat]
         /\ Debits(c) \in SUBSET Requests /\ IsFiniteSet(Debits(c))
         /\ DebitSum(c) \in Nat
<1>1. Amounts \in [Requests -> Nat]
  BY DEF TypeOK, Request, Amounts
<1>2. Debits(c) \subseteq {p \in Requests : payment[p] # "none"}
  BY DEF Debits, PaymentsOn
<1>3. Debits(c) \in SUBSET Requests /\ IsFiniteSet(Debits(c))
  BY <1>2, FS_Subset DEF DebitsFit
<1> QED  BY <1>1, <1>3, SumType DEF DebitSum

(* Nothing new is debited.                                                 *)
LEMMA NoMoreDebits ==
  ASSUME TypeOK, TypeOK', DebitsFit, NEW c \in Charges,
         Debits(c)' \subseteq Debits(c), \A p \in Debits(c)' : req'[p].amount = req[p].amount
  PROVE  DebitSum(c)' <= DebitSum(c) /\ DebitSum(c)' \in Nat
<1>1. PICK f : f = Amounts
  OBVIOUS
<1>2. PICK g : g = Amounts'
  OBVIOUS
<1>3. PICK S : S = Debits(c)
  OBVIOUS
<1>4. PICK T : T = Debits(c)'
  OBVIOUS
<1>5. f \in [Requests -> Nat] /\ S \in SUBSET Requests /\ IsFiniteSet(S)
  BY <1>1, <1>3, DebitsType
<1>6. g \in [Requests -> Nat]
  BY <1>2 DEF TypeOK, Request, Amounts
<1>7. T \in SUBSET S /\ \A x \in T : g[x] = f[x]
  BY <1>1, <1>2, <1>3, <1>4, <1>5 DEF Amounts
<1>8. /\ SumFunctionOnSet(g, T) <= SumFunctionOnSet(f, S)
      /\ SumFunctionOnSet(f, S) \in Nat /\ SumFunctionOnSet(g, T) \in Nat
  BY <1>5, <1>6, <1>7, FewerAddUpToLess
<1>9. DebitSum(c) = SumFunctionOnSet(f, S) /\ DebitSum(c)' = SumFunctionOnSet(g, T)
  BY <1>1, <1>2, <1>3, <1>4 DEF DebitSum
<1> QED  BY <1>8, <1>9

(* A step outside the requests that makes no payment live and none pending *)
(* again leaves everything in its limits.                                  *)
LEMMA FitsBesides ==
  ASSUME TypeOK, TypeOK', DebitsFit, UNCHANGED req,
         \A p \in Requests :
           /\ payment[p] \in {"none", "failed"} => payment'[p] \in {"none", "failed"}
           /\ payment'[p] = "pending" => payment[p] = "pending"
           /\ payment[p] = "none" => payment'[p] = "none"
           /\ intent[p] = "none" => intent'[p] = "none"
  PROVE  DebitsFit'
<1>1. IsFiniteSet({p \in Requests : payment'[p] # "none"})
  <2>1. {p \in Requests : payment'[p] # "none"} \in SUBSET {p \in Requests : payment[p] # "none"}
    OBVIOUS
  <2> QED  BY <2>1, FS_Subset DEF DebitsFit
<1>2. ASSUME NEW c \in Charges
      PROVE  DebitSum(c)' <= DebitSum(c) /\ DebitSum(c)' \in Nat /\ DebitSum(c) \in Nat
  <2>1. \A p \in Requests : payment'[p] \in {"pending", "completed"} => payment[p] \in {"pending", "completed"}
    BY DEF TypeOK
  <2>2. Debits(c)' \subseteq Debits(c)
    BY <2>1 DEF Debits, PaymentsOn
  <2>3. \A p \in Debits(c)' : req'[p].amount = req[p].amount
    OBVIOUS
  <2> QED  BY <2>2, <2>3, NoMoreDebits, DebitsType
<1>3. \A c \in Charges : Amount[c] \in Nat /\ DebitSum(c) <= Amount[c]
  BY AmountAssumption DEF DebitsFit
<1>4. \A c \in Charges : DebitSum(c)' <= Amount[c]
  BY <1>2, <1>3
<1>5. ASSUME NEW r \in Requests PROVE RoomFor(r)'
  <2>1. RoomFor(r) /\ req[r].amount \in Nat
    BY DEF DebitsFit, TypeOK, Request
  <2>2. ASSUME NEW c \in Charges, req'[r].charge = c, req'[r].pc = "paid"
        PROVE  PaymentsOn(c, "pending")' = {}
    BY <2>1, <2>2 DEF PaymentsOn, RoomFor
  <2>3. ASSUME NEW c \in Charges, req'[r].charge = c, req'[r].pc \in {"create", "insert"}
        PROVE  DebitSum(c)' + req'[r].amount <= Amount[c]
    <3>1. DebitSum(c) + req[r].amount <= Amount[c]
      BY <2>1, <2>3 DEF RoomFor
    <3>2. req'[r].amount = req[r].amount
      OBVIOUS
    <3> QED  BY <1>2, <1>3, <2>1, <3>1, <3>2
  <2>4. req'[r].pc \in {"pending", "paid"} => req'[r].charge \in Charges /\ req'[r].amount # 0
    BY <2>1 DEF RoomFor
  <2> QED  BY <2>2, <2>3, <2>4 DEF RoomFor
<1> QED  BY <1>1, <1>4, <1>5 DEF DebitsFit

(* Which step a tenant's payment comes to, and from where.                 *)
LEMMA TenantTurn ==
  ASSUME TypeOK, NEW r \in Requests, RequestStep(r), "admin" \notin Features, 0 \notin TenantAmounts
  PROVE  /\ req[r].pc # "done"
         /\ req'[r].pc = "pending" => req'[r].charge \in Charges /\ req'[r].amount # 0
         /\ req'[r].pc = "paid" => TenantCheckPending(r)
         /\ req'[r].pc = "create" => TenantCheckPaid(r) \/ req'[r].charge = NoCharge
         /\ req'[r].pc = "insert" => CreateIntent(r)
<1> USE DEF Steps
<1>0. req \in [Requests -> Request]
  BY DEF TypeOK
<1>1. ASSUME NEW step, NEW c, NEW amount, NEW doomed, Begin(r, step, c, amount, doomed)
      PROVE  req'[r].pc = step /\ req'[r].charge = c /\ req'[r].amount = amount
  BY <1>0, <1>1 DEF Begin
<1>2. ASSUME NEW step \in Steps, Goto(r, step)
      PROVE  req'[r].pc = step
  BY <1>2, GotoShape
<1>3. ASSUME NEW c \in Charges \cup {NoCharge}, NEW a \in TenantAmounts, TenantReadCharge(r, c, a)
      PROVE  /\ req[r].pc = "idle"
             /\ \/ req'[r].pc = "create" /\ req'[r].charge = NoCharge
                \/ req'[r].pc = "pending" /\ req'[r].charge \in Charges /\ req'[r].amount # 0
  BY <1>1, <1>3 DEF TenantReadCharge, MayStart
<1>4. ASSUME NEW c \in Charges \cup {NoCharge}, NEW a \in ManualAmounts, ManualReadCharge(r, c, a)
      PROVE  req[r].pc = "idle" /\ req'[r].pc \in {"manual", "record"}
  BY <1>1, <1>4 DEF ManualReadCharge, MayStart
<1>5. ASSUME (\E c \in Charges : VoidReadCharge(r, c)) \/ SelectUnitCharges(r)
      PROVE  req[r].pc = "idle" /\ req'[r].pc \in {"payments", "sweep"}
  BY <1>1, <1>5 DEF VoidReadCharge, SelectUnitCharges, MayStart
<1>6. CASE TenantCheckPaid(r)
  <2>1. req[r].pc = "paid" /\ req'[r].pc \in {"create", "done"}
    BY <1>1, <1>2, <1>6 DEF TenantCheckPaid
  <2> QED  BY <1>6, <2>1
<1>7. CASE TenantCheckPending(r)
  <2>1. req[r].pc = "pending" /\ req'[r].pc \in {"paid", "done"}
    BY <1>2, <1>7 DEF TenantCheckPending
  <2> QED  BY <1>7, <2>1
<1>8. CASE CreateIntent(r)
  <2>1. req[r].pc = "create" /\ req'[r].pc = "insert"
    BY <1>2, <1>8 DEF CreateIntent
  <2> QED  BY <1>8, <2>1
<1>9. CASE \/ InsertPayment(r) \/ InsertFails(r) \/ CancelIntent(r) \/ ManualCheckPaid(r)
           \/ RecordManual(r) \/ VoidCheckPayments(r) \/ VoidCheckCompleted(r) \/ CommitVoid(r)
           \/ CommitUnitVoid(r) \/ Abort(r)
  <2>1. req[r].pc # "done" /\ req'[r].pc \in {"cancel", "record", "check", "reverse", "done"}
    BY <1>2, <1>9 DEF InsertPayment, InsertFails, CancelIntent, ManualCheckPaid, RecordManual,
         VoidCheckPayments, VoidCheckCompleted, CommitVoid, CommitUnitVoid, Abort, InProgress
  <2> QED  BY <2>1
<1>10. ~\E c \in Charges \cup {NoCharge} : AdminStart(r, c)
  BY DEF AdminStart, MayStart
<1> QED  BY <1>3, <1>4, <1>5, <1>6, <1>7, <1>8, <1>9, <1>10 DEF RequestStep

(* A request touches no payment and no intent but its own.                 *)
LEMMA OwnRow ==
  ASSUME TypeOK, NEW r \in Requests, RequestStep(r)
  PROVE  \A p \in Requests : p # r => payment'[p] = payment[p] /\ intent'[p] = intent[p]
<1>1. \A p \in Requests : p # r => payment'[p] = payment[p]
  BY RequestWrites DEF InsertPayment, RecordManual, Settle, TypeOK
<1>2. \A p \in Requests : p # r => intent'[p] = intent[p]
  <2>1. CASE CreateIntent(r) \/ CancelIntent(r)
    BY <2>1 DEF CreateIntent, CancelIntent, TypeOK
  <2>2. CASE ~(CreateIntent(r) \/ CancelIntent(r))
    <3>1. UNCHANGED intent
      BY <2>2 DEF RequestStep, TenantReadCharge, ManualReadCharge, AdminStart, VoidReadCharge,
         TenantCheckPending, TenantCheckPaid, InsertPayment, InsertFails,
         ManualCheckPaid, VoidCheckPayments, VoidCheckCompleted, CommitVoid, SelectUnitCharges,
         CommitUnitVoid, Abort, RecordManual, stripe
    <3> QED  BY <3>1
  <2> QED  BY <2>1, <2>2
<1> QED  BY <1>1, <1>2

(* A request that goes on leaves every charge debited within its amount.   *)
LEMMA FitsAfterRequest ==
  ASSUME Evidence, TypeOK', DebitsFit, VoidsAreCurrent, NEW r \in Requests, RequestStep(r),
         Serialized = TRUE, "admin" \notin Features, 0 \notin TenantAmounts
  PROVE  DebitsFit'
<1>0. TypeOK
  BY DEF Evidence
<1> USE DEF tables, ledger, stripe
<1>1. /\ \A q \in Requests : q # r => req'[q] = req[q]
      /\ \A q \in Requests : q # r => ~InProgress(q)
  BY <1>0, RequestTurn DEF VoidsAreCurrent
<1>2. /\ req[r].pc # "done"
      /\ req'[r].pc = "pending" => req'[r].charge \in Charges /\ req'[r].amount # 0
      /\ req'[r].pc = "paid" => TenantCheckPending(r)
      /\ req'[r].pc = "create" => TenantCheckPaid(r) \/ req'[r].charge = NoCharge
      /\ req'[r].pc = "insert" => CreateIntent(r)
  BY <1>0, TenantTurn
<1>3. \A p \in Requests : p # r => payment'[p] = payment[p] /\ intent'[p] = intent[p]
  BY <1>0, OwnRow
<1>4. payment[r] = "none"
  BY <1>2 DEF Evidence, RequestsAreFresh
<1>5. IsFiniteSet({p \in Requests : payment'[p] # "none"})
  <2>1. PICK S : S = {p \in Requests : payment[p] # "none"}
    OBVIOUS
  <2>2. IsFiniteSet(S \cup {r})
    BY <2>1, FS_AddElement DEF DebitsFit
  <2>3. {p \in Requests : payment'[p] # "none"} \in SUBSET (S \cup {r})
    BY <1>3, <2>1
  <2> QED  BY <2>2, <2>3, FS_Subset
<1>6. \A c \in Charges : Amount[c] \in Nat /\ DebitSum(c) <= Amount[c] /\ DebitSum(c) \in Nat
  BY <1>0, AmountAssumption, DebitsType DEF DebitsFit
<1>7. RoomFor(r) /\ req[r].amount \in Nat
  BY <1>0 DEF DebitsFit, TypeOK, Request
<1>8. \A q \in Requests : q # r => req'[q].pc \notin {"pending", "paid", "create", "insert"}
  BY <1>1 DEF InProgress
<1>9. ASSUME ~InsertPayment(r), NEW c \in Charges
      PROVE  DebitSum(c)' <= DebitSum(c) /\ DebitSum(c)' \in Nat
  <2>1. r \notin Debits(c)'
    <3>1. CASE RecordManual(r)
      <4>1. intent'[r] = "none"
        BY <3>1 DEF RecordManual, Evidence, RequestsAreFresh
      <4> QED  BY <4>1 DEF Debits
    <3>2. CASE UNCHANGED payment
      BY <1>4, <3>2 DEF Debits, PaymentsOn
    <3> QED  BY <1>9, <3>1, <3>2, RequestWrites
  <2>2. Debits(c)' \subseteq Debits(c)
    BY <1>1, <1>3, <2>1 DEF Debits, PaymentsOn
  <2>3. \A p \in Debits(c)' : req'[p].amount = req[p].amount
    BY <1>1, <2>1 DEF Debits, PaymentsOn
  <2> QED  BY <1>0, <2>2, <2>3, NoMoreDebits
<1>10. CASE InsertPayment(r)
  <2>1. /\ req[r].pc = "insert" /\ req'[r].pc = "done"
        /\ req'[r].charge = req[r].charge /\ req'[r].amount = req[r].amount
        /\ UNCHANGED intent
    BY <1>0, <1>10, GotoShape DEF InsertPayment, Steps
  <2>2. ASSUME NEW c \in Charges PROVE DebitSum(c)' <= Amount[c]
    <3>1. PICK f \in [Requests -> Nat] : f = Amounts
      BY <1>0, DebitsType
    <3>2. PICK g \in [Requests -> Nat] : g = Amounts'
      BY DEF TypeOK, Request, Amounts
    <3>3. PICK S \in SUBSET Requests : S = Debits(c) /\ IsFiniteSet(S)
      BY <1>0, DebitsType
    <3>4. PICK T : T = Debits(c)'
      OBVIOUS
    <3>5. g = f
      BY <1>1, <2>1, <3>1, <3>2 DEF Amounts
    <3>6. DebitSum(c) = SumFunctionOnSet(f, S) /\ DebitSum(c)' = SumFunctionOnSet(g, T)
      BY <3>1, <3>2, <3>3, <3>4 DEF DebitSum
    <3>7. r \notin S
      BY <1>4, <3>3 DEF Debits, PaymentsOn
    <3>8. CASE req[r].charge = c
      <4>1. T \in SUBSET (S \cup {r})
        BY <1>1, <1>3, <3>3, <3>4 DEF Debits, PaymentsOn
      <4>2. SumFunctionOnSet(f, S \cup {r}) = f[r] + SumFunctionOnSet(f, S)
        BY <3>3, <3>7, SumAdded
      <4>3. IsFiniteSet(S \cup {r}) /\ S \cup {r} \in SUBSET Requests
        BY <3>3, FS_AddElement
      <4>4. SumFunctionOnSet(f, T) <= SumFunctionOnSet(f, S \cup {r})
        BY <4>1, <4>3, SumOfPart
      <4>5. f[r] = req[r].amount /\ DebitSum(c) + req[r].amount <= Amount[c]
        BY <1>7, <2>1, <3>1, <3>8 DEF Amounts, RoomFor
      <4>6. SumFunctionOnSet(f, T) \in Nat
        <5>1. IsFiniteSet(T) /\ T \in SUBSET Requests
          BY <4>1, <4>3, FS_Subset
        <5> QED  BY <5>1, SumType
      <4>7. /\ DebitSum(c)' <= f[r] + DebitSum(c) /\ DebitSum(c)' \in Nat
        BY <3>5, <3>6, <4>2, <4>4, <4>6
      <4> QED  BY <1>6, <1>7, <4>5, <4>7
    <3>9. CASE req[r].charge # c
      <4>1. Debits(c)' \subseteq Debits(c)
        BY <1>1, <1>3, <2>1, <3>9 DEF Debits, PaymentsOn
      <4>2. \A p \in Debits(c)' : req'[p].amount = req[p].amount
        BY <1>1, <2>1 DEF Debits, PaymentsOn
      <4>3. DebitSum(c)' <= DebitSum(c) /\ DebitSum(c)' \in Nat
        BY <1>0, <4>1, <4>2, NoMoreDebits
      <4> QED  BY <1>6, <4>3
    <3> QED  BY <3>8, <3>9
  <2>3. \A q \in Requests : req'[q].pc \notin {"pending", "paid", "create", "insert"}
    BY <1>8, <2>1
  <2>4. \A q \in Requests : RoomFor(q)'
    BY <2>3 DEF RoomFor
  <2> QED  BY <1>5, <2>2, <2>4 DEF DebitsFit
<1>11. CASE ~InsertPayment(r)
  <2>1. \A c \in Charges : DebitSum(c)' <= Amount[c]
    BY <1>6, <1>9, <1>11
  <2>2. req'[r].pc \in {"pending", "paid"} => req'[r].charge \in Charges /\ req'[r].amount # 0
    <3>1. TenantCheckPending(r) => /\ req[r].pc = "pending"
                                   /\ req'[r].charge = req[r].charge /\ req'[r].amount = req[r].amount
      BY <1>0, GotoShape DEF TenantCheckPending, Steps
    <3> QED  BY <1>2, <1>7, <3>1 DEF RoomFor
  <2>3. ASSUME NEW c \in Charges, req'[r].charge = c, req'[r].pc = "paid"
        PROVE  PaymentsOn(c, "pending")' = {}
    <3>1. TenantCheckPending(r)
      BY <1>2, <2>3
    <3>2. req'[r].charge = req[r].charge /\ UNCHANGED payment
      BY <1>0, <3>1, GotoShape DEF TenantCheckPending, Steps
    <3>3. PaymentsOn(c, "pending") = {}
      <4>1. Goto(r, "done") => req'[r].pc = "done"
        BY <1>0, GotoShape DEF Steps
      <4> QED  BY <2>3, <3>1, <3>2, <4>1 DEF TenantCheckPending
    <3> QED  BY <1>1, <3>2, <3>3 DEF PaymentsOn
  <2>4. ASSUME NEW c \in Charges, req'[r].charge = c, req'[r].pc = "insert"
        PROVE  DebitSum(c)' + req'[r].amount <= Amount[c]
    <3>1. CreateIntent(r)
      BY <1>2, <2>4
    <3>2. req[r].pc = "create" /\ req'[r].charge = req[r].charge /\ req'[r].amount = req[r].amount
      BY <1>0, <3>1, GotoShape DEF CreateIntent, Steps
    <3>3. DebitSum(c) + req[r].amount <= Amount[c]
      BY <1>7, <2>4, <3>2 DEF RoomFor
    <3> QED  BY <1>6, <1>7, <1>9, <1>11, <3>2, <3>3
  <2>5. ASSUME NEW c \in Charges, req'[r].charge = c, req'[r].pc = "create"
        PROVE  DebitSum(c)' + req'[r].amount <= Amount[c]
    <3>1. TenantCheckPaid(r)
      BY <1>2, <2>5, ChargesAssumption
    <3>2. req[r].pc = "paid" /\ req[r].charge \in Charges /\ req[r].amount # 0
      BY <1>7, <3>1 DEF TenantCheckPaid, RoomFor
    <3>3. /\ TotalPaid(req[r].charge) < Amount[req[r].charge]
          /\ req[r].amount <= Amount[req[r].charge] - TotalPaid(req[r].charge)
          /\ Begin(r, "create", req[r].charge, Debited(req[r].charge, req[r].amount), {})
      <4>1. Goto(r, "done") => req'[r].pc = "done"
        BY <1>0, GotoShape DEF Steps
      <4> QED  BY <2>5, <3>1, <4>1 DEF TenantCheckPaid
    <3>4. req'[r].charge = req[r].charge /\ req'[r].amount = req[r].amount
      BY <1>0, <3>2, <3>3 DEF Begin, Debited, TypeOK
    <3>5. req[r].charge = c
      BY <2>5, <3>4
    <3>6. PaymentsOn(c, "pending") = {}
      BY <1>7, <3>2, <3>5 DEF RoomFor
    <3>7. PICK f \in [Requests -> Nat] : f = Amounts
      BY <1>0, DebitsType
    <3>8. PICK S : S = PaymentsOn(c, "completed")
      OBVIOUS
    <3>9. S \in SUBSET Requests /\ IsFiniteSet(S)
      <4>1. S \in SUBSET {p \in Requests : payment[p] # "none"}
        BY <3>8 DEF PaymentsOn
      <4> QED  BY <4>1, FS_Subset DEF DebitsFit
    <3>10. Debits(c) \in SUBSET S
      BY <3>6, <3>8 DEF Debits
    <3>11. PICK T : T = Debits(c)
      OBVIOUS
    <3>12. SumFunctionOnSet(f, T) <= SumFunctionOnSet(f, S) /\ SumFunctionOnSet(f, S) \in Nat
      BY <3>9, <3>10, <3>11, SumOfPart, SumType
    <3>13. DebitSum(c) = SumFunctionOnSet(f, T) /\ TotalPaid(c) = SumFunctionOnSet(f, S)
      BY <3>7, <3>8, <3>11 DEF DebitSum, TotalPaid, Amounts
    <3>14. DebitSum(c) <= TotalPaid(c) /\ TotalPaid(c) \in Nat
      BY <3>12, <3>13
    <3>15. req[r].amount <= Amount[c] - TotalPaid(c)
      BY <3>3, <3>5
    <3>16. DebitSum(c)' <= DebitSum(c) /\ DebitSum(c)' \in Nat
      BY <1>9, <1>11
    <3> QED  BY <1>6, <1>7, <3>4, <3>14, <3>15, <3>16
  <2>6. RoomFor(r)'
    BY <2>2, <2>3, <2>4, <2>5 DEF RoomFor
  <2>7. \A q \in Requests : q # r => RoomFor(q)'
    BY <1>8 DEF RoomFor
  <2> QED  BY <1>5, <2>1, <2>6, <2>7 DEF DebitsFit
<1> QED  BY <1>10, <1>11

LEMMA FitsStep ==
  ASSUME Evidence, TypeOK', FailureIsFinal, DebitsFit, VoidsAreCurrent, [Next]_vars,
         Serialized = TRUE, "admin" \notin Features, 0 \notin TenantAmounts
  PROVE  DebitsFit'
<1> USE DEF tables, ledger, stripe
<1>0. TypeOK
  BY DEF Evidence
<1>1. ASSUME UNCHANGED <<req, payment>>,
             \A p \in Requests : intent[p] = "none" => intent'[p] = "none"
      PROVE  DebitsFit'
  BY <1>0, <1>1, FitsBesides
<1>2. ASSUME UNCHANGED <<req, intent>>, NEW p \in Requests, intent[p] = "succeeded",
             payment[p] # "none", Settle(p)
      PROVE  DebitsFit'
  <2>1. payment[p] \notin {"none", "failed"}
    BY <1>2 DEF FailureIsFinal
  <2>2. payment'[p] = "completed" /\ \A q \in Requests : q # p => payment'[q] = payment[q]
    BY <1>0, <1>2 DEF Settle, TypeOK
  <2> QED  BY <1>0, <1>2, <2>1, <2>2, FitsBesides
<1>3. ASSUME UNCHANGED <<req, intent>>, NEW p \in Requests, payment[p] # "none",
             payment' = [payment EXCEPT ![p] = "failed"]
      PROVE  DebitsFit'
  <2>1. payment'[p] = "failed" /\ \A q \in Requests : q # p => payment'[q] = payment[q]
    BY <1>0, <1>3 DEF TypeOK
  <2> QED  BY <1>0, <1>3, <2>1, FitsBesides
<1>4. ASSUME NEW C \in SUBSET Charges, PostCharges(C) PROVE DebitsFit'
  BY <1>1, <1>4 DEF PostCharges
<1>5. ASSUME NEW r \in Requests, RequestStep(r) PROVE DebitsFit'
  BY <1>5, FitsAfterRequest
<1>6. ASSUME NEW p \in Requests, StripeStep(p) PROVE DebitsFit'
  <2>1. /\ intent[p] # "none" /\ UNCHANGED <<req, payment>>
        /\ \A q \in Requests : q # p => intent'[q] = intent[q]
    BY <1>0, <1>6 DEF StripeStep, IntentSucceeds, IntentFails, IntentReconfirmed, MaySettle, TypeOK
  <2> QED  BY <1>1, <2>1
<1>7. ASSUME NEW h \in Hooks, HookStep(h) PROVE DebitsFit'
  <2>1. ASSUME NEW p \in Requests, CommitSucceeded(h, p) PROVE DebitsFit'
    <3>1. intent[p] = "succeeded" /\ payment[p] # "none"
      <4>1. <<"succeeded", p>> \in Events
        BY DEF Events
      <4> QED  BY <2>1, <4>1 DEF CommitSucceeded, Evidence, SuccessIsTrue, HandlersHaveRows
    <3>2. Settle(p) /\ UNCHANGED <<intent, req>>
      BY <2>1 DEF CommitSucceeded
    <3> QED  BY <1>2, <3>1, <3>2
  <2>2. ASSUME NEW p \in Requests, CommitFailed(h, p) PROVE DebitsFit'
    <3>1. payment[p] # "none"
      <4>1. <<"failed", p>> \in Events
        BY DEF Events
      <4> QED  BY <2>2, <4>1 DEF CommitFailed, Evidence, HandlersHaveRows
    <3> QED  BY <1>3, <2>2, <3>1 DEF CommitFailed
  <2> QED  BY <1>1, <1>7, <2>1, <2>2 DEF HookStep, Deliver, DeliverInVain, HandlerFails
<1>8. CASE ReconStep
  <2>1. ASSUME NEW p \in Requests, ReconComplete(p) PROVE DebitsFit'
    <3>1. intent[p] = "succeeded" /\ payment[p] # "none"
      BY <2>1 DEF ReconComplete, Evidence, SuccessIsTrue, HandlersHaveRows
    <3>2. Settle(p) /\ UNCHANGED <<intent, req>>
      BY <2>1 DEF ReconComplete
    <3> QED  BY <1>2, <3>1, <3>2
  <2>2. ASSUME NEW p \in Requests, ReconFail(p) PROVE DebitsFit'
    <3>1. payment[p] # "none"
      BY <2>2 DEF ReconFail, Evidence, HandlersHaveRows
    <3> QED  BY <1>3, <2>2, <3>1 DEF ReconFail
  <2> QED  BY <1>1, <1>8, <2>1, <2>2 DEF ReconStep, ReconSelect, ReconRetrieve, ReconError
<1>9. CASE UNCHANGED vars
  BY <1>1, <1>9 DEF vars
<1> QED  BY <1>4, <1>5, <1>6, <1>7, <1>8, <1>9 DEF Next

(* With requests one at a time, the debits of a charge that were completed *)
(* and the one in flight add up to no more than its amount                 *)
(* (NeverOverdebited), over any series of part payments and failures, and  *)
(* however handlers and the script interleave.  A tenant who omits the     *)
(* amount is debited the whole charge again, the admin's payment looks at  *)
(* nothing, and an intent that failed may be confirmed again: with any of  *)
(* them it does not hold.                                                  *)
THEOREM DebitsStayWithin ==
  ASSUME Serialized = TRUE, {"admin", "reconfirm"} \cap Features = {}, 0 \notin TenantAmounts
  PROVE  Spec => []NeverOverdebited
<1>0. "admin" \notin Features /\ "reconfirm" \notin Features
  OBVIOUS
<1>1. Init => FailureIsFinal /\ VoidsAreCurrent
  BY DEF Init, FailureIsFinal, VoidsAreCurrent, InProgress, Events, NoEvent
<1>2. Init => DebitsFit
  <2> SUFFICES ASSUME Init PROVE DebitsFit
    OBVIOUS
  <2>1. {p \in Requests : payment[p] # "none"} = {}
    BY DEF Init
  <2>2. \A c \in Charges : Debits(c) = {}
    BY DEF Init, Debits, PaymentsOn
  <2>3. \A c \in Charges : DebitSum(c) = 0
    BY <2>2, SumPicked, FS_EmptySet DEF DebitSum
  <2>4. \A c \in Charges : DebitSum(c) <= Amount[c]
    BY <2>3, AmountAssumption
  <2>5. \A r \in Requests : RoomFor(r)
    BY DEF Init, RoomFor
  <2> QED  BY <2>1, <2>4, <2>5, FS_EmptySet DEF DebitsFit
<1>3. Evidence /\ FailureIsFinal /\ [Next]_vars => FailureIsFinal'
  BY <1>0, FinalStep
<1>4. Evidence /\ VoidsAreCurrent /\ [Next]_vars => VoidsAreCurrent'
  BY VoidsStep
<1>5. Evidence /\ TypeOK' /\ FailureIsFinal /\ VoidsAreCurrent /\ DebitsFit /\ [Next]_vars => DebitsFit'
  BY <1>0, FitsStep
<1>6. DebitsFit => NeverOverdebited
  BY DEF DebitsFit, NeverOverdebited, DebitSum, Amounts, Debits
<1>7. Evidence => TypeOK
  BY DEF Evidence
<1> QED
  BY <1>1, <1>2, <1>3, <1>4, <1>5, <1>6, <1>7, EvidenceInit, EvidenceStep, PTL DEF Spec
=============================================================================
