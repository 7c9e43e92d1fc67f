--------------------------------- MODULE Panes ---------------------------------
(***************************************************************************)
(* The panes in which one row is worked on: the drawers of a charge and of *)
(* a maintenance request, the tenant's payment dialog, the threads of the  *)
(* messages and of the supervisor, and the dialog for a new message.  Each *)
(* keeps fields, a request under way and what it said last, and each has   *)
(* its own answer to what becomes of them when the pane is closed or shows *)
(* another row while the request is still out.                             *)
(*                                                                         *)
(* A behaviour is about one pane.  What is typed is a number: the row it   *)
(* was typed for is all that is known of it.  A charge is paid not at all, *)
(* in part or in full.                                                     *)
(***************************************************************************)
EXTENDS Naturals, Sequences, FiniteSets

CONSTANTS
  Subjects,     \* charges, requests, tenants or conversations
  NoOne,        \* none of them
  Sends,        \* bound: requests under way
  MaxTexts,     \* bound: texts
  MaxElsewhere  \* bound: changes by other people

ASSUME PaneBounds == MaxTexts \in Nat /\ MaxElsewhere \in Nat
ASSUME NoOneIsNoSubject == NoOne \notin Subjects \cup Sends

VARIABLES
  kind,      \* which pane
  pane,      \* its state
  rows,      \* the charges of the server
  listed,    \* the charges as the page has listed them
  out,       \* requests on their way and their answers
  typedFor,  \* the row each text was typed for
  written,   \* the texts the server took, each with the row it went to
  harm,      \* whether an answer reached what it was not about
  elsewhere  \* changes by other people

paneVars == <<kind, pane, rows, listed, out, typedFor, written, harm, elsewhere>>

(* Three forms of a charge's drawer and the dialog that pays one; the form *)
(* and the cancel button of a maintenance request; threads; a new message. *)
OfCharges == {"record", "edit", "void", "pay"}
PaneKinds == OfCharges \cup {"details", "withdraw", "thread", "override", "compose"}

(* Those that are made anew, or reset, for each row they show.             *)
Afresh == {"record", "edit", "pay", "compose"}

(* Those that cover the page: another row is chosen only once it is shut.  *)
Modal == PaneKinds \ {"thread", "override"}

ChargeRow == [paid : {"none", "part", "all"}, pending : BOOLEAN, voided : BOOLEAN]

(* "text" 0 is no text; "waits" is the request the pane heeds.             *)
PaneState == [at : Subjects \cup {NoOne}, editing : BOOLEAN, text : 0 .. MaxTexts,
              said : BOOLEAN, failed : Subjects \cup {NoOne}, waits : Sends \cup {NoOne}]

Shut == [at |-> NoOne, editing |-> FALSE, text |-> 0, said |-> FALSE, failed |-> NoOne, waits |-> NoOne]

(* "left": the pane was shut, or showed another row, after it was sent.    *)
Outgoing == [to : Subjects, text : 0 .. MaxTexts, answer : {"none", "yes", "no"}, left : BOOLEAN]

PaneTypeOK ==
  /\ kind      \in PaneKinds
  /\ pane      \in PaneState
  /\ {rows, listed} \subseteq [Subjects -> ChargeRow]
  /\ out       \in [Sends -> Outgoing \cup {NoOne}]
  /\ typedFor  \in Seq(Subjects)
  /\ written   \subseteq (0 .. MaxTexts) \X Subjects
  /\ harm      \in BOOLEAN
  /\ elsewhere \in 0 .. MaxElsewhere

Unpaid == [paid |-> "none", pending |-> FALSE, voided |-> FALSE]

PaneInit ==
  /\ kind \in PaneKinds
  /\ pane = Shut
  /\ rows = [s \in Subjects |-> Unpaid] /\ listed = rows
  /\ out = [q \in Sends |-> NoOne]
  /\ typedFor = <<>> /\ written = {} /\ harm = FALSE /\ elsewhere = 0

----------------------------------------------------------------------------
(* Charges.                                                                *)

Status(row) ==
  CASE row.voided                            -> "voided"
    [] ~row.voided /\ row.paid = "all"       -> "paid"
    [] ~row.voided /\ row.paid = "part"      -> "partial"
    [] OTHER -> IF row.pending THEN "pending" ELSE "unpaid"

(* What the page offers for a charge it has listed.                        *)
Offered(row) ==
  CASE kind = "record" -> Status(row) \in {"unpaid", "partial", "pending"}
    [] kind = "edit"   -> Status(row) \notin {"voided", "paid"}
    [] kind = "void"   -> Status(row) \notin {"voided", "paid", "partial"}
    [] kind = "pay"    -> Status(row) \in {"unpaid", "partial"} /\ ~row.pending
    [] OTHER           -> TRUE

(* What the server takes, and the charge after it.                         *)
Takes(row) ==
  /\ ~row.voided
  /\ kind \in {"record", "pay"} => row.paid # "all"
  /\ kind \in {"void", "pay"}   => ~row.pending
  /\ kind = "void"              => row.paid = "none"

Paying(row)  == {[row EXCEPT !.paid = part] : part \in {"part", "all"}}
Voiding(row) == {[row EXCEPT !.voided = TRUE] : w \in {row.paid} \cap {"none"}}

Taken(row) ==
  CASE kind = "record" -> Paying(row)
    [] kind = "void"   -> Voiding(row)
    [] kind = "pay"    -> {[row EXCEPT !.pending = TRUE]}
    [] OTHER           -> {row}

(* A payment or a void by somebody else, the end of a debit.               *)
Elsewhere ==
  /\ kind \in OfCharges /\ elsewhere < MaxElsewhere
  /\ \E s \in Subjects : \E row \in ChargeRow :
       /\ ~rows[s].voided /\ row # rows[s]
       /\ IF rows[s].pending
            THEN row \in {[r EXCEPT !.pending = FALSE] : r \in {rows[s]} \cup Paying(rows[s])}
            ELSE /\ rows[s].paid # "all"
                 /\ row \in Paying(rows[s]) \cup Voiding(rows[s]) \cup {[rows[s] EXCEPT !.pending = TRUE]}
       /\ rows' = [rows EXCEPT ![s] = row]
  /\ elsewhere' = elsewhere + 1
  /\ UNCHANGED <<kind, pane, listed, out, typedFor, written, harm>>

Relist ==
  /\ listed # rows
  /\ listed' = rows
  /\ UNCHANGED <<kind, pane, rows, out, typedFor, written, harm, elsewhere>>

----------------------------------------------------------------------------
(* Opening and shutting.                                                   *)

(* The forms of a charge start with what is left of it, or its fields; the *)
(* dialog that pays one resets what it said and forgets its request.       *)
Seeded == {"record", "edit", "pay"}

TypedFor(s) == Len(typedFor) < MaxTexts /\ typedFor' = Append(typedFor, s)

OpenedInitiated(s, text) ==
  IF kind \in Seeded THEN [Shut EXCEPT !.at = s, !.text = text, !.said = pane.said] ELSE [pane EXCEPT !.at = s]

Opened(s, text) ==
  IF kind \in Seeded THEN [Shut EXCEPT !.at = s, !.text = text] ELSE [pane EXCEPT !.at = s]

Unheard == [q \in Sends |-> IF out[q] = NoOne THEN NoOne ELSE [out[q] EXCEPT !.left = TRUE]]

Select(s) ==
  /\ s # pane.at /\ (kind \in Modal => pane.at = NoOne)
  /\ kind \in OfCharges => Offered(listed[s])
  /\ IF kind \in Seeded THEN TypedFor(s) ELSE UNCHANGED typedFor
  /\ pane' = Opened(s, Len(typedFor'))
  /\ out' = Unheard
  /\ UNCHANGED <<kind, rows, listed, written, harm, elsewhere>>

(* A component that goes away loses everything; the dialog for a message   *)
(* empties its form and forgets its request.  The rest stays mounted: the  *)
(* drawer of a charge drops its question, the other two keep all they had. *)
ClosedHeeding ==
  CASE kind \in {"record", "edit", "thread", "override"} -> Shut
    [] kind = "compose" -> [Shut EXCEPT !.waits = pane.waits]
    [] OTHER -> [pane EXCEPT !.at = NoOne, !.editing = @ /\ kind # "void"]

Closed ==
  CASE kind \in {"record", "edit", "thread", "override", "compose"} -> Shut
    [] kind = "void" -> [pane EXCEPT !.at = NoOne, !.editing = FALSE]
    [] OTHER         -> [pane EXCEPT !.at = NoOne]

Close ==
  /\ pane.at # NoOne
  /\ pane' = Closed
  /\ out' = Unheard
  /\ UNCHANGED <<kind, rows, listed, typedFor, written, harm, elsewhere>>

----------------------------------------------------------------------------
(* Working in it.                                                          *)

(* The request's fields are loaded when editing starts, not before.        *)
StartEditing ==
  /\ kind \in {"details", "void"} /\ pane.at # NoOne /\ ~pane.editing
  /\ IF kind = "details" THEN TypedFor(pane.at) ELSE UNCHANGED typedFor
  /\ pane' = [pane EXCEPT !.editing = TRUE, !.text = IF kind = "details" THEN Len(typedFor') ELSE 0]
  /\ UNCHANGED <<kind, rows, listed, out, written, harm, elsewhere>>

StopEditing ==
  /\ pane.editing /\ pane.at # NoOne
  /\ kind = "void" => pane.waits = NoOne
  /\ pane' = [pane EXCEPT !.editing = FALSE]
  /\ UNCHANGED <<kind, rows, listed, out, typedFor, written, harm, elsewhere>>

(* The fields of a thread are locked while it sends; the others are not.   *)
Type ==
  /\ pane.at # NoOne /\ ~pane.said /\ kind \notin {"void", "withdraw"}
  /\ kind = "details" => pane.editing
  /\ kind \in {"thread", "override"} => pane.waits = NoOne
  /\ TypedFor(pane.at)
  /\ pane' = [pane EXCEPT !.text = Len(typedFor')]
  /\ UNCHANGED <<kind, rows, listed, out, written, harm, elsewhere>>

Submit(q) ==
  /\ pane.at # NoOne /\ pane.waits = NoOne /\ ~pane.said /\ out[q] = NoOne
  /\ kind \in {"void", "withdraw"} \/ pane.text # 0
  /\ kind \in {"void", "details"} => pane.editing
  /\ out' = [out EXCEPT ![q] = [to |-> pane.at, text |-> pane.text, answer |-> "none", left |-> FALSE]]
  /\ pane' = [pane EXCEPT !.waits = q, !.failed = NoOne]
  /\ UNCHANGED <<kind, rows, listed, typedFor, written, harm, elsewhere>>

(* The server takes it, and the answer may be lost; or it refuses, or      *)
(* never hears of it.                                                      *)
Serve(q) ==
  /\ out[q] # NoOne /\ out[q].answer = "none"
  /\ \E answer \in {"yes", "no"} : out' = [out EXCEPT ![q].answer = answer]
  /\ \/ /\ kind \in OfCharges => Takes(rows[out[q].to])
        /\ \E row \in Taken(rows[out[q].to]) : rows' = [rows EXCEPT ![out[q].to] = row]
        /\ written' = written \cup {<<out[q].text, out[q].to>>}
     \/ out'[q].answer = "no" /\ UNCHANGED <<rows, written>>
  /\ UNCHANGED <<kind, pane, listed, typedFor, harm, elsewhere>>

Succeeded ==
  LET done == [pane EXCEPT !.waits = NoOne]
  IN CASE kind \in {"record", "edit", "compose"} -> Shut
       [] kind \in {"void", "withdraw"} -> [done EXCEPT !.at = NoOne, !.editing = FALSE]
       [] kind = "details"              -> [done EXCEPT !.editing = FALSE]
       [] kind = "pay"                  -> [done EXCEPT !.said = TRUE]
       [] OTHER                         -> [done EXCEPT !.text = 0]

(* The buttons of void, details and withdraw say nothing of a failure.     *)
Failed(q) ==
  [pane EXCEPT !.waits = NoOne,
               !.failed = IF kind \in {"void", "details", "withdraw"} THEN NoOne ELSE out[q].to]

(* Whether the pane, by now on something else, loses more than what it sent. *)
Disturbs(q) ==
  LET done == [pane EXCEPT !.waits = NoOne]
  IN /\ out[q].left /\ pane.at # NoOne
     /\ Succeeded # done
     /\ ~(pane.text = out[q].text /\ Succeeded = [done EXCEPT !.text = 0])

HearAnswer(q) ==
  /\ out[q] # NoOne /\ out[q].answer # "none"
  /\ out' = [out EXCEPT ![q] = NoOne]
  /\ IF pane.waits # q                THEN UNCHANGED <<pane, harm>>
     ELSE IF out[q].answer = "no"     THEN pane' = Failed(q) /\ UNCHANGED harm
     ELSE pane' = Succeeded /\ harm' = (harm \/ Disturbs(q))
  /\ UNCHANGED <<kind, rows, listed, typedFor, written, elsewhere>>

PaneNext ==
  \/ \E s \in Subjects : Select(s)
  \/ Close \/ StartEditing \/ StopEditing \/ Type
  \/ \E q \in Sends : Submit(q) \/ Serve(q) \/ HearAnswer(q)
  \/ Elsewhere \/ Relist

----------------------------------------------------------------------------
(* A pane that starts afresh for its row has nothing left over from the    *)
(* one before: its fields, the failure it reports and the payment it calls *)
(* initiated are about the row it shows, and what the server took was      *)
(* typed for the row it went to.                                           *)
NothingLeftOver ==
  kind \in Afresh =>
    /\ \A w \in written : w[1] # 0 => typedFor[w[1]] = w[2]
    /\ pane.at # NoOne =>
         /\ pane.text # 0 => typedFor[pane.text] = pane.at
         /\ pane.failed \in {pane.at, NoOne}
         /\ pane.said => \E t \in 1 .. MaxTexts : <<t, pane.at>> \in written

(* The answer to a request sent before the pane was shut, or given another *)
(* row, does not shut it, end its editing, congratulate or clear anything  *)
(* but the text that was sent.  Voids, withdrawals and the details of a    *)
(* request are not so careful.                                             *)
LateAnswersPass == kind \in Afresh \cup {"thread", "override"} => ~harm
===============================================================================
