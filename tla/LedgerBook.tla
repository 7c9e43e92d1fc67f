------------------------------ MODULE LedgerBook ------------------------------
(***************************************************************************)
(* What the ledger of a lease promises, whoever writes to it: entries are  *)
(* only ever added, a charge is billed once, a billed charge is reversed   *)
(* at most once, and a payment is credited at most once.                   *)
(***************************************************************************)
EXTENDS Naturals

CONSTANTS Charges, Payments

VARIABLES billed, reversed, credited   \* number of entries of each kind

bookVars == <<billed, reversed, credited>>

Init ==
  /\ billed   = [c \in Charges |-> 0]
  /\ reversed = [c \in Charges |-> 0]
  /\ credited = [p \in Payments |-> 0]

AddTo(book, S) == [x \in DOMAIN book |-> IF x \in S THEN book[x] + 1 ELSE book[x]]

Bill(C) ==
  /\ \A c \in C : billed[c] = 0
  /\ billed' = AddTo(billed, C)
  /\ UNCHANGED <<reversed, credited>>

Undo(C) ==
  /\ \A c \in C : billed[c] = 1 /\ reversed[c] = 0
  /\ reversed' = AddTo(reversed, C)
  /\ UNCHANGED <<billed, credited>>

Credit(p) ==
  /\ credited[p] = 0
  /\ credited' = AddTo(credited, {p})
  /\ UNCHANGED <<billed, reversed>>

Next ==
  \/ \E C \in SUBSET Charges : Bill(C) \/ Undo(C)
  \/ \E p \in Payments : Credit(p)

Spec == Init /\ [][Next]_bookVars

=============================================================================
