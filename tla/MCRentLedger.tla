----------------------------- MODULE MCRentLedger -----------------------------
(* RentLedger on small instances.                                          *)
EXTENDS RentLedger, TLC

CONSTANTS c1, c2, r1, r2, r3, h1, h2

OneCharge   == {c1}
OneRequest  == {r1}
TwoRequests == {r1, r2}
Requests3   == {r1, r2, r3}
OneHook     == {h1}
TwoHooks    == {h1, h2}

TwoEach == [c \in Charges |-> 2]

(* A part payment, the whole charge, and an omitted amount.                *)
ExplicitAmounts == {1, 2}
JustPart == {1}
JustAll  == {0}
Full     == {2}

AllFeatures == {"tenant", "admin", "manual", "void", "voidUnit", "reconfirm",
                "earlySettlement", "reconcile"}
NoReconcile == AllFeatures \ {"reconcile"}
OrderedNoRecon  == {"tenant", "manual", "void", "earlySettlement"}
TenantOnly      == {"tenant", "earlySettlement"}

Symmetric == Permutations(Charges) \cup Permutations(Requests) \cup Permutations(Hooks)
=============================================================================
