----------------------------- MODULE MCOccupancy ------------------------------
(* Occupancy on small instances.                                           *)
EXTENDS Occupancy, TLC

CONSTANTS p1, u1, u2, l1, l2, s1, s2

OneProperty == {p1}
TwoUnits    == {u1, u2}
TwoLeases   == {l1, l2}
TwoSlots    == {s1, s2}

Symmetry == Permutations(TwoUnits) \cup Permutations(TwoLeases) \cup Permutations(TwoSlots)
===============================================================================
