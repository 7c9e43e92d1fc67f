---------------------------- MODULE MCIntegrations ----------------------------
(* Integrations and Wallets on small instances.                            *)
EXTENDS Wallets, TLC

CONSTANTS o1, o2, x1, x2, s1, s2

AllKinds   == Services \cup {"card", "units"}
TwoObjects == {o1, o2}
TwoSubs    == {x1, x2}
TwoSlots   == {s1, s2}
OneBank    == {x1}

Symmetry == Permutations(TwoObjects) \cup Permutations(TwoSlots)
===============================================================================
