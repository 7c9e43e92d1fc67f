------------------------------- MODULE MCUpkeep -------------------------------
(* Upkeep on small instances.                                              *)
EXTENDS Upkeep, TLC

CONSTANTS n1, n2, i1, i2, x1, x2

(* The jobs share no behaviour with files and handlers, so these may share *)
(* their values: one permutation then serves both.                         *)
TwoNotes     == {n1, n2}
TwoInstances == {i1, i2}
TwoSubjects  == {x1, x2}
TwoFiles     == {x1, x2}
TwoDesks     == {i1, i2}
JustEmail    == {"email"}

(* Due tomorrow and the day after; a lease that ends in both bands and one *)
(* that is in the first band only.                                         *)
TwoDays == {1, 2}
TwoEnds == {60, 62}

Symmetry == Permutations(TwoNotes) \cup Permutations(TwoInstances)
            \cup Permutations(TwoSubjects)
===============================================================================
