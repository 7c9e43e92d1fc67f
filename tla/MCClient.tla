------------------------------- MODULE MCClient -------------------------------
(* Client on small instances.                                              *)
EXTENDS Client, TLC

CONSTANTS u1, u2, k1, k2, l1, b1, m1

(* A behaviour is about one topic, so the topics may share their values:   *)
(* one permutation then serves them all.                                   *)
TwoUsers == {u1, u2}
TwoPages == {u1, u2}
TwoRows  == {u1, u2}
TwoCalls == {k1, k2}
TwoSends == {k1, k2}
OneLease == {l1}
OneBill  == {b1}
OneMoney == {m1}

(* Months of three days, the first of them on day 0; due days go up to the *)
(* second.  A lease from the last day of month 1 into month 2, due on the  *)
(* second of month 2 and without extras, then extended by a day: the edit  *)
(* page asks for months 1 and 2.                                           *)
FromDay5    == {5}
ToDay7      == {7}
ToDay8      == {8}
DueDayTwo   == {2}
NoExtras    == {{}}

(* A bill of two and a payment of one or two, on two days; a period from   *)
(* the second day, up to the first, or of all days.                        *)
Two     == {2}
OneTwo  == {1, 2}
FromTwo == {NoRow, 2}
ToOne   == {NoRow, 1}

Symmetry == Permutations(TwoUsers) \cup Permutations(TwoCalls)
===============================================================================
