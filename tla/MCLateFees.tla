------------------------------ MODULE MCLateFees ------------------------------
(* LateFees on small instances.                                            *)
EXTENDS LateFees, TLC

CONSTANTS c1, c2, l1, i1, i2

TwoCharges == {c1, c2}
OneLease   == {l1}
SameLease  == [c \in TwoCharges |-> l1]
Two        == {i1, i2}
NoOrOneDay == {0, 1}
EastOrWest == {-1, 0}
===============================================================================
