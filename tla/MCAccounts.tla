------------------------------ MODULE MCAccounts ------------------------------
(* Accounts on a small instance.                                           *)
EXTENDS Accounts, TLC

CONSTANTS u1, u2, e1, i1, l1, r1, r2

TwoUsers    == {u1, u2}
OneEmail    == {e1}
OneInvite   == {i1}
OneLink     == {l1}
TwoRequests == {r1, r2}

Names == Permutations(TwoUsers) \cup Permutations(TwoRequests)
===============================================================================
