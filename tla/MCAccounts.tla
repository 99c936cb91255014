----------------------------- MODULE MCAccounts ------------------------------
(* Model checking Accounts: an invited user, another user, an operator. *)
EXTENDS Accounts, TLC

CONSTANTS u1, u2, o1, j1, j2, j3, j4, c1, c2, i1, i2, t1, t2, none, saved

Symmetry == Permutations(Calls) \cup Permutations(Tabs)
=============================================================================
