---------------------------- MODULE MCSalesStock ----------------------------
(* Model checking SalesStock: two requests, one item, two lots, one order   *)
(* of up to two lines.                                                      *)
EXTENDS SalesStock, TLC

CONSTANTS s1, s2, l1, l2, i1, o1, o2

MCLineItem == [l \in LineIds |-> i1]

Symmetry == Permutations(Sessions) \cup Permutations(LineIds) \cup Permutations(Orders)
=============================================================================
