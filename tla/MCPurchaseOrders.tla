-------------------------- MODULE MCPurchaseOrders --------------------------
(* Model checking PurchaseOrders: two requests at a time on one order of    *)
(* one or two lines, with an old two-step policy for small amounts and a    *)
(* newer one-step policy for larger ones.                                   *)
EXTENDS PurchaseOrders, TLC

CONSTANTS s1, s2, l1, l2

MCMaxQty == l1 :> 1 @@ l2 :> 1

MCPolicyDef ==
    1 :> [scope |-> Orders, min |-> 0, max |-> 2, steps |-> 2] @@
    2 :> [scope |-> Orders, min |-> 2, max |-> 9, steps |-> 1]

(* For the race of two receipts: one line, no policy. *)
MCOneLine == l1 :> 1
MCNoPolicies == [p \in {} |-> p]

Symmetry == Permutations(Sessions) \cup Permutations(LineIds)
=============================================================================
