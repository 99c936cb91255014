-------------------------- MODULE MCReconciliation --------------------------
(* Model checking Reconciliation: a transaction with an exact match and a   *)
(* fuzzy one, whose amount a later report corrects.                         *)
EXTENDS Reconciliation

Version(amount) == [amount |-> amount, at |-> 4, type |-> "PIX", doc |-> "d1",
                    endToEnd |-> "e1"]

MCVersions == [t \in Txns |-> {Version(1000), Version(1001)}]

(* e1 matches 1000 exactly; e2, half a day before midnight and without a    *)
(* document, scores as high in the fuzzy match and comes first; e3 is of a  *)
(* supplier, so its sign is wrong.                                          *)
MCEntries == <<
    [id |-> "e2", customer |-> TRUE, open |-> 1000, due |-> 3, doc |-> NoRef],
    [id |-> "e1", customer |-> TRUE, open |-> 1000, due |-> 5, doc |-> "d1"],
    [id |-> "e3", customer |-> FALSE, open |-> 1000, due |-> 4, doc |-> "d1"]>>
=============================================================================
