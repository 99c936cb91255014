--------------------------- MODULE InvoiceRegister ---------------------------
(***************************************************************************)
(* What importing invoices promises: a number is registered once, with all *)
(* its lines, and never altered; a row counts as imported only when its    *)
(* number is registered.                                                   *)
(***************************************************************************)
CONSTANTS Numbers, RowNumber    \* the number each row of a file belongs to

VARIABLES invoices, imported

Rows == DOMAIN RowNumber
OfNumber(m) == {r \in Rows : RowNumber[r] = m}

Init == invoices = [m \in Numbers |-> {}] /\ imported = {}

Register(m) ==
    /\ invoices[m] = {}
    /\ invoices'[m] # {} /\ invoices'[m] \subseteq OfNumber(m)
    /\ invoices' = [invoices EXCEPT ![m] = invoices'[m]]
    /\ imported \subseteq imported'
    /\ imported' \ imported \subseteq OfNumber(m)

Acknowledge(m) ==
    /\ invoices[m] # {}
    /\ imported \subseteq imported'
    /\ imported' \ imported \subseteq OfNumber(m)
    /\ UNCHANGED invoices

(* The rows of a file are read anew.                                        *)
Forget == imported' \subseteq imported /\ UNCHANGED invoices

Next == (\E m \in Numbers : Register(m) \/ Acknowledge(m)) \/ Forget

Spec == Init /\ [][Next]_<<invoices, imported>>
=============================================================================
