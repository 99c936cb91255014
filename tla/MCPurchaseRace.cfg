SPECIFICATION Spec
CONSTANTS
    s1 = s1
    s2 = s2
    l1 = l1
    l2 = l2
    Sessions = {s1, s2}
    LineIds = {l1}
    Orders = {o1}
    MaxQty <- MCOneLine
    MaxPolicies = 0
    PolicyDef <- MCNoPolicies
SYMMETRY Symmetry
INVARIANTS
    NoOverReceipt
