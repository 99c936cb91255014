SPECIFICATION Spec
CONSTANTS
    s1 = s1
    s2 = s2
    l1 = l1
    l2 = l2
    Sessions = {s1, s2}
    LineIds = {l1, l2}
    Orders = {o1}
    MaxQty <- MCMaxQty
    MaxPolicies = 2
    PolicyDef <- MCPolicyDef
SYMMETRY Symmetry
INVARIANTS
    TypeOK
    InstanceAgrees
    ApprovalEarned
    ReceiptAgrees
    TotalAgrees
    ColumnNeverAhead
PROPERTIES
    LifecycleFollowed
