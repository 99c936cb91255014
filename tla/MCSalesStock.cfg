SPECIFICATION Spec
CONSTANTS
    s1 = s1
    s2 = s2
    l1 = l1
    l2 = l2
    i1 = i1
    o1 = o1
    o2 = o2
    Items = {i1}
    Lots = {1, 2}
    Orders = {o1}
    LineIds = {l1, l2}
    LineItem <- MCLineItem
    Sessions = {s1, s2}
    LineQty = {1, 2}
    MoveQty = {2}
    MaxMoves = 3
SYMMETRY Symmetry
INVARIANTS
    TypeOK
    LotNonNegative
    LotMatchesLedger
    ReleasePostsLines
PROPERTIES
    FefoFollowed
    SoldFromStock
CHECK_DEADLOCK FALSE
