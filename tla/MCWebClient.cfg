CONSTANTS
    c1 = c1
    c2 = c2
    Calls <- MCCalls
    First = c1
    Busy <- MCBusy
    MaxSignIns = 3
SPECIFICATION Spec
INVARIANTS TypeOK ShownNotBehind MenuOfAccount
PROPERTY ActedOnSight
CHECK_DEADLOCK FALSE
