SPECIFICATION Spec
CONSTANTS
    u1 = u1
    u2 = u2
    o1 = o1
    j1 = j1
    j2 = j2
    j3 = j3
    j4 = j4
    c1 = c1
    c2 = c2
    i1 = i1
    i2 = i2
    none = none
    t1 = t1
    t2 = t2
    saved = saved
    Users = {u1, u2, o1}
    Operators = {o1}
    Guests = {u1}
    Jtis = {j1, j2, j3, j4}
    Calls = {c1, c2}
    Invites = {i1, i2}
    None = none
    Tabs = {t1, t2}
    Saved = saved
    Attempts = 2
    MailKey = TRUE
    MaxStarts = 4
    MaxCrashes = 2
SYMMETRY Symmetry
INVARIANTS
    TypeOK
    RevocationHolds
    OneTokenPerSignIn
    InviteSpent
    MailAccounted
PROPERTIES
    SessionKept
CHECK_DEADLOCK FALSE
