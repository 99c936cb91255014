SPECIFICATION FairSpec
CONSTANTS
    c1 = c1
    c2 = c2
    r1 = r1
    r2 = r2
    j1 = j1
    j2 = j2
    Consents = {c1}
    Calls = {r1, r2}
    Jobs = {j1}
    MaxTokens = 2
    MaxCrashes = 2
    Hosted = TRUE
INVARIANTS
    TypeOK
    CredentialAgrees
    BankAgrees
PROPERTIES
    TableFollowed
    SyncSettles
    OverdueExpires
CHECK_DEADLOCK FALSE
