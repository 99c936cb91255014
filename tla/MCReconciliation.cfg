SPECIFICATION FairSpec
CONSTANTS
    Txns = {"t1"}
    Versions <- MCVersions
    Entries <- MCEntries
    AmountTolerance = 1
    DayTolerance = 3
    Page = 1
    Rows = {1, 2, 3}
    Suggesters = {"s1", "s2"}
    Confirmers = {"c1", "c2"}
    MaxSyncs = 2
    MaxConfirms = 2
    MaxCrashes = 1
INVARIANTS
    TypeOK
    SuggestedInOrder
    SuggestedWhole
PROPERTIES
    PostsOncePerConfirmation
    ConfirmedIsPosted
CHECK_DEADLOCK FALSE
