SPECIFICATION Spec
CONSTANTS
    b1 = b1
    p1 = p1
    p2 = p2
    Batches = {b1}
    Files <- MCDecimalFiles
    Headers <- MCHeaders
    NumberOf <- MCNumberOf
    Entries <- MCEntries
    Procs = {p1, p2}
    Chunk = 3
    MaxStarts = 2
    MaxCrashes = 0
    Scripts <- MCScripts
    Provisioned <- MCProvisioned
    Upserted <- MCUpserted
    Staged = b1
    Sales <- MCSales
    Purchased <- MCPurchased
    Months = 2
    Suppliers <- MCSuppliers
    Fallback = "s2"
    Place = "place"
    MasterInit <- MCMasterInit
SYMMETRY Symmetry
INVARIANTS
    LineKeepsQuantity
CHECK_DEADLOCK FALSE
