CONSTANTS
    r1 = r1
    r2 = r2
    r3 = r3
    ann = ann
    bob = bob
    Requests = {r1, r2, r3}
    Users <- MCUsers
    Tables <- MCTables
    Menu <- FullMenu
    Repeated = {}
    Life = 1
    NoEntry = NoEntry
    Failures = {"database", "rows", "cacheReads", "cacheWrites", "crash"}
SPECIFICATION Spec
SYMMETRY Symmetry
INVARIANTS
    TypeOK
    NumbersContiguous
    CreatedStand
    StaleForCause
    ListsAreOwn
    IInv
PROPERTY BookSpec
