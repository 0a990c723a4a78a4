CONSTANTS
    r1 = r1
    r2 = r2
    r3 = r3
    ann = ann
    bob = bob
    Requests = {r1, r2}
    Users <- MCUsers
    Tables <- MCTables
    Menu <- EndlessMenu
    Repeated = {"list", "transfer"}
    Life = 2
    NoEntry = NoEntry
    Failures = {"database", "rows", "cacheWrites", "crash"}
SPECIFICATION FairSpec
PROPERTY StaleEnds
