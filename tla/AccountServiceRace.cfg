CONSTANTS
    r1 = r1
    r2 = r2
    r3 = r3
    ann = ann
    bob = bob
    Requests = {r1, r2}
    Users <- MCUsers
    Tables <- MCTables
    Menu <- WriterMenu
    Repeated = {}
    Life = 1
    NoEntry = NoEntry
    Failures = {}
SPECIFICATION Spec
INVARIANT FreshWhenQuiet
