CONSTANTS
    r1 = r1
    r2 = r2
    r3 = r3
    Requests = {r1, r2, r3}
SPECIFICATION FairSpec
INVARIANTS
    PoolsOutliveHandlers
    IInv
PROPERTIES
    ServiceSpec
    StopsWhenAsked
    ServesEventually
