CONSTANTS
    r1 = r1
    r2 = r2
    r3 = r3
    ann = ann
    bob = bob
    Requests = {r1, r2, r3}
    Users <- MCUsers
    InitialRole <- OneAdmin
    Kinds = {"register", "login", "refresh", "logout", "setRole"}
    Passwords = {"right", "wrong"}
    Failures = {"database", "crash"}
SPECIFICATION Spec
SYMMETRY Symmetry
INVARIANTS
    TypeOK
    SessionsStayEnded
    RefreshRespectsLogout
    DemotionIsSeen
    PowerHasASource
    IInv
PROPERTIES
    PowerDiesOut
    SignedOutStays
