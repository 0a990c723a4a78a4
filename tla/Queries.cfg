CONSTANTS
    r1 = r1
    r2 = r2
    r3 = r3
    q1 = q1
    q2 = q2
    none = none
    ann = ann
    bob = bob
    a = a
    b = b
    missing = missing
    Requests = {r1, r2}
    Readers = {q1, q2}
    NoRequest = none
    Users <- MCUsers
    AccountIds <- MCAccountIds
    Accounts <- MCAccounts
    Owner <- MCOwner
    Currency <- MCCurrency
    Opening <- MCOpening
    MaxBalance = 16
    Menu <- MCMenu
    ReadMenu <- MCReadMenu
SPECIFICATION QSpec
SYMMETRY Symmetry
INVARIANTS
    HistoryRespectsAnswers
    HistoryHasNoHoles
    ListingsExplained
    QInv
