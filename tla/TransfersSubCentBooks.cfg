CONSTANTS
    r1 = r1
    r2 = r2
    r3 = r3
    none = none
    ann = ann
    bob = bob
    a = a
    b = b
    c = c
    missing = missing
    Requests = {r1, r2}
    NoRequest = none
    Users <- MCUsers
    AccountIds <- MCAccountIds
    Accounts <- MCAccounts
    Owner <- MCOwner
    Currency <- MCCurrency
    Opening <- MCOpening
    MaxBalance = 16
    Menu <- SubCentMenu
SPECIFICATION Spec
INVARIANT BooksBalance
