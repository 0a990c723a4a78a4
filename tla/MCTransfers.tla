---------------------------- MODULE MCTransfers ----------------------------
(* Small instances of Transfers for TLC.                                   *)
EXTENDS Transfers, TLC

CONSTANTS r1, r2, r3, none, ann, bob, a, b, c, missing

MCUsers == {ann, bob}
MCAccountIds == {a, b, c, missing}
MCAccounts == {a, b, c}
MCOwner == a :> ann @@ b :> bob @@ c :> ann
MCCurrency == a :> "USD" @@ b :> "USD" @@ c :> "EUR"

(* With a maximum of four cents, a transfer of two cents empties a, and    *)
(* after it, or after a deposit of three, the next one overflows b.        *)
MCOpening == a :> 8 @@ b :> 4 @@ c :> 4

TransferOf(user, from, to, amount) ==
    [kind |-> "transfer", user |-> user, from |-> from, to |-> to, amount |-> amount]
DepositOf(to, amount) == [kind |-> "deposit", to |-> to, amount |-> amount]

(* Transfers that cross, two by two or in a ring of three, empty an        *)
(* account or overflow one, and one request for every early return.        *)
SafeMenu == {TransferOf(ann, a, b, 8), TransferOf(bob, b, a, 4), DepositOf(a, 4),
             TransferOf(ann, a, b, -4), TransferOf(ann, a, a, 4),
             TransferOf(ann, missing, a, 4), TransferOf(ann, a, missing, 4),
             TransferOf(ann, b, a, 4), TransferOf(ann, a, c, 4),
             TransferOf(bob, b, c, 4), TransferOf(ann, c, a, 4),
             DepositOf(missing, 4), DepositOf(b, 12)}

(* A deadlock needs two of them; the third meets what they leave behind.   *)
LiveMenu == {TransferOf(ann, a, b, 4), TransferOf(bob, b, a, 4), DepositOf(a, 4)}

SubCentMenu == {TransferOf(ann, a, b, amount) : amount \in {1, 2, 3, 6}} \cup
               {TransferOf(bob, b, a, 2), DepositOf(a, 1), DepositOf(a, 2)}

Symmetry == Permutations(Requests)
=============================================================================
