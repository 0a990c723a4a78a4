-------------------------- MODULE MCAccountService --------------------------
(* Small instances of AccountService for TLC.                              *)
EXTENDS AccountService, TLC

CONSTANTS r1, r2, r3, ann, bob

MCUsers == {ann, bob}
First == BaseNumber + 1
MCExisting == First :> [owner |-> ann, balance |-> 1] @@
              First + 1 :> [owner |-> bob, balance |-> 1]

Create(u) == [kind |-> "create", user |-> u]
List(u) == [kind |-> "list", user |-> u]
(* Three, since balances differ by one: no two changes look the same.      *)
DepositOf(n) == [kind |-> "deposit", number |-> n, amount |-> 3]
TransferOf(u, from, to) ==
    [kind |-> "transfer", user |-> u, from |-> from, to |-> to, amount |-> 1]

Writes == {Create(ann), Create(bob), DepositOf(First)}

(* First + 2 is the number of an account that is created during the run.   *)
FullMenu == Writes \cup {List(ann), List(bob), DepositOf(First + 2),
                         TransferOf(ann, First, First + 1),
                         TransferOf(bob, First, First + 1)}

(* The two writes that delete the key, alone with a reader.                *)
WriterMenu == {Create(ann), DepositOf(First), List(ann)}

TransferMenu == {TransferOf(ann, First, First + 1), List(ann)}

ListMenu == {List(ann), List(bob)}

(* What clients ask for again and again, and a write that deletes a key.   *)
EndlessMenu == {List(ann), Create(ann), DepositOf(First),
                TransferOf(ann, First, First + 1), TransferOf(bob, First + 1, First)}

(* The table with an account of each user, and the empty one.             *)
MCTables == {MCExisting, << >>}

Symmetry == Permutations(Requests)
=============================================================================
