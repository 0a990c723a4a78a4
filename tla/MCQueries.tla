----------------------------- MODULE MCQueries -----------------------------
(* A small instance of Queries for TLC.                                    *)
EXTENDS Queries, TLC

CONSTANTS r1, r2, r3, q1, q2, none, ann, bob, a, b, missing

MCUsers == {ann, bob}
MCAccountIds == {a, b, missing}
MCAccounts == {a, b}
MCOwner == a :> ann @@ b :> bob
MCCurrency == a :> "USD" @@ b :> "USD"
MCOpening == a :> 8 @@ b :> 4

TransferOf(user, from, to, amount) ==
    [kind |-> "transfer", user |-> user, from |-> from, to |-> to, amount |-> amount]

(* Transfers both ways, of which the first may be refused for lack of      *)
(* funds, and a deposit.                                                   *)
MCMenu == {TransferOf(ann, a, b, 8), TransferOf(bob, b, a, 4),
           [kind |-> "deposit", to |-> a, amount |-> 4]}

HistoryOf(user, account) == [kind |-> "history", user |-> user, of |-> account]

MCReadMenu == {HistoryOf(ann, a), HistoryOf(ann, b), HistoryOf(ann, missing),
               [kind |-> "all"]}

Symmetry == Permutations(Requests) \cup Permutations(Readers)
=============================================================================
