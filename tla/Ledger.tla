------------------------------- MODULE Ledger -------------------------------
(***************************************************************************)
(* What the accounts and transactions tables promise, statement by         *)
(* statement detail left out: a transfer moves an exact amount between two *)
(* accounts of one currency and writes its row in the same step, a deposit *)
(* adds an exact amount, and nothing else ever happens to a balance.       *)
(*                                                                         *)
(* Transfers implements this specification when every amount is a whole    *)
(* number of cents.                                                        *)
(***************************************************************************)
EXTENDS Integers

CONSTANTS Requests,    \* identities of the requests that may move money
          Accounts,    \* ids of the rows of the accounts table
          Currency,    \* Currency[a] is the currency of account a
          Opening,     \* Opening[a] is the balance of account a at the start
          Amounts,     \* the amounts that may be moved
          MaxBalance   \* the largest balance an account can hold

VARIABLES balance,     \* balance[a] is the committed balance of account a
          ledger,      \* the committed rows of the transactions table
          deposits     \* the deposits made so far (the program keeps no such table)

vars == <<balance, ledger, deposits>>

Init ==
    /\ balance = Opening
    /\ ledger = {}
    /\ deposits = {}

Transfer(r, from, to, amount) ==
    /\ from # to
    /\ Currency[from] = Currency[to]
    /\ amount > 0
    /\ amount =< balance[from]
    /\ balance[to] + amount =< MaxBalance
    /\ \A row \in ledger : row.req # r
    /\ balance' = [balance EXCEPT ![from] = @ - amount, ![to] = @ + amount]
    /\ ledger' = ledger \cup
                   {[req |-> r, from |-> from, to |-> to, amount |-> amount]}
    /\ UNCHANGED deposits

Deposit(r, to, amount) ==
    /\ amount > 0
    /\ balance[to] + amount =< MaxBalance
    /\ \A row \in deposits : row.req # r
    /\ balance' = [balance EXCEPT ![to] = @ + amount]
    /\ deposits' = deposits \cup {[req |-> r, to |-> to, amount |-> amount]}
    /\ UNCHANGED ledger

Next ==
    \E r \in Requests, to \in Accounts, amount \in Amounts :
        \/ \E from \in Accounts : Transfer(r, from, to, amount)
        \/ Deposit(r, to, amount)

Spec == Init /\ [][Next]_vars
=============================================================================
