---------------------------- MODULE AccountBook ----------------------------
(***************************************************************************)
(* What the accounts table promises, statement by statement detail and the *)
(* cache left out: a book of numbered accounts.  An account is opened at   *)
(* the end of the book in one step, is never closed, renumbered or given   *)
(* to somebody else, and its balance changes by an exact deposit or        *)
(* transfer only.  A client that is told its account was created is told   *)
(* of one that is in the book, is its own, and of which nobody else was    *)
(* told.                                                                   *)
(*                                                                         *)
(* AccountService implements this specification.                           *)
(***************************************************************************)
EXTENDS Integers, Sequences

CONSTANTS Requests,  \* identities of the requests that may open an account
          Users,     \* user ids
          Openings,  \* the books there may be at the start
          Amounts    \* the amounts that may be moved

VARIABLES book,      \* book[i]: owner and balance of the i-th account
          told       \* what clients were told: request, user, place in the book

vars == <<book, told>>

Init ==
    /\ book \in Openings
    /\ told = {}

Open(u) ==
    /\ book' = Append(book, [owner |-> u, balance |-> 0])
    /\ UNCHANGED told

Tell(r, u, i) ==
    /\ i \in DOMAIN book
    /\ book[i].owner = u
    /\ \A t \in told : t.req # r /\ t.place # i
    /\ told' = told \cup {[req |-> r, user |-> u, place |-> i]}
    /\ UNCHANGED book

Deposit(i, amount) ==
    /\ i \in DOMAIN book
    /\ book' = [book EXCEPT ![i].balance = @ + amount]
    /\ UNCHANGED told

Transfer(i, j, amount) ==
    /\ {i, j} \subseteq DOMAIN book
    /\ i # j
    /\ amount =< book[i].balance
    /\ book' = [book EXCEPT ![i].balance = @ - amount, ![j].balance = @ + amount]
    /\ UNCHANGED told

Next ==
    \/ \E u \in Users :
           \/ Open(u)
           \/ \E r \in Requests, i \in DOMAIN book : Tell(r, u, i)
    \/ \E i \in DOMAIN book, amount \in Amounts :
           \/ Deposit(i, amount)
           \/ \E j \in DOMAIN book : Transfer(i, j, amount)

Spec == Init /\ [][Next]_vars
=============================================================================
