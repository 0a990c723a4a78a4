------------------------ MODULE AccountServiceProofs ------------------------
(***************************************************************************)
(* Proofs about AccountService, for any number of requests and users, any  *)
(* starting table and any set of failures.                                 *)
(*                                                                         *)
(* Account numbers: a creator inserts one more than a number it read when  *)
(* that was the highest, so if it is free it is still one more than the    *)
(* highest.  The cache: a list about to be cached is the table's or has a  *)
(* cause to blame, and so has what is cached.  The book: seen through      *)
(* BookOf, an INSERT appends an account, a deposit or transfer changes     *)
(* balances in place, and an answer tells of an account that is there.     *)
(***************************************************************************)
EXTENDS AccountService, SequenceTheorems, FiniteSetTheorems, TLAPS

-----------------------------------------------------------------------------
(* Account numbers                                                         *)

(* How many accounts there are.                                            *)
LEMMA CardinalityUpTo ==
    ASSUME NEW k \in Nat
    PROVE  Cardinality(NumbersUpTo(k)) = k
BY FS_Interval DEF NumbersUpTo, BaseNumber

(* Contiguity without the count.                                           *)
LEMMA Contiguous ==
    ASSUME NEW k \in Nat, DOMAIN accounts = NumbersUpTo(k)
    PROVE  NumbersContiguous
BY CardinalityUpTo DEF NumbersContiguous

(* MAX(account_number) is the last number, or the base.                    *)
LEMMA LastIsMax ==
    ASSUME NEW k \in Nat, DOMAIN accounts = NumbersUpTo(k)
    PROVE  LastAccountNumber = BaseNumber + k
<1>1. CASE k = 0
    <2>1. DOMAIN accounts = {}
        BY <1>1 DEF NumbersUpTo, BaseNumber
    <2> QED  BY <1>1, <2>1 DEF LastAccountNumber, BaseNumber
<1>2. CASE k # 0
    <2>1. BaseNumber + k \in DOMAIN accounts /\ DOMAIN accounts # {}
        BY <1>2 DEF NumbersUpTo, BaseNumber
    <2>2. \A n \in DOMAIN accounts : n \in Int /\ BaseNumber + k >= n
        BY DEF NumbersUpTo
    <2>3. \A m \in DOMAIN accounts :
              (\A n \in DOMAIN accounts : m >= n) => m = BaseNumber + k
        BY <2>1, <2>2 DEF BaseNumber
    <2>4. Max(DOMAIN accounts) = BaseNumber + k
        BY <2>1, <2>2, <2>3 DEF Max
    <2> QED  BY <2>1, <2>4 DEF LastAccountNumber
<1> QED  BY <1>1, <1>2
(* IInv, with its count of accounts a natural number.                      *)
ContiguousNat == \E k \in Nat : DOMAIN accounts = NumbersUpTo(k)

ProofInv == IInv /\ ContiguousNat

(* A number that is not taken but follows one that was read follows the    *)
(* last.                                                                   *)
LEMMA FreeIsNext ==
    ASSUME NEW k \in Nat, DOMAIN accounts = NumbersUpTo(k),
           NEW n \in Nat, n = BaseNumber \/ n \in DOMAIN accounts,
           n + 1 \notin DOMAIN accounts
    PROVE  n + 1 = BaseNumber + k + 1
BY DEF NumbersUpTo, BaseNumber

(* The table with the next account is contiguous again.                    *)
LEMMA InsertContiguous ==
    ASSUME ProofInv, NEW r \in Requests, pc[r] = "insert",
           number[r] + 1 \notin DOMAIN accounts, accounts' = NewTable(r)
    PROVE  ContiguousNat'
<1>1. PICK k \in Nat : DOMAIN accounts = NumbersUpTo(k)
    BY DEF ProofInv, ContiguousNat
<1>2. number[r] + 1 = BaseNumber + k + 1
    BY <1>1, FreeIsNext DEF ProofInv, IInv, TypeOK, ControlInv, Control
<1>3. DOMAIN accounts' = DOMAIN accounts \cup {number[r] + 1}
    BY DEF NewTable
<1>4. DOMAIN accounts' = NumbersUpTo(k + 1)
    BY <1>1, <1>2, <1>3 DEF NumbersUpTo, BaseNumber
<1> QED  BY <1>4 DEF ContiguousNat
-----------------------------------------------------------------------------
(* The list of a user changes only with the user's accounts.               *)

LEMMA ViewSame ==
    ASSUME NEW u, DOMAIN accounts \subseteq DOMAIN accounts',
           \A n \in DOMAIN accounts' :
               \/ n \in DOMAIN accounts /\ accounts'[n] = accounts[n]
               \/ /\ accounts'[n].owner # u
                  /\ n \in DOMAIN accounts => accounts[n].owner # u
    PROVE  View(u)' = View(u)
<1>1. AccountsOf(u)' = AccountsOf(u)
    BY DEF AccountsOf
<1>2. \A n \in AccountsOf(u) : accounts'[n] = accounts[n]
    BY <1>1 DEF AccountsOf
<1> QED  BY <1>1, <1>2 DEF View

(* What a step that writes the table for some users keeps: the accounts    *)
(* and their owners, and the lists of the other users.                     *)
WritesFor(us) ==
    /\ DOMAIN accounts \subseteq DOMAIN accounts'
    /\ \A n \in DOMAIN accounts' : accounts'[n] \in Account /\ n \in Nat
    /\ \A n \in DOMAIN accounts : accounts'[n].owner = accounts[n].owner
    /\ \A v \in Users : v \notin us => View(v)' = View(v)

LEMMA NewTableWrites ==
    ASSUME TypeOK, NEW r \in Requests, req[r].kind = "create",
           number[r] + 1 \notin DOMAIN accounts, accounts' = NewTable(r)
    PROVE  /\ WritesFor({req[r].user})
           /\ number[r] + 1 \in DOMAIN accounts'
           /\ accounts'[number[r] + 1].owner = req[r].user
<1>1. req[r].user \in Users
    BY MenuAssumption DEF TypeOK, CreateReq, ListReq, DepositReq, TransferReq
<1>2. /\ DOMAIN accounts' = DOMAIN accounts \cup {number[r] + 1}
      /\ \A n \in DOMAIN accounts : accounts'[n] = accounts[n]
      /\ accounts'[number[r] + 1] = [owner |-> req[r].user, balance |-> 0]
    BY DEF NewTable
<1>3. \A v \in Users : v # req[r].user => View(v)' = View(v)
    BY <1>2, ViewSame
<1> QED  BY <1>1, <1>2, <1>3 DEF WritesFor, TypeOK, Account

LEMMA AddingWrites ==
    ASSUME TypeOK, NEW r \in Requests, req[r].kind = "deposit",
           req[r].number \in DOMAIN accounts,
           accounts' = Adding(req[r].number, req[r].amount)
    PROVE  /\ WritesFor({OwnerOf(r)})
           /\ DOMAIN accounts' = DOMAIN accounts
           /\ OwnerOf(r) \in Users
<1> DEFINE n == req[r].number
<1>1. req[r].amount \in Nat /\ OwnerOf(r) = accounts[n].owner
    BY MenuAssumption DEF TypeOK, CreateReq, ListReq, DepositReq, TransferReq, OwnerOf
<1>2. accounts[n] \in Account
    BY DEF TypeOK
<1>3. /\ DOMAIN accounts' = DOMAIN accounts
      /\ accounts'[n] = [accounts[n] EXCEPT !.balance = @ + req[r].amount]
      /\ \A m \in DOMAIN accounts \ {n} : accounts'[m] = accounts[m]
    BY DEF Adding
<1>4. accounts'[n] \in Account /\ accounts'[n].owner = accounts[n].owner
    <2>1. accounts'[n] = [owner |-> accounts[n].owner,
                          balance |-> accounts[n].balance + req[r].amount]
        BY <1>2, <1>3 DEF Account
    <2> QED  BY <1>1, <1>2, <2>1 DEF Account
<1>5. \A v \in Users : v # OwnerOf(r) => View(v)' = View(v)
    BY <1>1, <1>3, <1>4, ViewSame
<1> QED  BY <1>1, <1>2, <1>3, <1>4, <1>5 DEF WritesFor, TypeOK, Account
-----------------------------------------------------------------------------
(* Two kinds of step                                                       *)

Others(r) ==
    \A q \in Requests \ {r} :
        /\ pc'[q] = pc[q] /\ code'[q] = code[q]
        /\ number'[q] = number[q] /\ answer'[q] = answer[q]

(* Causes are forgotten only when nothing is cached or about to be.        *)
Blames ==
    \A u \in Users : \/ causes[u] \subseteq causes'[u]
                     \/ ~Filling(u) /\ cache'[u] = NoEntry

(* Whoever is blamed, and has something cached or about to be, has a cause.*)
LEMMA BlameMarks ==
    ASSUME TypeOK, NEW us, NEW cause \in {"race", "transfer", "failure"},
           Blame(us, cause)
    PROVE  /\ Blames /\ causes' \in [Users -> SUBSET {"race", "transfer", "failure"}]
           /\ \A u \in Users : u \in us =>
                  causes'[u] # {} \/ (cache[u] = NoEntry /\ ~Filling(u))
<1> DEFINE exposed == {u \in us : cache[u] # NoEntry \/ Filling(u)}
<1>1. causes' = [u \in Users |->
                    IF u \in exposed THEN causes[u] \cup {cause} ELSE causes[u]]
    BY DEF Blame
<1>2. \A u \in Users : u \in us =>
          u \in exposed \/ (cache[u] = NoEntry /\ ~Filling(u))
    OBVIOUS
<1> HIDE DEF exposed
<1> QED  BY <1>1, <1>2 DEF Blames, TypeOK

(* A write for u is about to delete the key, or u has been blamed for it.  *)
LEMMA WriteBlames ==
    ASSUME TypeOK, NEW u \in Users, NEW r \in Requests,
           \/ UNCHANGED causes /\ pc'[r] = "del" /\ ~Filling(u)
           \/ Blame({u}, "race")
           \/ Blame({u}, "failure")
    PROVE  /\ Blames /\ causes' \in [Users -> SUBSET {"race", "transfer", "failure"}]
           /\ \/ causes'[u] # {}
              \/ cache[u] = NoEntry /\ ~Filling(u)
              \/ pc'[r] = "del" /\ ~Filling(u)
<1>1. CASE UNCHANGED causes /\ pc'[r] = "del" /\ ~Filling(u)
    BY <1>1 DEF Blames, TypeOK
<1>2. CASE Blame({u}, "race")
    BY <1>2, BlameMarks
<1>3. CASE Blame({u}, "failure")
    BY <1>3, BlameMarks
<1> QED  BY <1>1, <1>2, <1>3

LEMMA AbsolveForgets ==
    ASSUME TypeOK, NEW u \in Users, Absolve(u), cache'[u] = NoEntry
    PROVE  Blames /\ causes' \in [Users -> SUBSET {"race", "transfer", "failure"}]
<1>1. CASE Filling(u)
    BY <1>1 DEF Absolve, Blames, TypeOK
<1>2. CASE ~Filling(u)
    BY <1>2 DEF Absolve, Blames, TypeOK
<1> QED  BY <1>1, <1>2

LEMMA UserOf ==
    ASSUME TypeOK, NEW r \in Requests
    PROVE  req[r].kind \in {"create", "list", "transfer"} => req[r].user \in Users
BY MenuAssumption DEF TypeOK, CreateReq, ListReq, DepositReq, TransferReq

(* A step of r that does not write the table.                              *)
LEMMA QuietStep ==
    ASSUME ProofInv, NEW r \in Requests, TypeOK', Others(r), Blames,
           UNCHANGED <<req, accounts>>,
           HasCreated(r)' => HasCreated(r) /\ number'[r] = number[r],
           Control(r)', StaleForCause'
    PROVE  ProofInv'
<1>1. ContiguousNat' /\ NumbersContiguous'
    BY DEF ProofInv, IInv, ContiguousNat, NumbersContiguous
<1>2. CreatorsInv'
    BY DEF ProofInv, IInv, CreatorsInv, HasCreated, Others
<1>3. ControlInv'
    <2> SUFFICES ASSUME NEW q \in Requests, q # r
                 PROVE  Control(q)'
        BY DEF ControlInv
    <2>1. Control(q)
        BY DEF ProofInv, IInv, ControlInv
    <2>2. req[q].kind = "list" /\ pc[q] = "set" =>
              causes[req[q].user] \subseteq causes'[req[q].user]
        BY UserOf DEF ProofInv, IInv, Blames, Filling
    <2>3. View(req[q].user)' = View(req[q].user)
        BY DEF View, AccountsOf
    <2> QED  BY <2>1, <2>2, <2>3 DEF Control, Others
<1> QED  BY <1>1, <1>2, <1>3 DEF ProofInv, IInv

(* A step of r that writes the table for the users us: each of them has a  *)
(* cause to blame, or r is about to delete its key.                        *)
LEMMA WriteStep ==
    ASSUME ProofInv, NEW r \in Requests, NEW us \in SUBSET Users,
           TypeOK', Others(r), Blames, UNCHANGED <<req, cache>>,
           WritesFor(us), ContiguousNat', pc[r] # "del",
           HasCreated(r)' => /\ number'[r] \in DOMAIN accounts' \ DOMAIN accounts
                             /\ accounts'[number'[r]].owner = req[r].user,
           Control(r)',
           \A u \in us : \/ causes'[u] # {}
                         \/ cache[u] = NoEntry /\ ~Filling(u)
                         \/ /\ pc'[r] = "del" /\ OwnerOf(r)' = u
                            /\ ~Filling(u)
    PROVE  ProofInv'
<1>1. NumbersContiguous'
    BY Contiguous, CardinalityUpTo DEF ContiguousNat, NumbersContiguous
<1>2. CreatorsInv'
    BY DEF ProofInv, IInv, CreatorsInv, HasCreated, Others, WritesFor
<1>3. ControlInv'
    <2> SUFFICES ASSUME NEW q \in Requests, q # r
                 PROVE  Control(q)'
        BY DEF ControlInv
    <2>1. Control(q)
        BY DEF ProofInv, IInv, ControlInv
    <2>2. ASSUME pc'[q] = "set"
          PROVE  answer'[q] = View(req[q].user)' \/ causes'[req[q].user] # {}
        <3> DEFINE v == req[q].user
        <3>1. pc[q] = "set" /\ v \in Users /\ answer'[q] = answer[q]
            BY <2>1, <2>2, UserOf DEF Others, Control, ProofInv, IInv
        <3>2. CASE v \in us
            BY <3>1, <3>2 DEF Filling
        <3>3. CASE v \notin us
            BY <2>1, <3>1, <3>3 DEF WritesFor, Control, Blames, Filling
        <3> QED  BY <3>2, <3>3
    <2> QED  BY <2>1, <2>2 DEF Control, Others, WritesFor
<1>4. StaleForCause'
    <2> SUFFICES ASSUME NEW u \in Users
                 PROVE  \/ cache'[u] \in {NoEntry, View(u)'}
                        \/ DelPending(u)'
                        \/ causes'[u] # {}
        BY DEF StaleForCause
    <2>1. CASE u \in us
        BY <2>1 DEF DelPending
    <2>2. CASE u \notin us
        <3>1. View(u)' = View(u)
            BY <2>2 DEF WritesFor
        <3>2. DelPending(u) => DelPending(u)'
            <4> SUFFICES ASSUME NEW q \in Requests, pc[q] = "del", OwnerOf(q) = u
                         PROVE  DelPending(u)'
                BY DEF DelPending
            <4>1. q # r /\ pc'[q] = "del"
                BY DEF Others
            <4>2. OwnerOf(q)' = OwnerOf(q)
                BY DEF OwnerOf, WritesFor, ProofInv, IInv, ControlInv, Control
            <4> QED  BY <4>1, <4>2 DEF DelPending
        <3> QED  BY <3>1, <3>2 DEF ProofInv, IInv, StaleForCause, Blames
    <2> QED  BY <2>1, <2>2
<1> QED  BY <1>1, <1>2, <1>3, <1>4 DEF ProofInv, IInv
-----------------------------------------------------------------------------
(* The actions                                                             *)

(* Nothing about the cache has changed, or what has is accounted for.      *)
LEMMA StaleKept ==
    ASSUME ProofInv, Blames, UNCHANGED <<req, accounts>>,
           \A u \in Users :
               \/ /\ cache'[u] = cache[u]
                  /\ DelPending(u) => DelPending(u)' \/ causes'[u] # {}
               \/ cache'[u] = NoEntry
               \/ cache'[u] = View(u)
               \/ causes'[u] # {}
    PROVE  StaleForCause'
<1> SUFFICES ASSUME NEW u \in Users
             PROVE  \/ cache'[u] \in {NoEntry, View(u)'}
                    \/ DelPending(u)'
                    \/ causes'[u] # {}
    BY DEF StaleForCause
<1>1. View(u)' = View(u)
    BY DEF View, AccountsOf
<1> QED  BY <1>1 DEF ProofInv, IInv, StaleForCause, Blames

(* Every step of r that touches neither the table nor the cache.           *)
Reads(r) ==
    \/ GetLastAccountNumber(r) \/ InsertConflicts(r) \/ AccountNotFound(r)
    \/ CacheHit(r) \/ CacheMiss(r) \/ Query(r) \/ TransferRefused(r)
    \/ StatementFails(r) \/ GetFails(r) \/ SetFails(r) \/ QueryCutShort(r)

LEMMA LastIsKnown ==
    ASSUME ProofInv
    PROVE  /\ LastAccountNumber \in Nat
           /\ LastAccountNumber = BaseNumber \/ LastAccountNumber \in DOMAIN accounts
<1>1. PICK k \in Nat : DOMAIN accounts = NumbersUpTo(k)
    BY DEF ProofInv, ContiguousNat
<1>2. LastAccountNumber = BaseNumber + k
    BY <1>1, LastIsMax
<1> QED  BY <1>1, <1>2 DEF NumbersUpTo, BaseNumber

LEMMA ReadsInv ==
    ASSUME ProofInv, NEW r \in Requests, Reads(r)
    PROVE  ProofInv'
<1> USE DEF Reads, GetLastAccountNumber, InsertConflicts, AccountNotFound,
            CacheHit, CacheMiss, Query, TransferRefused, StatementFails,
            GetFails, SetFails, QueryCutShort, Starts, Answer, Goto
<1>1. UNCHANGED <<req, accounts, cache, ttl>>
    OBVIOUS
<1>0. Blames /\ causes' \in [Users -> SUBSET {"race", "transfer", "failure"}]
    <2>1. CASE CacheMiss(r)
        BY <2>1, AbsolveForgets, UserOf DEF ProofInv, IInv
    <2>2. CASE QueryCutShort(r)
        BY <2>2 DEF Blames, ProofInv, IInv, TypeOK
    <2>3. CASE ~CacheMiss(r) /\ ~QueryCutShort(r)
        BY <2>3 DEF Blames, ProofInv, IInv, TypeOK
    <2> QED  BY <2>1, <2>2, <2>3
<1>2. Others(r) /\ Blames
    BY <1>0 DEF ProofInv, IInv, TypeOK, Others
<1>3. TypeOK'
    BY <1>0, LastIsKnown DEF ProofInv, IInv, TypeOK
<1>4. pc[r] # "del" /\ pc'[r] # "del"
    BY DEF ProofInv, IInv, TypeOK
<1>5. HasCreated(r)' => HasCreated(r) /\ number'[r] = number[r]
    <2>1. pc[r] # "done" => code[r] = 0
        BY DEF ProofInv, IInv, ControlInv, Control
    <2>2. code'[r] # 201
        BY <2>1 DEF ProofInv, IInv, TypeOK
    <2> QED  BY <1>4, <2>2 DEF HasCreated
<1>6. Control(r)'
    <2>1. Control(r) /\ View(req[r].user)' = View(req[r].user)
        BY DEF ProofInv, IInv, ControlInv, View, AccountsOf
    <2>2. CASE QueryCutShort(r)
        <3>1. req[r].user \in Users /\ req[r].kind = "list" /\ code[r] = 0
            BY <2>1, <2>2, UserOf DEF Control, ProofInv, IInv
        <3>2. pc'[r] = "set" /\ code'[r] = code[r] /\ causes'[req[r].user] # {}
            BY <2>2, <3>1 DEF ProofInv, IInv, TypeOK
        <3> HIDE DEF Reads, GetLastAccountNumber, InsertConflicts, AccountNotFound,
                     CacheHit, CacheMiss, Query, TransferRefused, StatementFails,
                     GetFails, SetFails, QueryCutShort, Starts, Answer, Goto
        <3> QED  BY <1>1, <3>1, <3>2 DEF Control
    <2>3. CASE ~QueryCutShort(r)
        BY <2>1, <2>3, LastIsKnown DEF Control, ProofInv, IInv, TypeOK
    <2> QED  BY <2>2, <2>3
<1>7. StaleForCause'
    <2>1. \A u \in Users : DelPending(u) => DelPending(u)'
        BY <1>1, <1>2, <1>4 DEF DelPending, Others, OwnerOf
    <2> QED  BY <1>1, <1>2, <2>1, StaleKept
<1> QED  BY <1>1, <1>2, <1>3, <1>5, <1>6, <1>7, QuietStep

LEMMA SetInv ==
    ASSUME ProofInv, NEW r \in Requests, Set(r)
    PROVE  ProofInv'
<1> USE DEF Set, Answer, Goto
<1>1. UNCHANGED <<req, accounts, causes, number>> /\ pc[r] = "set" /\ pc'[r] = "done"
    BY DEF ProofInv, IInv, TypeOK
<1>2. Others(r) /\ Blames /\ TypeOK'
    <2>1. Others(r) /\ Blames
        BY DEF ProofInv, IInv, TypeOK, Others, Blames
    <2>2. ttl' \in [Users -> 0..Life]
        <3>1. ttl \in [Users -> 0..Life] /\ Life \in 0..Life
            BY LifeAssumption DEF ProofInv, IInv, TypeOK
        <3> QED  BY <3>1
    <2>3. /\ pc' \in [Requests -> {"idle", "insert", "del", "query", "set", "done"}]
          /\ code' \in [Requests -> {0, 200, 201, 400, 404, 500}]
          /\ DOMAIN cache' = Users
          /\ UNCHANGED <<req, number, accounts, answer, causes>>
        BY DEF ProofInv, IInv, TypeOK
    <2> HIDE DEF Set, Answer, Goto
    <2>4. TypeOK'
        BY <2>2, <2>3 DEF ProofInv, IInv, TypeOK
    <2> QED  BY <2>1, <2>4
<1>3. HasCreated(r)' => HasCreated(r) /\ number'[r] = number[r]
    BY <1>1 DEF HasCreated, ProofInv, IInv, TypeOK
<1>4. Control(r) /\ req[r].user \in Users
    BY <1>1, UserOf DEF ProofInv, IInv, ControlInv, Control
<1>5. Control(r)'
    BY <1>1 DEF Control
<1>6. StaleForCause'
    <2>1. \A u \in Users : DelPending(u) => DelPending(u)'
        BY <1>1, <1>2 DEF DelPending, Others, OwnerOf
    <2>2. \A u \in Users : u # req[r].user => cache'[u] = cache[u]
        BY DEF ProofInv, IInv, TypeOK
    <2>3. cache'[req[r].user] = View(req[r].user) \/ causes'[req[r].user] # {}
        BY <1>1, <1>4 DEF Control, ProofInv, IInv, TypeOK
    <2> QED  BY <1>1, <1>2, <2>1, <2>2, <2>3, StaleKept
<1> QED  BY <1>1, <1>2, <1>3, <1>5, <1>6, QuietStep

LEMMA OwnerOfType ==
    ASSUME ProofInv, NEW r \in Requests, pc[r] = "del"
    PROVE  OwnerOf(r) \in Users
BY UserOf DEF ProofInv, IInv, ControlInv, Control, TypeOK, OwnerOf, Account

LEMMA DelInv ==
    ASSUME ProofInv, NEW r \in Requests, Del(r) \/ DelFails(r)
    PROVE  ProofInv'
<1> USE DEF Answer, Goto, WriteCode
<1>1. /\ UNCHANGED <<req, accounts, number, answer>> /\ pc[r] = "del" /\ pc'[r] = "done"
      /\ Others(r)
      /\ OwnerOf(r) \in Users
    BY OwnerOfType DEF ProofInv, IInv, TypeOK, Others, Del, DelFails
<1>2. /\ Blames /\ causes' \in [Users -> SUBSET {"race", "transfer", "failure"}]
      /\ ttl' \in [Users -> 0..Life] /\ DOMAIN cache' = Users
      /\ \A u \in Users : u # OwnerOf(r) => cache'[u] = cache[u]
      /\ cache'[OwnerOf(r)] = NoEntry \/ causes'[OwnerOf(r)] # {}
    <2>1. CASE Del(r)
        <3>1. cache' = [cache EXCEPT ![OwnerOf(r)] = NoEntry] /\ Absolve(OwnerOf(r))
              /\ ttl' = [ttl EXCEPT ![OwnerOf(r)] = 0]
            BY <2>1 DEF Del
        <3> QED  BY <1>1, <3>1, AbsolveForgets, LifeAssumption DEF ProofInv, IInv, TypeOK
    <2>2. CASE DelFails(r)
        BY <1>1, <2>2, BlameMarks DEF DelFails, ProofInv, IInv, TypeOK
    <2> QED  BY <2>1, <2>2
<1>3. TypeOK'
    BY <1>1, <1>2 DEF Del, DelFails, ProofInv, IInv, TypeOK
<1>4. HasCreated(r)' => HasCreated(r) /\ number'[r] = number[r]
    BY <1>1 DEF HasCreated
<1>5. Control(r)'
    BY <1>1 DEF Control
<1>6. StaleForCause'
    <2>1. \A u \in Users : u # OwnerOf(r) => (DelPending(u) => DelPending(u)')
        BY <1>1 DEF DelPending, Others, OwnerOf
    <2> QED  BY <1>1, <1>2, <2>1, StaleKept
<1> QED  BY <1>1, <1>2, <1>3, <1>4, <1>5, <1>6, QuietStep

LEMMA InsertInv ==
    ASSUME ProofInv, NEW r \in Requests,
           Insert(r) \/ (pc[r] = "insert" /\ WriteAnswerLost(r))
    PROVE  ProofInv'
<1> DEFINE u == req[r].user
<1> USE DEF Insert, WriteAnswerLost, Starts, Goto, Answer, BlameRace
<1>1. /\ pc[r] = "insert" /\ number[r] + 1 \notin DOMAIN accounts
      /\ accounts' = NewTable(r) /\ UNCHANGED <<req, cache, answer>>
      /\ Control(r)
    BY DEF ProofInv, IInv, ControlInv
<1>2. req[r].kind = "create" /\ u \in Users /\ code[r] = 0
    BY <1>1, UserOf DEF Control, ProofInv, IInv
<1>3. /\ WritesFor({u})
      /\ number[r] + 1 \in DOMAIN accounts'
      /\ accounts'[number[r] + 1].owner = u
    BY <1>1, <1>2, NewTableWrites DEF ProofInv, IInv
<1>0. /\ Blames /\ causes' \in [Users -> SUBSET {"race", "transfer", "failure"}]
      /\ \/ causes'[u] # {}
         \/ cache[u] = NoEntry /\ ~Filling(u)
         \/ pc'[r] = "del" /\ ~Filling(u)
    <2>1. \/ UNCHANGED causes /\ pc'[r] = "del" /\ ~Filling(u)
          \/ Blame({u}, "race") \/ Blame({u}, "failure")
        BY <1>1 DEF ProofInv, IInv, TypeOK
    <2>2. u \in Users /\ TypeOK
        BY <1>2 DEF ProofInv, IInv
    <2> HIDE DEF u, Insert, WriteAnswerLost, Starts, Goto, Answer, BlameRace
    <2> QED  BY <2>1, <2>2, WriteBlames
<1>4. Others(r) /\ Blames
    BY <1>0 DEF ProofInv, IInv, TypeOK, Others
<1>5. TypeOK'
    BY <1>0, <1>3 DEF ProofInv, IInv, TypeOK, WritesFor
<1>6. ContiguousNat'
    BY <1>1, InsertContiguous
<1>7. \/ pc'[r] = "del" /\ code'[r] = 0 /\ number'[r] = number[r] + 1
      \/ pc'[r] = "done" /\ code'[r] = 500
    BY <1>1, <1>2 DEF ProofInv, IInv, TypeOK
<1>8. HasCreated(r)' => /\ number'[r] \in DOMAIN accounts' \ DOMAIN accounts
                        /\ accounts'[number'[r]].owner = u
    BY <1>1, <1>3, <1>7 DEF HasCreated
<1>9. Control(r)'
    BY <1>1, <1>2, <1>7 DEF Control
<1>10. OwnerOf(r)' = u
    BY <1>1, <1>2 DEF OwnerOf
<1> QED  BY <1>0, <1>1, <1>2, <1>3, <1>4, <1>5, <1>6, <1>8, <1>9, <1>10, WriteStep

LEMMA DepositInv ==
    ASSUME ProofInv, NEW r \in Requests,
           UpdateRow(r) \/ (pc[r] = "idle" /\ WriteAnswerLost(r))
    PROVE  ProofInv'
<1> DEFINE u == OwnerOf(r)
<1> USE DEF UpdateRow, WriteAnswerLost, Starts, Goto, Answer, BlameRace
<1>1. /\ pc[r] = "idle" /\ req[r].kind = "deposit"
      /\ req[r].number \in DOMAIN accounts
      /\ accounts' = Adding(req[r].number, req[r].amount)
      /\ UNCHANGED <<req, cache, answer, number>>
      /\ code[r] = 0
    BY DEF ProofInv, IInv, ControlInv, Control
<1>2. WritesFor({u}) /\ DOMAIN accounts' = DOMAIN accounts /\ u \in Users
    BY <1>1, AddingWrites DEF ProofInv, IInv
<1>0. /\ Blames /\ causes' \in [Users -> SUBSET {"race", "transfer", "failure"}]
      /\ \/ causes'[u] # {}
         \/ cache[u] = NoEntry /\ ~Filling(u)
         \/ pc'[r] = "del" /\ ~Filling(u)
    <2>1. \/ UNCHANGED causes /\ pc'[r] = "del" /\ ~Filling(u)
          \/ Blame({u}, "race") \/ Blame({u}, "failure")
        BY <1>1 DEF ProofInv, IInv, TypeOK
    <2>2. u \in Users /\ TypeOK
        BY <1>2 DEF ProofInv, IInv
    <2> HIDE DEF u, UpdateRow, WriteAnswerLost, Starts, Goto, Answer, BlameRace
    <2> QED  BY <2>1, <2>2, WriteBlames
<1>3. Others(r) /\ Blames
    BY <1>0 DEF ProofInv, IInv, TypeOK, Others
<1>4. TypeOK'
    BY <1>0, <1>1, <1>2 DEF ProofInv, IInv, TypeOK, WritesFor
<1>5. ContiguousNat'
    BY <1>2 DEF ProofInv, ContiguousNat
<1>6. \/ pc'[r] = "del" /\ code'[r] = 0
      \/ pc'[r] = "done" /\ code'[r] = 500
    BY <1>1 DEF ProofInv, IInv, TypeOK
<1>7. ~HasCreated(r)'
    BY <1>1 DEF HasCreated
<1>8. Control(r)'
    BY <1>1, <1>2, <1>6 DEF Control
<1>9. OwnerOf(r)' = u
    BY <1>1, <1>2 DEF OwnerOf, WritesFor
<1> QED  BY <1>0, <1>1, <1>2, <1>3, <1>4, <1>5, <1>7, <1>8, <1>9, WriteStep

LEMMA TransferInv ==
    ASSUME ProofInv, NEW r \in Requests, Transfer(r)
    PROVE  ProofInv'
<1> DEFINE from == req[r].from
           to == req[r].to
           amount == req[r].amount
           us == {accounts[from].owner, accounts[to].owner}
<1> USE DEF Transfer, Starts, Goto, Answer
<1>1. /\ pc[r] = "idle" /\ req[r].kind = "transfer"
      /\ from \in DOMAIN accounts /\ to \in DOMAIN accounts /\ from # to
      /\ accounts[from].balance >= amount
      /\ UNCHANGED <<req, cache, ttl, answer, number>> /\ Blame(us, "transfer")
    BY DEF Allowed
<1>2. amount \in Nat /\ accounts[from] \in Account /\ accounts[to] \in Account
    BY <1>1, MenuAssumption
    DEF ProofInv, IInv, TypeOK, CreateReq, ListReq, DepositReq, TransferReq
<1>3. us \in SUBSET Users
    BY <1>2 DEF Account
<1>4. /\ DOMAIN accounts' = DOMAIN accounts
      /\ accounts'[from] = [owner |-> accounts[from].owner,
                            balance |-> accounts[from].balance - amount]
      /\ accounts'[to] = [owner |-> accounts[to].owner,
                          balance |-> accounts[to].balance + amount]
      /\ \A n \in DOMAIN accounts \ {from, to} : accounts'[n] = accounts[n]
    BY <1>1, <1>2 DEF Account
<1>5. accounts'[from] \in Account /\ accounts'[to] \in Account
    BY <1>1, <1>2, <1>4 DEF Account
<1>6. \A v \in Users : v \notin us => View(v)' = View(v)
    BY <1>1, <1>4, ViewSame
<1>7. WritesFor(us)
    BY <1>1, <1>4, <1>5, <1>6 DEF WritesFor, ProofInv, IInv, TypeOK
<1>0. /\ Blames /\ causes' \in [Users -> SUBSET {"race", "transfer", "failure"}]
      /\ \A u \in us : causes'[u] # {} \/ (cache[u] = NoEntry /\ ~Filling(u))
    <2> HIDE DEF us, Transfer
    <2> QED  BY <1>1, <1>3, BlameMarks DEF ProofInv, IInv
<1>8. Others(r) /\ pc'[r] = "done"
    BY DEF ProofInv, IInv, TypeOK, Others
<1>9. TypeOK'
    <2>1. /\ pc' \in [Requests -> {"idle", "insert", "del", "query", "set", "done"}]
          /\ code' \in [Requests -> {0, 200, 201, 400, 404, 500}]
        BY DEF ProofInv, IInv, TypeOK
    <2>2. DOMAIN accounts' \subseteq Nat /\ \A n \in DOMAIN accounts' : accounts'[n] \in Account
        BY <1>4, <1>5 DEF ProofInv, IInv, TypeOK
    <2> HIDE DEF Transfer, Starts, Goto, Answer
    <2> QED  BY <1>0, <1>1, <2>1, <2>2 DEF ProofInv, IInv, TypeOK
<1>10. ContiguousNat'
    BY <1>4 DEF ProofInv, ContiguousNat
<1>11. ~HasCreated(r)' /\ Control(r)'
    BY <1>1, <1>8 DEF HasCreated, Control
<1> QED  BY <1>0, <1>1, <1>3, <1>7, <1>8, <1>9, <1>10, <1>11, WriteStep

(* Redis, the next client and the crash are not steps of one request.      *)
LEMMA TickInv ==
    ASSUME ProofInv, NEW u \in Users, Tick(u)
    PROVE  ProofInv'
<1>1. /\ UNCHANGED <<req, pc, code, number, answer, accounts>>
      /\ ttl' \in [Users -> 0..Life] /\ DOMAIN cache' = Users
      /\ \A v \in Users : cache'[v] = cache[v] \/ cache'[v] = NoEntry
      /\ UNCHANGED causes \/ (cache'[u] = NoEntry /\ Absolve(u))
    BY LifeAssumption DEF Tick, locals, ProofInv, IInv, TypeOK
<1>2. Blames /\ causes' \in [Users -> SUBSET {"race", "transfer", "failure"}]
    BY <1>1, AbsolveForgets DEF Blames, ProofInv, IInv, TypeOK
<1>3. TypeOK'
    BY <1>1, <1>2 DEF ProofInv, IInv, TypeOK
<1>4. StaleForCause'
    <2>1. \A v \in Users : DelPending(v) => DelPending(v)'
        BY <1>1 DEF DelPending, OwnerOf
    <2> QED  BY <1>1, <1>2, <2>1, StaleKept
<1>5. ControlInv'
    <2> SUFFICES ASSUME NEW q \in Requests
                 PROVE  Control(q)'
        BY DEF ControlInv
    <2>1. Control(q)
        BY DEF ProofInv, IInv, ControlInv
    <2>2. pc[q] = "set" => causes[req[q].user] \subseteq causes'[req[q].user]
        BY <1>2, <2>1, UserOf DEF Control, Blames, Filling, ProofInv, IInv
    <2>3. View(req[q].user)' = View(req[q].user)
        BY <1>1 DEF View, AccountsOf
    <2> QED  BY <1>1, <2>1, <2>2, <2>3 DEF Control
<1> QED  BY <1>1, <1>3, <1>4, <1>5
         DEF ProofInv, IInv, ContiguousNat, NumbersContiguous, CreatorsInv, HasCreated

LEMMA AgainInv ==
    ASSUME ProofInv, NEW r \in Requests, Again(r)
    PROVE  ProofInv'
<1>1. /\ UNCHANGED <<accounts, cache, ttl, causes>> /\ Others(r)
      /\ \A q \in Requests \ {r} : req'[q] = req[q]
      /\ pc[r] = "done" /\ pc'[r] = "idle" /\ code'[r] = 0
    BY DEF Again, Goto, Others, ProofInv, IInv, TypeOK
<1>2. TypeOK'
    BY DEF Again, Goto, ProofInv, IInv, TypeOK
<1>3. CreatorsInv'
    BY <1>1 DEF ProofInv, IInv, CreatorsInv, HasCreated, Others
<1>4. ControlInv'
    <2>1. Control(r)'
        BY <1>1 DEF Control
    <2>2. ASSUME NEW q \in Requests, q # r
          PROVE  Control(q)'
        BY <1>1, <2>2 DEF ProofInv, IInv, ControlInv, Control, Others, View, AccountsOf
    <2> QED  BY <2>1, <2>2 DEF ControlInv
<1>5. StaleForCause'
    <2>1. \A v \in Users : DelPending(v) => DelPending(v)'
        BY <1>1 DEF DelPending, OwnerOf, Others
    <2>2. \A v \in Users : View(v)' = View(v)
        BY <1>1 DEF View, AccountsOf
    <2> QED  BY <1>1, <2>1, <2>2 DEF ProofInv, IInv, StaleForCause
<1> QED  BY <1>1, <1>2, <1>3, <1>4, <1>5
         DEF ProofInv, IInv, ContiguousNat, NumbersContiguous

LEMMA CrashInv ==
    ASSUME ProofInv, Crash
    PROVE  ProofInv'
<1> USE DEF Crash
<1> DEFINE us == {OwnerOf(r) : r \in {q \in Requests : pc[q] = "del"}}
<1>0. /\ Blames /\ causes' \in [Users -> SUBSET {"race", "transfer", "failure"}]
      /\ \A u \in Users : u \in us =>
             causes'[u] # {} \/ (cache[u] = NoEntry /\ ~Filling(u))
    <2>1. Blame(us, "failure")
        OBVIOUS
    <2> HIDE DEF us, Crash
    <2> QED  BY <2>1, BlameMarks DEF ProofInv, IInv
<1>1. \A q \in Requests : pc'[q] = "done" \/ (pc'[q] = "idle" /\ pc[q] = "idle")
    BY DEF Active, ProofInv, IInv, TypeOK
<1>2. Blames /\ TypeOK'
    BY <1>0, <1>1 DEF ProofInv, IInv, TypeOK
<1>3. CreatorsInv'
    <2>1. \A q \in Requests : HasCreated(q)' => HasCreated(q)
        BY <1>1 DEF HasCreated
    <2> QED  BY <2>1 DEF ProofInv, IInv, CreatorsInv
<1>4. ControlInv'
    BY <1>1 DEF ProofInv, IInv, ControlInv, Control
<1>5. StaleForCause'
    <2>1. \A u \in Users : DelPending(u) => u \in us
        BY DEF DelPending
    <2> HIDE DEF us
    <2> QED  BY <1>0, <2>1, StaleKept
<1> QED  BY <1>2, <1>3, <1>4, <1>5 DEF ProofInv, IInv, ContiguousNat, NumbersContiguous
-----------------------------------------------------------------------------
(* The theorems                                                            *)

LEMMA InitInv ==
    ASSUME Init
    PROVE  ProofInv
<1> USE DEF Init
<1>1. PICK k \in Nat : accounts \in [NumbersUpTo(k) -> Account]
    <2>1. PICK k \in 0..Cardinality(DOMAIN accounts) :
              accounts \in [NumbersUpTo(k) -> Account]
        BY TablesAssumption
    <2> QED  BY <2>1
<1>2. ContiguousNat
    BY <1>1 DEF ContiguousNat
<1>3. NumbersContiguous
    BY <1>1, Contiguous
<1>4. TypeOK
    BY <1>1, LifeAssumption DEF TypeOK, NumbersUpTo, BaseNumber
<1>5. CreatorsInv /\ ControlInv /\ StaleForCause
    BY DEF CreatorsInv, HasCreated, ControlInv, Control, StaleForCause
<1> QED  BY <1>2, <1>3, <1>4, <1>5 DEF ProofInv, IInv

LEMMA StutterInv ==
    ASSUME ProofInv, UNCHANGED vars
    PROVE  ProofInv'
<1>1. UNCHANGED <<req, pc, code, number, answer, accounts, cache, ttl, causes>>
    BY DEF vars, locals
<1>2. \A u : View(u)' = View(u) /\ (DelPending(u)' <=> DelPending(u))
    BY <1>1 DEF View, AccountsOf, DelPending, OwnerOf
<1> QED  BY <1>1, <1>2 DEF ProofInv, IInv, TypeOK, ContiguousNat, NumbersContiguous,
        CreatorsInv, HasCreated, ControlInv, Control, StaleForCause

LEMMA StepInv ==
    ASSUME ProofInv, [Next]_vars
    PROVE  ProofInv'
<1>1. ASSUME NEW r \in Requests, Handle(r) \/ Fault(r)
      PROVE  ProofInv'
    <2>1. CASE Reads(r)                   BY <2>1, ReadsInv
    <2>2. CASE Insert(r)                  BY <2>2, InsertInv
    <2>3. CASE UpdateRow(r)               BY <2>3, DepositInv
    <2>4. CASE WriteAnswerLost(r)
        BY <2>4, InsertInv, DepositInv DEF WriteAnswerLost, Starts
    <2>5. CASE Del(r) \/ DelFails(r)      BY <2>5, DelInv
    <2>6. CASE Set(r)                     BY <2>6, SetInv
    <2>7. CASE Transfer(r)                BY <2>7, TransferInv
    <2> QED  BY <1>1, <2>1, <2>2, <2>3, <2>4, <2>5, <2>6, <2>7 DEF Handle, Fault, Reads
<1>2. CASE (\E u \in Users : Tick(u)) \/ (\E r \in Requests : Again(r))
    BY <1>2, TickInv, AgainInv
<1>3. CASE Crash
    BY <1>3, CrashInv
<1>4. CASE Idle \/ UNCHANGED vars
    BY <1>4, StutterInv DEF Idle
<1> QED  BY <1>1, <1>2, <1>3, <1>4 DEF Next

(* The inductive invariant of the account service holds in every reachable *)
(* state, whatever fails.                                                  *)
THEOREM Invariance == Spec => []IInv
<1>1. Init => ProofInv
    BY InitInv
<1>2. ProofInv /\ [Next]_vars => ProofInv'
    BY StepInv
<1>3. ProofInv => IInv
    BY DEF ProofInv
<1> QED  BY <1>1, <1>2, <1>3, PTL DEF Spec

(* Type correctness.  A stored balance is never negative, although no      *)
(* constraint of the schema says so.                                       *)
THEOREM TypeCorrect == Spec => []TypeOK
<1>1. IInv => TypeOK
    BY DEF IInv
<1> QED  BY <1>1, Invariance, PTL

(* However many clients create accounts at once, MAX + 1 and the UNIQUE    *)
(* column number them without a gap.                                       *)
THEOREM NoGaps == Spec => []NumbersContiguous
<1>1. IInv => NumbersContiguous
    BY DEF IInv
<1> QED  BY <1>1, Invariance, PTL

(* Every 201 stands for an account of its own, of the user who asked.      *)
THEOREM CreationsStand == Spec => []CreatedStand
<1>1. IInv => CreatedStand
    BY DEF IInv, CreatorsInv, CreatedStand, HasCreated, Created
<1> QED  BY <1>1, Invariance, PTL

(* A cached list that differs from the table is about to be deleted, or is *)
(* the work of a reader racing a writer, of a transfer, or of a failure.   *)
THEOREM StalenessExplained == Spec => []StaleForCause
<1>1. IInv => StaleForCause
    BY DEF IInv
<1> QED  BY <1>1, Invariance, PTL
-----------------------------------------------------------------------------
(* The table is a book                                                     *)

(* The book of a table of k accounts.                                      *)
LEMMA BookIs ==
    ASSUME NEW table, NEW k \in Nat, DOMAIN table = NumbersUpTo(k),
           \A n \in DOMAIN table : table[n] \in Account
    PROVE  /\ BookOf(table) = [i \in 1..k |-> table[BaseNumber + i]]
           /\ BookOf(table) \in Seq(Account) /\ Len(BookOf(table)) = k
           /\ DOMAIN BookOf(table) = 1..k
           /\ \A i \in 1..k : BookOf(table)[i] = table[BaseNumber + i]
<1>1. Cardinality(DOMAIN table) = k
    BY CardinalityUpTo, Zenon
<1>2. \A i \in 1..k : BaseNumber + i \in DOMAIN table
    BY DEF NumbersUpTo, BaseNumber
<1>3. BookOf(table) = [i \in 1..k |-> table[BaseNumber + i]]
    BY <1>1, Zenon DEF BookOf
<1>4. [i \in 1..k |-> table[BaseNumber + i]] \in [1..k -> Account]
    BY <1>2
<1>5. /\ [i \in 1..k |-> table[BaseNumber + i]] \in Seq(Account)
      /\ Len([i \in 1..k |-> table[BaseNumber + i]]) = k
    BY <1>4
<1> QED  BY <1>3, <1>5

(* The INSERT of a number that was free opens the next account.            *)
LEMMA InsertOpens ==
    ASSUME ProofInv, NEW r \in Requests, pc[r] = "insert",
           number[r] + 1 \notin DOMAIN accounts, accounts' = NewTable(r)
    PROVE  /\ req[r].user \in Users
           /\ BookOf(accounts)' =
                 Append(BookOf(accounts), [owner |-> req[r].user, balance |-> 0])
<1> DEFINE new == [owner |-> req[r].user, balance |-> 0]
<1>1. PICK k \in Nat : DOMAIN accounts = NumbersUpTo(k)
    BY DEF ProofInv, ContiguousNat
<1>2. number[r] + 1 = BaseNumber + k + 1
    BY <1>1, FreeIsNext DEF ProofInv, IInv, TypeOK, ControlInv, Control
<1>3. req[r].user \in Users /\ new \in Account
    BY UserOf DEF ProofInv, IInv, ControlInv, Control, Account
<1> HIDE DEF new
<1>4. /\ DOMAIN accounts' = NumbersUpTo(k + 1)
      /\ accounts'[BaseNumber + k + 1] = new
      /\ \A n \in NumbersUpTo(k) : accounts'[n] = accounts[n] /\ accounts[n] \in Account
    <2>1. /\ DOMAIN accounts' = DOMAIN accounts \cup {number[r] + 1}
          /\ accounts'[number[r] + 1] = new
          /\ \A n \in DOMAIN accounts : accounts'[n] = accounts[n]
        BY DEF NewTable, new
    <2>2. DOMAIN accounts' = NumbersUpTo(k + 1)
        BY <1>1, <1>2, <2>1 DEF NumbersUpTo, BaseNumber
    <2>3. \A n \in DOMAIN accounts : accounts[n] \in Account
        BY DEF ProofInv, IInv, TypeOK
    <2> QED  BY <1>1, <1>2, <2>1, <2>2, <2>3
<1>5. \A n \in NumbersUpTo(k + 1) : accounts'[n] \in Account
    BY <1>3, <1>4 DEF NumbersUpTo, BaseNumber
<1> DEFINE old == BookOf(accounts)
<1>6. /\ old \in Seq(Account) /\ Len(old) = k
      /\ \A i \in 1..k : old[i] = accounts[BaseNumber + i]
    BY <1>1, <1>4, BookIs
<1>7. /\ BookOf(accounts') \in Seq(Account) /\ Len(BookOf(accounts')) = k + 1
      /\ \A i \in 1..(k + 1) : BookOf(accounts')[i] = accounts'[BaseNumber + i]
    BY <1>4, <1>5, BookIs
<1>8. BookOf(accounts') = Append(old, new)
    <2>1. /\ Append(old, new) \in Seq(Account) /\ Len(Append(old, new)) = k + 1
          /\ \A i \in 1..k : Append(old, new)[i] = old[i]
          /\ Append(old, new)[k + 1] = new
        BY <1>3, <1>6, AppendProperties
    <2>2. ASSUME NEW i \in 1..(k + 1)
          PROVE  BookOf(accounts')[i] = Append(old, new)[i]
        <3>1. CASE i = k + 1
            <4>1. BookOf(accounts')[k + 1] = accounts'[BaseNumber + (k + 1)]
                BY <1>7
            <4> QED  BY <1>4, <2>1, <3>1, <4>1 DEF BaseNumber
        <3>2. CASE i # k + 1
            <4>1. i \in 1..k /\ BaseNumber + i \in NumbersUpTo(k)
                BY <3>2 DEF NumbersUpTo, BaseNumber
            <4> QED  BY <1>4, <1>6, <1>7, <2>1, <4>1
        <3> QED  BY <3>1, <3>2
    <2> HIDE DEF old
    <2> QED  BY <1>7, <2>1, <2>2, SeqEqual
<1>9. BookOf(accounts)' = BookOf(accounts')
    BY DEF BookOf
<1> QED  BY <1>3, <1>8, <1>9 DEF new

(* A change of balances changes the book at the same places.               *)
LEMMA SameBook ==
    ASSUME ProofInv, DOMAIN accounts' = DOMAIN accounts,
           \A n \in DOMAIN accounts' : accounts'[n] \in Account
    PROVE  /\ BookOf(accounts)' = [i \in DOMAIN BookOf(accounts) |-> accounts'[BaseNumber + i]]
           /\ BookOf(accounts) =
                 [i \in DOMAIN BookOf(accounts) |-> accounts[BaseNumber + i]]
           /\ \A n \in DOMAIN accounts : n - BaseNumber \in DOMAIN BookOf(accounts)
           /\ \A i \in DOMAIN BookOf(accounts) : i \in Nat /\ BaseNumber + i \in DOMAIN accounts
<1>1. PICK k \in Nat : DOMAIN accounts = NumbersUpTo(k)
    BY DEF ProofInv, ContiguousNat
<1>2. \A n \in DOMAIN accounts : accounts[n] \in Account
    BY DEF ProofInv, IInv, TypeOK
<1>3. /\ BookOf(accounts) = [i \in 1..k |-> accounts[BaseNumber + i]]
      /\ DOMAIN BookOf(accounts) = 1..k
    BY <1>1, <1>2, BookIs
<1>4. BookOf(accounts') = [i \in 1..k |-> accounts'[BaseNumber + i]]
    BY <1>1, BookIs
<1>5. BookOf(accounts)' = BookOf(accounts')
    BY DEF BookOf
<1>6. /\ \A n \in DOMAIN accounts : n - BaseNumber \in 1..k
      /\ \A i \in 1..k : i \in Nat /\ BaseNumber + i \in DOMAIN accounts
    BY <1>1 DEF NumbersUpTo, BaseNumber
<1> QED  BY <1>3, <1>4, <1>5, <1>6, Zenon

LEMMA UpdateDeposits ==
    ASSUME ProofInv, NEW r \in Requests, req[r].kind = "deposit",
           req[r].number \in DOMAIN accounts,
           accounts' = Adding(req[r].number, req[r].amount)
    PROVE  \E i \in DOMAIN BookOf(accounts) :
               BookOf(accounts)' = [BookOf(accounts) EXCEPT ![i].balance = @ + req[r].amount]
<1> DEFINE n == req[r].number
           i == n - BaseNumber
           book == BookOf(accounts)
<1>1. DOMAIN accounts' = DOMAIN accounts /\ \A m \in DOMAIN accounts' : accounts'[m] \in Account
    BY AddingWrites DEF ProofInv, IInv, WritesFor
<1>2. /\ book' = [j \in DOMAIN book |-> accounts'[BaseNumber + j]]
      /\ book = [j \in DOMAIN book |-> accounts[BaseNumber + j]]
      /\ i \in DOMAIN book
      /\ \A j \in DOMAIN book : j \in Nat /\ BaseNumber + j \in DOMAIN accounts
    BY <1>1, SameBook
<1>3. n \in Nat /\ BaseNumber \in Nat
    BY DEF ProofInv, IInv, TypeOK, BaseNumber
<1>4. \A m \in DOMAIN accounts :
          accounts'[m] = IF m = n THEN [accounts[m] EXCEPT !.balance = @ + req[r].amount]
                                  ELSE accounts[m]
    BY DEF Adding
<1> DEFINE new == [book EXCEPT ![i].balance = @ + req[r].amount]
<1>5. ASSUME NEW j \in DOMAIN book
      PROVE  accounts'[BaseNumber + j] = new[j]
    <2>1. book[j] = accounts[BaseNumber + j] /\ BaseNumber + j \in DOMAIN accounts /\ j \in Nat
        BY <1>2
    <2>2. BaseNumber + j = n <=> j = i
        BY <1>3, <2>1
    <2>3. new[j] = IF j = i THEN [book[j] EXCEPT !.balance = @ + req[r].amount] ELSE book[j]
        BY <1>2
    <2> HIDE DEF i, n, book, new
    <2> QED  BY <1>4, <2>1, <2>2, <2>3
<1>6. new = [j \in DOMAIN book |-> new[j]]
    OBVIOUS
<1>7. book' = new
    <2> HIDE DEF new, book
    <2> QED  BY <1>2, <1>5, <1>6
<1> QED  BY <1>2, <1>7

LEMMA TransferMoves ==
    ASSUME ProofInv, NEW r \in Requests, Transfer(r)
    PROVE  \E i, j \in DOMAIN BookOf(accounts) :
               /\ i # j
               /\ req[r].amount =< BookOf(accounts)[i].balance
               /\ BookOf(accounts)' = [BookOf(accounts) EXCEPT ![i].balance = @ - req[r].amount,
                                                               ![j].balance = @ + req[r].amount]
<1> DEFINE from == req[r].from
           to == req[r].to
           amount == req[r].amount
           i == from - BaseNumber
           j == to - BaseNumber
           book == BookOf(accounts)
<1>1. /\ from \in DOMAIN accounts /\ to \in DOMAIN accounts /\ from # to
      /\ accounts[from].balance >= amount
      /\ accounts' = [accounts EXCEPT ![from].balance = @ - amount, ![to].balance = @ + amount]
      /\ req[r].kind = "transfer"
    BY DEF Transfer, Allowed, Starts
<1>2. amount \in Nat /\ from \in Nat /\ to \in Nat /\ BaseNumber \in Nat
    BY <1>1, MenuAssumption DEF ProofInv, IInv, TypeOK, CreateReq, ListReq, DepositReq,
                                TransferReq, BaseNumber
<1>3. /\ DOMAIN accounts' = DOMAIN accounts
      /\ \A m \in DOMAIN accounts : accounts'[m] =
            IF m = from THEN [accounts[m] EXCEPT !.balance = @ - amount]
            ELSE IF m = to THEN [accounts[m] EXCEPT !.balance = @ + amount]
            ELSE accounts[m]
    BY <1>1
<1>4. \A m \in DOMAIN accounts' : accounts'[m] \in Account
    BY TransferInv DEF ProofInv, IInv, TypeOK
<1>5. /\ book' = [l \in DOMAIN book |-> accounts'[BaseNumber + l]]
      /\ book = [l \in DOMAIN book |-> accounts[BaseNumber + l]]
      /\ i \in DOMAIN book /\ j \in DOMAIN book
      /\ \A l \in DOMAIN book : l \in Nat /\ BaseNumber + l \in DOMAIN accounts
    BY <1>1, <1>3, <1>4, SameBook
<1>6. i # j /\ BaseNumber + i = from /\ BaseNumber + j = to
    BY <1>1, <1>2
<1> DEFINE new == [book EXCEPT ![i].balance = @ - amount, ![j].balance = @ + amount]
<1>7. ASSUME NEW l \in DOMAIN book
      PROVE  accounts'[BaseNumber + l] = new[l]
    <2>1. book[l] = accounts[BaseNumber + l] /\ BaseNumber + l \in DOMAIN accounts /\ l \in Nat
        BY <1>5
    <2>2. (BaseNumber + l = from <=> l = i) /\ (BaseNumber + l = to <=> l = j)
        BY <1>2, <2>1
    <2>3. new[l] = IF l = i THEN [book[l] EXCEPT !.balance = @ - amount]
                   ELSE IF l = j THEN [book[l] EXCEPT !.balance = @ + amount]
                   ELSE book[l]
        BY <1>5, <1>6
    <2> HIDE DEF i, j, from, to, amount, book, new
    <2> QED  BY <1>3, <2>1, <2>2, <2>3
<1>8. new = [l \in DOMAIN book |-> new[l]]
    OBVIOUS
<1>9. book' = new
    <2> HIDE DEF new, book
    <2> QED  BY <1>5, <1>7, <1>8
<1>10. amount =< book[i].balance
    <2>1. book[i] = accounts[from]
        BY <1>5, <1>6
    <2>2. accounts[from].balance \in Nat
        BY <1>1 DEF ProofInv, IInv, TypeOK, Account
    <2> HIDE DEF book, i, from, amount
    <2> QED  BY <1>1, <1>2, <2>1, <2>2
<1> QED  BY <1>5, <1>6, <1>9, <1>10

(* What clients were told changes with a 201 only.                         *)
LEMMA ToldSame ==
    ASSUME NEW r \in Requests, Others(r), req' = req, ~Created(r), ~Created(r)'
    PROVE  Told' = Told
<1>1. \A q \in Requests : Created(q)' <=> Created(q)
    BY DEF Created, Others
<1>2. \A q \in Requests : Created(q) => number'[q] = number[q]
    BY DEF Others
<1> QED  BY <1>1, <1>2 DEF Told

LEMMA DelTells ==
    ASSUME ProofInv, NEW r \in Requests, Del(r) \/ DelFails(r)
    PROVE  B!Next \/ UNCHANGED B!vars
<1> USE DEF Del, DelFails, Answer, Goto, WriteCode
<1>1. /\ UNCHANGED <<req, accounts, number>> /\ pc[r] = "del" /\ Control(r)
      /\ code'[r] = IF req[r].kind = "create" THEN 201 ELSE 200
    BY DEF ProofInv, IInv, TypeOK, ControlInv
<1>2. Others(r)
    BY DEF ProofInv, IInv, TypeOK, Others
<1>3. ~Created(r)
    BY <1>1 DEF Control, Created
<1>4. BookOf(accounts)' = BookOf(accounts)
    BY <1>1 DEF BookOf
<1>5. CASE req[r].kind # "create"
    <2>1. Told' = Told
        BY <1>1, <1>2, <1>3, <1>5, ToldSame DEF Created
    <2> QED  BY <1>4, <2>1 DEF B!vars
<1>6. CASE req[r].kind = "create"
    <2> DEFINE u == req[r].user
               i == number[r] - BaseNumber
    <2>1. /\ number[r] \in DOMAIN accounts /\ accounts[number[r]].owner = u /\ u \in Users
          /\ \A q \in Requests \ {r} : Created(q) => number[q] # number[r]
        BY <1>1, <1>6, UserOf DEF ProofInv, IInv, CreatorsInv, HasCreated, Created
    <2>2. /\ i \in DOMAIN BookOf(accounts)
          /\ BookOf(accounts) = [j \in DOMAIN BookOf(accounts) |-> accounts[BaseNumber + j]]
        <3>1. \A n \in DOMAIN accounts' : accounts'[n] \in Account
            BY <1>1 DEF ProofInv, IInv, TypeOK
        <3> QED  BY <1>1, <2>1, <3>1, SameBook
    <2>3. \A q \in Requests : number[q] \in Nat
        BY DEF ProofInv, IInv, TypeOK
    <2>4. BookOf(accounts)[i].owner = u
        <3>1. BaseNumber + i = number[r]
            BY <2>3 DEF BaseNumber
        <3> HIDE DEF i
        <3> QED  BY <2>1, <2>2, <3>1
    <2>5. \A t \in Told : t.req # r /\ t.place # i
        <3> SUFFICES ASSUME NEW q \in Requests, Created(q)
                     PROVE  q # r /\ number[q] - BaseNumber # i
            BY DEF Told
        <3>1. q # r /\ number[q] # number[r]
            BY <1>3, <2>1
        <3> QED  BY <2>3, <3>1 DEF BaseNumber
    <2>6. Told' = Told \cup {[req |-> r, user |-> u, place |-> i]}
        <3>1. \A q \in Requests : Created(q)' <=> Created(q) \/ q = r
            BY <1>1, <1>2, <1>6 DEF Created, Others
        <3>2. req' = req /\ number' = number
            BY <1>1
        <3> HIDE DEF Del, DelFails, Answer, Goto, WriteCode
        <3> QED  BY <3>1, <3>2 DEF Told
    <2> HIDE DEF i, u
    <2>7. B!Tell(r, u, i)
        BY <1>4, <2>2, <2>4, <2>5, <2>6 DEF B!Tell
    <2> QED  BY <2>1, <2>2, <2>7 DEF B!Next
<1> QED  BY <1>5, <1>6

(* A step of r leaves the other requests, and their users' keys, alone.    *)
LEMMA StepEffects ==
    ASSUME ProofInv, NEW r \in Requests, Handle(r) \/ Fault(r)
    PROVE  /\ Others(r)
           /\ req' = req
           /\ \/ answer' = answer
              \/ CacheHit(r) /\ answer'[r] = cache[req[r].user]
              \/ answer'[r] = View(req[r].user)
              \/ \E some \in SUBSET AccountsOf(req[r].user) :
                     answer'[r] = Restrict(View(req[r].user), some)
           /\ \/ cache' = cache
              \/ \A u \in Users : \/ cache'[u] \in {cache[u], NoEntry}
                                  \/ u = req[r].user /\ cache'[u] = answer[r]
<1> USE DEF Starts, Goto, Answer, ProofInv, IInv, TypeOK, Others
<1>1. CASE \/ GetLastAccountNumber(r) \/ InsertConflicts(r) \/ AccountNotFound(r)
           \/ CacheMiss(r) \/ TransferRefused(r) \/ StatementFails(r)
           \/ GetFails(r) \/ SetFails(r)
    BY <1>1 DEF GetLastAccountNumber, InsertConflicts, AccountNotFound, CacheMiss,
                TransferRefused, StatementFails, GetFails, SetFails
<1>2. CASE CacheHit(r) \/ Query(r)
    BY <1>2 DEF CacheHit, Query
<1>3. CASE QueryCutShort(r)
    BY <1>3 DEF QueryCutShort
<1>4. CASE Insert(r) \/ UpdateRow(r) \/ WriteAnswerLost(r) \/ Transfer(r)
    <2>1. CASE Insert(r)           BY <2>1 DEF Insert
    <2>2. CASE UpdateRow(r)        BY <2>2 DEF UpdateRow
    <2>3. CASE WriteAnswerLost(r)  BY <2>3 DEF WriteAnswerLost
    <2>4. CASE Transfer(r)         BY <2>4 DEF Transfer
    <2> QED  BY <1>4, <2>1, <2>2, <2>3, <2>4
<1>5. CASE Del(r) \/ DelFails(r)
    BY <1>5 DEF Del, DelFails
<1>6. CASE Set(r)
    BY <1>6 DEF Set
<1> QED  BY <1>1, <1>2, <1>3, <1>4, <1>5, <1>6 DEF Handle, Fault

(* The steps of a request on the table, and all others.                    *)
LEMMA HandlerIsBookStep ==
    ASSUME ProofInv, NEW r \in Requests, Handle(r) \/ Fault(r)
    PROVE  B!Next \/ UNCHANGED B!vars
<1>1. Others(r) /\ req' = req
    BY StepEffects
<1>2. pc[r] # "done" => code[r] = 0
    BY DEF ProofInv, IInv, ControlInv, Control
<1>3. CASE Reads(r) \/ Set(r)
    <2>1. accounts' = accounts /\ pc[r] # "done" /\ code'[r] # 201
        BY <1>2, <1>3 DEF Reads, GetLastAccountNumber, InsertConflicts, AccountNotFound,
            CacheHit, CacheMiss, Query, TransferRefused, StatementFails,
            GetFails, SetFails, QueryCutShort, Set, Starts, Answer, Goto, ProofInv, IInv, TypeOK
    <2>2. Told' = Told
        BY <1>1, <1>2, <2>1, ToldSame DEF Created
    <2> QED  BY <2>1, <2>2 DEF BookOf, B!vars
<1>4. CASE Insert(r) \/ (pc[r] = "insert" /\ WriteAnswerLost(r))
    <2>1. /\ pc[r] = "insert" /\ number[r] + 1 \notin DOMAIN accounts
          /\ accounts' = NewTable(r) /\ code'[r] # 201
        BY <1>2, <1>4 DEF Insert, WriteAnswerLost, Starts, Goto, Answer, ProofInv, IInv, TypeOK
    <2>2. Told' = Told
        BY <1>1, <1>2, <2>1, ToldSame DEF Created
    <2> QED  BY <2>1, <2>2, InsertOpens DEF B!Next, B!Open
<1>5. CASE UpdateRow(r) \/ (pc[r] = "idle" /\ WriteAnswerLost(r))
    <2>1. /\ req[r].kind = "deposit" /\ req[r].number \in DOMAIN accounts
          /\ accounts' = Adding(req[r].number, req[r].amount)
        BY <1>5 DEF UpdateRow, WriteAnswerLost, Starts
    <2>2. Told' = Told
        BY <1>1, <2>1, ToldSame DEF Created
    <2>3. req[r].amount \in {m.amount : m \in {n \in Menu : n.kind \in {"deposit", "transfer"}}}
        BY <2>1 DEF ProofInv, IInv, TypeOK
    <2> QED  BY <2>1, <2>2, <2>3, UpdateDeposits DEF B!Next, B!Deposit
<1>6. CASE Transfer(r)
    <2>1. req[r].kind = "transfer"
        BY <1>6 DEF Transfer, Starts
    <2>2. Told' = Told
        BY <1>1, <2>1, ToldSame DEF Created
    <2>3. req[r].amount \in {m.amount : m \in {n \in Menu : n.kind \in {"deposit", "transfer"}}}
        BY <2>1 DEF ProofInv, IInv, TypeOK
    <2> DEFINE book == BookOf(accounts)
               amount == req[r].amount
    <2>4. PICK i \in DOMAIN book, j \in DOMAIN book :
              /\ i # j
              /\ amount =< book[i].balance
              /\ book' = [book EXCEPT ![i].balance = @ - amount, ![j].balance = @ + amount]
        BY <1>6, TransferMoves, Zenon
    <2>5. B!Transfer(i, j, amount)
        BY <2>2, <2>4, Zenon DEF B!Transfer
    <2> QED  BY <2>3, <2>4, <2>5, Zenon DEF B!Next
<1>7. CASE Del(r) \/ DelFails(r)
    BY <1>7, DelTells
<1> QED  BY <1>3, <1>4, <1>5, <1>6, <1>7 DEF Handle, Fault, Reads, WriteAnswerLost, Starts

(* Reading MAX, inserting MAX + 1 and losing the race for it, depositing,  *)
(* transferring and answering, statement by statement and whatever fails,  *)
(* implement a book of accounts that grows by one account at a time.       *)
THEOREM ImplementsBook == Spec => BookSpec
<1>1. Init => B!Init
    BY DEF Init, B!Init, Told, Created
<1>2. ProofInv /\ [Next]_vars => [B!Next]_(B!vars)
    <2> SUFFICES ASSUME ProofInv, [Next]_vars
                 PROVE  B!Next \/ UNCHANGED B!vars
        OBVIOUS
    <2>1. CASE Crash \/ Idle \/ (\E u \in Users : Tick(u)) \/ UNCHANGED vars
        <3>1. UNCHANGED <<req, code, number, accounts>>
            BY <2>1 DEF Crash, Idle, Tick, vars, locals
        <3> QED  BY <3>1 DEF B!vars, BookOf, Told, Created
    <2>2. ASSUME NEW r \in Requests, Again(r)
          PROVE  UNCHANGED B!vars
        <3>0. /\ DOMAIN req = Requests /\ DOMAIN code = Requests
              /\ DOMAIN number = Requests
            BY DEF ProofInv, IInv, TypeOK
        <3>1. /\ accounts' = accounts /\ req[r].kind \in {"list", "transfer"}
              /\ code'[r] = 0
              /\ \A q \in Requests \ {r} : req'[q] = req[q]
              /\ \A q \in Requests \ {r} : code'[q] = code[q]
              /\ \A q \in Requests \ {r} : number'[q] = number[q]
            BY <2>2, <3>0, RepeatedAssumption DEF Again
        <3>2. /\ \A q \in Requests : Created(q)' <=> Created(q)
              /\ \A q \in Requests :
                     Created(q) => number'[q] = number[q] /\ req'[q] = req[q]
            BY <3>1 DEF Created
        <3>3. Told' = Told
            BY <3>2 DEF Told
        <3> QED  BY <3>1, <3>3 DEF B!vars, BookOf
    <2> QED  BY <2>1, <2>2, HandlerIsBookStep DEF Next
<1>3. ProofInv /\ [Next]_vars => ProofInv'
    BY StepInv
<1> QED  BY <1>1, <1>2, <1>3, InitInv, PTL DEF Spec, BookSpec, B!Spec
-----------------------------------------------------------------------------
(* Lists                                                                   *)

(* An account stays its owner's.                                           *)
LEMMA AccountsStay ==
    ASSUME ProofInv, [Next]_vars
    PROVE  \A u : AccountsOf(u) \subseteq AccountsOf(u)'
<1>1. ASSUME NEW us, WritesFor(us)
      PROVE  \A u : AccountsOf(u) \subseteq AccountsOf(u)'
    BY <1>1 DEF WritesFor, AccountsOf
<1>2. CASE accounts' = accounts
    BY <1>2 DEF AccountsOf
<1>3. ASSUME NEW r \in Requests, Insert(r) \/ UpdateRow(r) \/ WriteAnswerLost(r)
      PROVE  \E us : WritesFor(us)
    <2>1. Control(r) /\ TypeOK
        BY DEF ProofInv, IInv, ControlInv
    <2> QED  BY <1>3, <2>1, NewTableWrites, AddingWrites
             DEF Insert, UpdateRow, WriteAnswerLost, Starts, Control
<1>4. ASSUME NEW r \in Requests, Transfer(r)
      PROVE  \A u : AccountsOf(u) \subseteq AccountsOf(u)'
    <2> DEFINE from == req[r].from
               to == req[r].to
    <2>1. /\ DOMAIN accounts' = DOMAIN accounts
          /\ \A n \in DOMAIN accounts : accounts[n] \in Account
          /\ \A n \in DOMAIN accounts : accounts'[n] =
                IF n = from THEN [accounts[n] EXCEPT !.balance = @ - req[r].amount]
                ELSE IF n = to THEN [accounts[n] EXCEPT !.balance = @ + req[r].amount]
                ELSE accounts[n]
        BY <1>4 DEF Transfer, Allowed, ProofInv, IInv, TypeOK
    <2>2. \A n \in DOMAIN accounts : accounts'[n].owner = accounts[n].owner
        BY <2>1 DEF Account
    <2> QED  BY <2>1, <2>2 DEF AccountsOf
<1>5. \/ accounts' = accounts
      \/ \E r \in Requests : \/ Insert(r) \/ UpdateRow(r) \/ WriteAnswerLost(r)
                             \/ Transfer(r)
    BY DEF Next, Handle, Fault, GetLastAccountNumber, InsertConflicts, AccountNotFound, Del,
           CacheHit, CacheMiss, Query, Set, TransferRefused, StatementFails, QueryCutShort,
           GetFails, SetFails, DelFails, Tick, Again, Crash, Idle, vars
<1> QED  BY <1>1, <1>2, <1>3, <1>4, <1>5

LEMMA ListsStayOwn ==
    ASSUME ProofInv, ListsAreOwn, [Next]_vars
    PROVE  ListsAreOwn'
<1>1. CASE Crash \/ Idle \/ (\E u \in Users : Tick(u)) \/ UNCHANGED vars
    <2>1. answer' = answer /\ req' = req
        BY <1>1 DEF Crash, Idle, Tick, vars, locals
    <2>2. \A u \in Users : cache'[u] \in {cache[u], NoEntry}
        BY <1>1 DEF Crash, Idle, Tick, vars, ProofInv, IInv, TypeOK
    <2> QED  BY <2>1, <2>2, AccountsStay DEF ListsAreOwn
<1>2. ASSUME NEW r \in Requests, Handle(r) \/ Fault(r)
      PROVE  ListsAreOwn'
    <2>1. req' = req
        BY <1>2, StepEffects
    <2>2. ASSUME NEW u \in Users, cache'[u] # NoEntry
          PROVE  DOMAIN cache'[u] \subseteq AccountsOf(u)
        <3>1. \/ cache'[u] \in {cache[u], NoEntry}
              \/ u = req[r].user /\ cache'[u] = answer[r]
            BY <1>2, StepEffects
        <3> QED  BY <2>2, <3>1 DEF ListsAreOwn
    <2>3. ASSUME NEW q \in Requests, answer'[q] # NoEntry
          PROVE  DOMAIN answer'[q] \subseteq AccountsOf(req[q].user)
        <3>1. CASE q # r \/ answer'[q] = answer[q]
            BY <1>2, <2>3, <3>1, StepEffects DEF ListsAreOwn, Others
        <3>2. CASE q = r /\ answer'[q] # answer[q]
            <4>1. \/ CacheHit(r) /\ answer'[r] = cache[req[r].user]
                  \/ answer'[r] = View(req[r].user)
                  \/ \E some \in SUBSET AccountsOf(req[r].user) :
                         answer'[r] = Restrict(View(req[r].user), some)
                BY <1>2, <3>2, StepEffects
            <4>2. CASE CacheHit(r) /\ answer'[r] = cache[req[r].user]
                <5>1. req[r].user \in Users
                    BY <4>2, UserOf DEF CacheHit, Starts, ProofInv, IInv
                <5> QED  BY <2>3, <3>2, <4>2, <5>1 DEF ListsAreOwn
            <4>3. CASE answer'[r] = View(req[r].user)
                BY <3>2, <4>3 DEF View
            <4>4. CASE \E some \in SUBSET AccountsOf(req[r].user) :
                           answer'[r] = Restrict(View(req[r].user), some)
                BY <3>2, <4>4 DEF Restrict
            <4> QED  BY <4>1, <4>2, <4>3, <4>4
        <3> QED  BY <3>1, <3>2
    <2> QED  BY <2>1, <2>2, <2>3, AccountsStay DEF ListsAreOwn
<1>3. ASSUME NEW r \in Requests, Again(r)
      PROVE  ListsAreOwn'
    <2>1. /\ UNCHANGED <<accounts, cache>> /\ answer'[r] = NoEntry
          /\ \A q \in Requests \ {r} : answer'[q] = answer[q] /\ req'[q] = req[q]
        BY <1>3 DEF Again, ProofInv, IInv, TypeOK
    <2> QED  BY <2>1 DEF ListsAreOwn, AccountsOf
<1> QED  BY <1>1, <1>2, <1>3 DEF Next

(* Races, failures and stale keys make lists old or short; never do they   *)
(* show a user somebody else's account.                                    *)
THEOREM ListsStayPrivate == Spec => []ListsAreOwn
<1>1. Init => ListsAreOwn
    BY DEF Init, ListsAreOwn
<1>2. ProofInv /\ [Next]_vars => ProofInv'
    BY StepInv
<1>3. ProofInv /\ ListsAreOwn /\ [Next]_vars => ListsAreOwn'
    BY ListsStayOwn
<1> QED  BY <1>1, <1>2, <1>3, InitInv, PTL DEF Spec
=============================================================================
