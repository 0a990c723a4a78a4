--------------------------- MODULE AccountService ---------------------------
(***************************************************************************)
(* AccountService: account numbers and the cached list of accounts.        *)
(*                                                                         *)
(* CreateNewAccount reads the highest account number, inserts a row with   *)
(* the next one (the column is UNIQUE) and deletes the owner's cache key.  *)
(* ListAccountsForUser is cache-aside: read Redis, else read the table and *)
(* fill Redis for ten minutes.  DepositToAccount updates a row and deletes *)
(* the owner's key.  TransferMoney, of another service, writes balances    *)
(* too and knows nothing of the cache; here it is one step (Transfers has  *)
(* it statement by statement).                                             *)
(*                                                                         *)
(* An account is named by its number.  Amounts are whole cents that fit.   *)
(* A request of a kind in Repeated, once served, may be followed by        *)
(* another under its name, so that clients can go on asking for ever.      *)
(***************************************************************************)
EXTENDS Integers, FiniteSetsExt, Functions

CONSTANTS Requests,  \* identities of the HTTP requests
          Users,     \* user ids
          Tables,    \* what the accounts table may hold at the start
          Menu,      \* what a request may ask for
          Repeated,  \* the kinds of request that others may follow
          Life,      \* the ten minutes of a cache entry, in ticks
          NoEntry,   \* the absence of a cache entry, or of an answer
          Failures   \* which parts may fail

(* Where GetLastAccountNumber starts when there is no account.             *)
BaseNumber == 1000000000

CreateReq == [kind : {"create"}, user : Users]
ListReq == [kind : {"list"}, user : Users]
DepositReq == [kind : {"deposit"}, number : Nat, amount : Nat \ {0}]
TransferReq == [kind : {"transfer"}, user : Users, from : Nat, to : Nat,
                amount : Nat \ {0}]

Account == [owner : Users, balance : Nat]

(* The first k account numbers.                                            *)
NumbersUpTo(k) == (BaseNumber + 1)..(BaseNumber + k)

ASSUME TablesAssumption ==
    \A table \in Tables : \E k \in 0..Cardinality(DOMAIN table) :
        table \in [NumbersUpTo(k) -> Account]
ASSUME MenuAssumption ==
    Menu \subseteq CreateReq \cup ListReq \cup DepositReq \cup TransferReq
ASSUME RepeatedAssumption == Repeated \subseteq {"list", "transfer"}
ASSUME LifeAssumption == Life \in Nat \ {0}
ASSUME FailuresAssumption ==
    Failures \subseteq {"database", "rows", "cacheReads", "cacheWrites", "crash"}

VARIABLES req,       \* req[r]: what request r asks for
          pc,        \* pc[r]: what request r does next
          code,      \* code[r]: its HTTP status, 0 if none was sent
          number,    \* number[r]: lastAccountNumber, then account.AccountNumber
          answer,    \* answer[r]: the accounts a list request read
          accounts,  \* the accounts table: account number -> owner and balance
          cache,     \* cache[u]: the Redis key accounts:u
          ttl,       \* ttl[u]: the ticks left to cache[u], 0 if there is none
          causes     \* history: causes[u], what may have made cache[u] stale

locals == <<pc, code, number, answer>>
vars == <<req, locals, accounts, cache, ttl, causes>>

AccountsOf(u) == {n \in DOMAIN accounts : accounts[n].owner = u}

(* SELECT ... FROM accounts WHERE user_id = u.                             *)
View(u) == [n \in AccountsOf(u) |-> accounts[n].balance]

Active(r) == pc[r] \notin {"idle", "done"}

TypeOK ==
    /\ req \in [Requests -> Menu]
    /\ pc \in [Requests -> {"idle", "insert", "del", "query", "set", "done"}]
    /\ code \in [Requests -> {0, 200, 201, 400, 404, 500}]
    /\ number \in [Requests -> Nat]
    /\ DOMAIN accounts \subseteq Nat
    /\ \A n \in DOMAIN accounts : accounts[n] \in Account
    /\ DOMAIN answer = Requests
    /\ DOMAIN cache = Users
    /\ ttl \in [Users -> 0..Life]
    /\ causes \in [Users -> SUBSET {"race", "transfer", "failure"}]

Init ==
    /\ req \in [Requests -> Menu]
    /\ pc = [r \in Requests |-> "idle"]
    /\ code = [r \in Requests |-> 0]
    /\ number = [r \in Requests |-> 0]
    /\ answer = [r \in Requests |-> NoEntry]
    /\ accounts \in Tables
    /\ cache = [u \in Users |-> NoEntry]
    /\ ttl = [u \in Users |-> 0]
    /\ causes = [u \in Users |-> {}]

Starts(r, kind) == pc[r] = "idle" /\ req[r].kind = kind
Goto(r, label) == pc' = [pc EXCEPT ![r] = label]
Answer(r, status) == Goto(r, "done") /\ code' = [code EXCEPT ![r] = status]

(* The user whose cache key a write of r deletes.                          *)
OwnerOf(r) == IF req[r].kind = "create" THEN req[r].user
              ELSE accounts[req[r].number].owner

(* A list request of u has read the table and not yet filled the cache.    *)
Filling(u) == \E q \in Requests : pc[q] = "set" /\ req[q].user = u

(* What is cached of u, or about to be, has a cause to be stale.           *)
Blame(us, cause) ==
    LET exposed == {u \in us : cache[u] # NoEntry \/ Filling(u)} IN
    causes' = [u \in Users |->
                  IF u \in exposed THEN causes[u] \cup {cause} ELSE causes[u]]

(* Nothing is cached of u any more: what was to blame for it is over.      *)
Absolve(u) == causes' = IF Filling(u) THEN causes ELSE [causes EXCEPT ![u] = {}]

(* A write for u is a race with the list requests that will cache what     *)
(* they read before it.                                                    *)
BlameRace(u) == IF Filling(u) THEN Blame({u}, "race") ELSE UNCHANGED causes
-----------------------------------------------------------------------------
(* CreateNewAccount                                                        *)

(* Mutant: the first number is taken for the last when there is none.      *)
FirstAccountNumber ==
    IF DOMAIN accounts = {} THEN BaseNumber + 1 ELSE Max(DOMAIN accounts)

(* SELECT MAX(account_number), or the base when the table is empty.        *)
LastAccountNumber == IF DOMAIN accounts = {} THEN BaseNumber ELSE Max(DOMAIN accounts)

GetLastAccountNumber(r) ==
    /\ Starts(r, "create")
    /\ number' = [number EXCEPT ![r] = LastAccountNumber]
    /\ Goto(r, "insert")
    /\ UNCHANGED <<req, code, answer, accounts, cache, ttl, causes>>

(* The row of an account as inserted: its balance is the column's default. *)
NewTable(r) ==
    LET new == number[r] + 1 IN
    [n \in DOMAIN accounts \cup {new} |->
        IF n = new THEN [owner |-> req[r].user, balance |-> 0] ELSE accounts[n]]

(* Mutant: the error of the INSERT is not looked at.                       *)
InsertUnchecked(r) ==
    /\ pc[r] = "insert"
    /\ accounts' = IF number[r] + 1 \in DOMAIN accounts THEN accounts ELSE NewTable(r)
    /\ number' = [number EXCEPT ![r] = @ + 1]
    /\ BlameRace(req[r].user)
    /\ Goto(r, "del")
    /\ UNCHANGED <<req, code, answer, cache, ttl>>

(* Mutant: the cache key is not deleted after the insert.                  *)
InsertNoDel(r) ==
    /\ pc[r] = "insert"
    /\ number[r] + 1 \notin DOMAIN accounts
    /\ accounts' = NewTable(r)
    /\ number' = [number EXCEPT ![r] = @ + 1]
    /\ BlameRace(req[r].user)
    /\ Answer(r, 201)
    /\ UNCHANGED <<req, answer, cache, ttl>>

(* INSERT INTO accounts, alone in its transaction.                         *)
Insert(r) ==
    /\ pc[r] = "insert"
    /\ number[r] + 1 \notin DOMAIN accounts
    /\ accounts' = NewTable(r)
    /\ number' = [number EXCEPT ![r] = @ + 1]
    /\ BlameRace(req[r].user)
    /\ Goto(r, "del")
    /\ UNCHANGED <<req, code, answer, cache, ttl>>

(* Another request took the number first.                                  *)
InsertConflicts(r) ==
    /\ pc[r] = "insert"
    /\ number[r] + 1 \in DOMAIN accounts
    /\ Answer(r, 500)
    /\ UNCHANGED <<req, number, answer, accounts, cache, ttl, causes>>
-----------------------------------------------------------------------------
(* DepositToAccount                                                        *)

(* Mutant: SET balance = $1, not balance + $1.                             *)
Overwriting(n, amount) == [accounts EXCEPT ![n].balance = amount]

(* The table with an amount added to the account n.                        *)
Adding(n, amount) == [accounts EXCEPT ![n].balance = @ + amount]

UpdateRow(r) ==
    /\ Starts(r, "deposit")
    /\ req[r].number \in DOMAIN accounts
    /\ accounts' = Adding(req[r].number, req[r].amount)
    /\ BlameRace(OwnerOf(r))
    /\ Goto(r, "del")
    /\ UNCHANGED <<req, code, number, answer, cache, ttl>>

AccountNotFound(r) ==
    /\ Starts(r, "deposit")
    /\ req[r].number \notin DOMAIN accounts
    /\ Answer(r, 404)
    /\ UNCHANGED <<req, number, answer, accounts, cache, ttl, causes>>

WriteCode(r) == IF req[r].kind = "create" THEN 201 ELSE 200

(* cacheClient.Del of the owner's key, then the answer, for both writes.   *)
Del(r) ==
    /\ pc[r] = "del"
    /\ cache' = [cache EXCEPT ![OwnerOf(r)] = NoEntry]
    /\ ttl' = [ttl EXCEPT ![OwnerOf(r)] = 0]
    /\ Absolve(OwnerOf(r))
    /\ Answer(r, WriteCode(r))
    /\ UNCHANGED <<req, number, answer, accounts>>
-----------------------------------------------------------------------------
(* ListAccountsForUser                                                     *)

(* Mutant: a hit gives the entry its ten minutes anew.                     *)
CacheHitRenews(r) ==
    /\ Starts(r, "list")
    /\ cache[req[r].user] # NoEntry
    /\ answer' = [answer EXCEPT ![r] = cache[req[r].user]]
    /\ ttl' = [ttl EXCEPT ![req[r].user] = Life]
    /\ Answer(r, 200)
    /\ UNCHANGED <<req, number, accounts, cache, causes>>

CacheHit(r) ==
    /\ Starts(r, "list")
    /\ cache[req[r].user] # NoEntry
    /\ answer' = [answer EXCEPT ![r] = cache[req[r].user]]
    /\ Answer(r, 200)
    /\ UNCHANGED <<req, number, accounts, cache, ttl, causes>>

CacheMiss(r) ==
    /\ Starts(r, "list")
    /\ cache[req[r].user] = NoEntry
    /\ Absolve(req[r].user)
    /\ Goto(r, "query")
    /\ UNCHANGED <<req, code, number, answer, accounts, cache, ttl>>

(* GetAccountsByUserID.                                                    *)
Query(r) ==
    /\ pc[r] = "query"
    /\ answer' = [answer EXCEPT ![r] = View(req[r].user)]
    /\ Goto(r, "set")
    /\ UNCHANGED <<req, code, number, accounts, cache, ttl, causes>>

(* Mutant: the cache key does not name the user.                           *)
SetOneKey(r) ==
    /\ pc[r] = "set"
    /\ cache' = [u \in Users |-> answer[r]]
    /\ ttl' = [u \in Users |-> Life]
    /\ Answer(r, 200)
    /\ UNCHANGED <<req, number, answer, accounts, causes>>

(* cacheClient.Set, with a TTL of ten minutes.                             *)
Set(r) ==
    /\ pc[r] = "set"
    /\ cache' = [cache EXCEPT ![req[r].user] = answer[r]]
    /\ ttl' = [ttl EXCEPT ![req[r].user] = Life]
    /\ Answer(r, 200)
    /\ UNCHANGED <<req, number, answer, accounts, causes>>

(* Time passes for the entry of u, which Redis drops when its TTL is over. *)
Tick(u) ==
    /\ ttl[u] # 0
    /\ ttl' = [ttl EXCEPT ![u] = @ - 1]
    /\ IF ttl[u] = 1 THEN cache' = [cache EXCEPT ![u] = NoEntry] /\ Absolve(u)
                      ELSE UNCHANGED <<cache, causes>>
    /\ UNCHANGED <<req, locals, accounts>>
-----------------------------------------------------------------------------
(* TransferMoney                                                           *)

(* Mutant: the balance is not compared with the amount.                    *)
AllowedUnchecked(r) ==
    LET from == req[r].from  to == req[r].to IN
    /\ from # to
    /\ {from, to} \subseteq DOMAIN accounts
    /\ accounts[from].owner = req[r].user

Allowed(r) ==
    LET from == req[r].from  to == req[r].to IN
    /\ from # to
    /\ {from, to} \subseteq DOMAIN accounts
    /\ accounts[from].owner = req[r].user
    /\ accounts[from].balance >= req[r].amount

(* The commit of a transfer: no cache key is deleted.                      *)
Transfer(r) ==
    LET from == req[r].from  to == req[r].to IN
    /\ Starts(r, "transfer")
    /\ Allowed(r)
    /\ accounts' = [accounts EXCEPT ![from].balance = @ - req[r].amount,
                                    ![to].balance = @ + req[r].amount]
    /\ Blame({accounts[from].owner, accounts[to].owner}, "transfer")
    /\ Answer(r, 201)
    /\ UNCHANGED <<req, number, answer, cache, ttl>>

(* One of its checks fails: 400, which also stands for its 403 and 404.    *)
TransferRefused(r) ==
    /\ Starts(r, "transfer")
    /\ ~Allowed(r)
    /\ Answer(r, 400)
    /\ UNCHANGED <<req, number, answer, accounts, cache, ttl, causes>>
-----------------------------------------------------------------------------
(* Failures                                                                *)

(* A statement fails and the handler answers 500.                          *)
StatementFails(r) ==
    /\ "database" \in Failures
    /\ \/ pc[r] \in {"insert", "query"}
       \/ pc[r] = "idle" /\ req[r].kind # "list"
    /\ Answer(r, 500)
    /\ UNCHANGED <<req, number, answer, accounts, cache, ttl, causes>>

(* A write is committed and its answer lost: 500, and the key stays.       *)
WriteAnswerLost(r) ==
    /\ "database" \in Failures
    /\ \/ /\ pc[r] = "insert"
          /\ number[r] + 1 \notin DOMAIN accounts
          /\ accounts' = NewTable(r)
          /\ Blame({req[r].user}, "failure")
       \/ /\ Starts(r, "deposit")
          /\ req[r].number \in DOMAIN accounts
          /\ accounts' = Adding(req[r].number, req[r].amount)
          /\ Blame({OwnerOf(r)}, "failure")
    /\ Answer(r, 500)
    /\ UNCHANGED <<req, number, answer, cache, ttl>>

(* The connection breaks while the rows are read: rows.Next returns false, *)
(* and rows.Err is not looked at.                                          *)
QueryCutShort(r) ==
    LET u == req[r].user IN
    /\ "rows" \in Failures
    /\ pc[r] = "query"
    /\ \E some \in SUBSET AccountsOf(u) :
           /\ some # AccountsOf(u)
           /\ answer' = [answer EXCEPT ![r] = Restrict(View(u), some)]
    /\ causes' = [causes EXCEPT ![u] = @ \cup {"failure"}]
    /\ Goto(r, "set")
    /\ UNCHANGED <<req, code, number, accounts, cache, ttl>>

(* Redis does not answer.  A failed Get is a miss; the errors of Set and   *)
(* Del are not looked at.                                                  *)
GetFails(r) ==
    /\ "cacheReads" \in Failures
    /\ Starts(r, "list")
    /\ Goto(r, "query")
    /\ UNCHANGED <<req, code, number, answer, accounts, cache, ttl, causes>>

SetFails(r) ==
    /\ "cacheWrites" \in Failures
    /\ pc[r] = "set"
    /\ Answer(r, 200)
    /\ UNCHANGED <<req, number, answer, accounts, cache, ttl, causes>>

DelFails(r) ==
    /\ "cacheWrites" \in Failures
    /\ pc[r] = "del"
    /\ Blame({OwnerOf(r)}, "failure")
    /\ Answer(r, WriteCode(r))
    /\ UNCHANGED <<req, number, answer, accounts, cache, ttl>>

(* The server dies; PostgreSQL and Redis go on.                            *)
Crash ==
    /\ "crash" \in Failures
    /\ \E r \in Requests : Active(r)
    /\ pc' = [r \in Requests |-> IF Active(r) THEN "done" ELSE pc[r]]
    /\ Blame({OwnerOf(r) : r \in {q \in Requests : pc[q] = "del"}}, "failure")
    /\ UNCHANGED <<req, code, number, answer, accounts, cache, ttl>>
-----------------------------------------------------------------------------
(* The client of r has its answer, and another one asks.                   *)
Again(r) ==
    /\ pc[r] = "done" /\ req[r].kind \in Repeated
    /\ \E m \in Menu : req' = [req EXCEPT ![r] = m]
    /\ Goto(r, "idle")
    /\ code' = [code EXCEPT ![r] = 0]
    /\ number' = [number EXCEPT ![r] = 0]
    /\ answer' = [answer EXCEPT ![r] = NoEntry]
    /\ UNCHANGED <<accounts, cache, ttl, causes>>

Handle(r) ==
    \/ GetLastAccountNumber(r) \/ Insert(r) \/ InsertConflicts(r)
    \/ UpdateRow(r) \/ AccountNotFound(r)
    \/ Del(r)
    \/ CacheHit(r) \/ CacheMiss(r) \/ Query(r) \/ Set(r)
    \/ Transfer(r) \/ TransferRefused(r)

Fault(r) ==
    \/ StatementFails(r) \/ WriteAnswerLost(r) \/ QueryCutShort(r)
    \/ GetFails(r) \/ SetFails(r) \/ DelFails(r)

(* Every request has been served and every entry has expired.              *)
Idle ==
    /\ \A r \in Requests : pc[r] = "done"
    /\ \A u \in Users : cache[u] = NoEntry
    /\ UNCHANGED vars

Next ==
    \/ \E r \in Requests : Handle(r) \/ Fault(r) \/ Again(r)
    \/ \E u \in Users : Tick(u)
    \/ Crash
    \/ Idle

Spec == Init /\ [][Next]_vars

(* Time goes on.  Nothing is assumed of the goroutines: an entry expires   *)
(* whatever they do.                                                       *)
FairSpec == Spec /\ \A u \in Users : WF_vars(Tick(u))
-----------------------------------------------------------------------------
(* Properties                                                              *)

(* Account numbers have no gap, though each creator reads the last number  *)
(* in one statement and inserts the next in another.                       *)
NumbersContiguous == DOMAIN accounts = NumbersUpTo(Cardinality(DOMAIN accounts))

(* The client was told that its account exists.                            *)
Created(r) == req[r].kind = "create" /\ code[r] = 201

(* The creation of an account is never undone or given to another: each    *)
(* 201 stands for an account of the user who asked, and no two of them for *)
(* the same one.                                                           *)
CreatedStand ==
    \A r \in Requests : Created(r) =>
        /\ number[r] \in DOMAIN accounts
        /\ accounts[number[r]].owner = req[r].user
        /\ \A q \in Requests \ {r} : Created(q) => number[q] # number[r]

(* The table as a book of accounts, in the order of their numbers, and the *)
(* creations that clients were told of.                                    *)
BookOf(table) == [i \in 1..Cardinality(DOMAIN table) |-> table[BaseNumber + i]]

Told == {[req |-> r, user |-> req[r].user, place |-> number[r] - BaseNumber] :
            r \in {q \in Requests : Created(q)}}

B == INSTANCE AccountBook WITH
         Openings <- {BookOf(table) : table \in Tables},
         Amounts <- {m.amount : m \in {n \in Menu : n.kind \in {"deposit", "transfer"}}},
         book <- BookOf(accounts),
         told <- Told

(* MAX + 1 in one statement and the INSERT in another open accounts like   *)
(* one step that takes the next number: however creations, deposits,       *)
(* transfers and failures interleave, the table is a book that only grows, *)
(* no account changes hands, and every 201 is true for good.               *)
BookSpec == B!Spec

(* However stale, cut short or overtaken a list is, in Redis or on its way *)
(* to a client, each account in it is its user's.                          *)
ListsAreOwn ==
    /\ \A u \in Users : cache[u] # NoEntry => DOMAIN cache[u] \subseteq AccountsOf(u)
    /\ \A r \in Requests :
           answer[r] # NoEntry => DOMAIN answer[r] \subseteq AccountsOf(req[r].user)

(* A write for u has reached the table and not yet the cache.              *)
DelPending(u) == \E r \in Requests : pc[r] = "del" /\ OwnerOf(r) = u

(* A user's cached list differs from the table only while a write is about *)
(* to delete it, or for a cause met since the key was last absent: a list  *)
(* request that read the table before a write and fills the cache after    *)
(* it, a transfer, or a failure.                                           *)
StaleForCause ==
    \A u \in Users :
        \/ cache[u] \in {NoEntry, View(u)}
        \/ DelPending(u)
        \/ causes[u] # {}

(* Whatever made it stale, a cached list does not stay so, however often   *)
(* it is asked for: its ten minutes run from the request that stored it    *)
(* (account_service.go:79), and a request that finds it there neither      *)
(* renews them nor stores the list again.  Not so with "cacheReads": where *)
(* a Get fails the list is read and stored anew, perhaps stale again.      *)
StaleEnds == \A u \in Users : []<>(cache[u] \in {NoEntry, View(u)})

(* What the comment at account_service.go:49 promises of the next read:    *)
(* when no request for u is under way, the cached list is the table's.     *)
FreshWhenQuiet ==
    \A u \in Users :
        DelPending(u) \/ Filling(u) \/ cache[u] \in {NoEntry, View(u)}

(* A list answered with 200 was read to the end (the handler documents 500 *)
(* for an error while retrieving accounts).                                *)
ListsAreWhole ==
    [][\A r \in Requests :
           pc[r] = "query" /\ pc'[r] = "set" => answer'[r] = View(req[r].user)]_vars

(* The inductive invariant.                                                *)

(* r has inserted an account, and told its client or is about to.          *)
HasCreated(r) == req[r].kind = "create" /\ (pc[r] = "del" \/ code[r] = 201)

CreatorsInv ==
    \A r \in Requests : HasCreated(r) =>
        /\ number[r] \in DOMAIN accounts
        /\ accounts[number[r]].owner = req[r].user
        /\ \A q \in Requests \ {r} : HasCreated(q) => number[q] # number[r]

(* What the point a request has reached says of it.  The number a creator  *)
(* has read is still that of an account; the list about to be cached is    *)
(* the table's, unless something is to blame.                              *)
Control(r) ==
    /\ pc[r] # "done" => code[r] = 0
    /\ pc[r] = "insert" =>
           /\ req[r].kind = "create"
           /\ number[r] = BaseNumber \/ number[r] \in DOMAIN accounts
    /\ pc[r] = "del" =>
           \/ req[r].kind = "create"
           \/ req[r].kind = "deposit" /\ req[r].number \in DOMAIN accounts
    /\ pc[r] \in {"query", "set"} => req[r].kind = "list"
    /\ pc[r] = "set" =>
           answer[r] = View(req[r].user) \/ causes[req[r].user] # {}

ControlInv == \A r \in Requests : Control(r)

IInv ==
    /\ TypeOK
    /\ NumbersContiguous
    /\ CreatorsInv
    /\ ControlInv
    /\ StaleForCause
=============================================================================
