# Formal models of go-bank-api

go-bank-api is a small banking server: a REST API in Go over PostgreSQL, with
Redis as a cache and JSON Web Tokens for identity. This directory holds TLA+
models of its core, the TLC configurations that check them, and proofs checked
by TLAPS. Paths such as `service/account_service.go:79` are relative to `src/`.

    tlc -config TransfersSafe.cfg MCTransfers      # a run
    tlapm TransfersProofs.tla                      # the proofs of a module

## 1. Inventory

### Components

| Component | State it keeps | Operations | Talks to |
|---|---|---|---|
| Money movement: `service/transaction_service.go`, `handler/transaction_handler.go`, `repository/transaction_repository.go`, and `DepositToAccount` of `repository/account_repository.go` | rows of `accounts` (balance) and `transactions`; one `sql.Tx` per transfer | transfer, deposit, history of an account | PostgreSQL (transactions, row locks) |
| Account service: `service/account_service.go`, `handler/account_handler.go`, `repository/account_repository.go` | rows of `accounts` (number, owner, balance); Redis keys `accounts:<user>` with a ten-minute TTL | create, list (cache-aside), deposit, admin listing | PostgreSQL, Redis; shares `accounts` with money movement |
| Sessions and roles: `service/auth_service.go`, `service/user_service.go`, `handler/user_handler.go`, `handler/auth_middleware.go`, `repository/token_repository.go`, `repository/user_repository.go` | rows of `users` (role) and `refresh_tokens`; access tokens, kept by clients only | register, login, refresh, logout, set a role, the two middlewares | PostgreSQL; every other handler trusts the claims it extracts |
| Decoding and validation: `common/`, `handler/error_handler.go` | none | decode, validate, turn an error into a status | all handlers |
| Router: `router/router.go` | none | dispatch, choice of middleware | all handlers |
| Application lifecycle: `app/app.go`, `cmd/main.go` | the listener, the connections | start, shut down on a signal | all of the above |
| Connections, configuration, logging: `db/`, `config/`, `logger/` | set once at start | connect | PostgreSQL, Redis |
| Schema: `db/migrations/` | constraints and defaults | | PostgreSQL |

Each HTTP request is served by a goroutine of its own. Handlers share no
memory: they meet in PostgreSQL and Redis, through statements that interleave
freely except inside the one explicit transaction of the program,
`TransferMoney`.

### What is hard, and what makes each component correct

*Money movement.* Balances are read with `SELECT ... FOR UPDATE`, the new ones
computed in Go as `float64`, and written back; transfers lock two rows in no
fixed order; thirteen early returns rely on one deferred `Rollback`; the
transaction dies with the request's context, in another goroutine; the answer
of `COMMIT` may be lost; amounts may have fractions of a cent, and the columns
round. Correct means: no update is lost, no account overdrawn, no lock left
behind, no deadlock for ever, the balances are those the transaction history
accounts for, and the HTTP status tells the truth.

*Account service.* The next account number is `MAX + 1`, read in one statement
and used in another; the cache is filled with what was read some time before
and deleted some time after the write; the errors of Redis are not looked at;
nor is `rows.Err()`. Correct means: numbers are unique and without gaps, an
account whose creation was confirmed exists, a cached list is that of the table
or there is a known reason, it does not stay stale however often it is asked
for, and it is nobody else's.

*Sessions and roles.* A login deletes the user's refresh tokens and stores a
new one in two statements, a refresh looks its token up and reads the user in
two more, and an access token carries a role that may no longer be its user's.
Correct means: a session that was ended stays ended, for the table and for the
client; a demotion is seen by every later token; and power or a session that
has run out is not brought back by what is left of it: a refresh token, a
refresh under way.

*Transaction history and the list of all accounts.* Both are read with no lock
beside transfers that write two balances and a row. `created_at` is the time a
transaction began, not that of its commit, and `rows.Err()` is not looked at.
Correct means: what a reader is shown is in an order clients can rely on, hides
nothing they know of, and is never half a transfer.

*Lifecycle.* The server goroutine runs before the process asks for signals;
shutdown waits five seconds and then exits with requests under way; the pools
are closed by deferred calls; Redis need not be up when the process starts.
Correct means: no handler meets a closed pool, the exit status tells whether
requests were dropped, a process that is told to stop does, and one that may
serve ends up serving.

The hazards, each at its line and with the properties that would catch it, are
listed in `PROJECT.json`.

## 2. Modules

| Module | What it is | Code |
|---|---|---|
| `Money` | amounts, rounding to `NUMERIC(15, 2)`, overflow | migrations 002 and 003, the float arithmetic of `TransferMoney` |
| `Ledger` | abstract specification: exact, atomic transfers and deposits | what `transactions` and `accounts` promise |
| `Transfers` | `TransferMoney` statement by statement, and `DepositToAccount` | `transaction_service.go:47-123`, `account_repository.go:149-219` |
| `AccountBook` | abstract specification: a book of numbered accounts that only grows, and what creators are told | what `accounts` and a 201 promise |
| `AccountService` | create, list and deposit with the cache, statement by statement; a transfer as one step | `account_service.go`, `account_repository.go:34-98` |
| `Queries` | EXTENDS `Transfers` with readers: the history of an account and the list of all accounts | `transaction_service.go:125-145`, `transaction_repository.go:44-72`, `account_repository.go:99-146` |
| `Service` | abstract specification: what a process that serves requests promises | what `app.Run` and Docker promise |
| `App` | `app.Run` step by step, the server goroutine, signals, shutdown, restarts | `app/app.go`, `db/db.go`, `db/redis.go`, `config/config.go:36-50`, `docker-compose.yml:40-48` |
| `Sessions` | register, login, refresh, logout, set role, the middlewares | `auth_service.go`, `auth_middleware.go`, `user_handler.go`, the token and user repositories |
| `MCTransfers`, `MCQueries`, `MCAccountService`, `MCSessions`, `MCApp` | small instances for TLC | |
| `AmountsProofs` | EXTENDS `TransfersProofs`: lemmas on sums over a table | |
| `BooksProofs` | EXTENDS `AmountsProofs`: balances and the transaction history agree | |
| `TransfersProofs`, `QueriesProofs`, `AccountServiceProofs`, `SessionsProofs`, `AppProofs` | theorems and proofs of the module they are named after | |

Three modules have an INSTANCE of an abstract specification and are shown to
implement it: `Transfers`, which EXTENDS `Money`, that of `Ledger`,
`AccountService` that of `AccountBook`, and `App` that of `Service`. `Queries`
EXTENDS `Transfers`: each of its steps is a step of a transfer or deposit, or of
a reader that changes nothing of them. `AccountService` takes a transfer as one
atomic step because `Transfers` shows that a committed transfer is one.

### How the models correspond to the code

In `Transfers`, `AccountService` and `Sessions` a *request* is one HTTP request
and its goroutine. `req[r]` is what it asks for, `pc[r]` the next statement it
sends to PostgreSQL or Redis, and `code[r]` the status its client was sent. One
action is one such statement together with the Go code up to the next one, for
that code touches nothing shared. An early return is an action `... Refused`,
`... NotFound` and the like, which sends its status. Operators whose comment
begins with "Mutant" are not part of a model: each is the wrong version of a
definition beside it, used to see that a property notices the mistake.

`Transfers`. `tx[r]` is the `sql.Tx`; `lock` the row locks of PostgreSQL;
`read[r]` the two `Account` values in Go; `dirty[r]` the uncommitted row
versions; `balance` and `ledger` the committed tables. `deposits` is a history
variable, since the program keeps no record of a deposit. `LockFrom` and
`LockTo` are `GetAccountForUpdate`, and wait; `Debit` and `Credit` are
`UpdateAccountBalance`; `Deposit` is the auto-committed `UPDATE`, which waits
for the row lock too. Faults: any statement fails; the context is cancelled and
database/sql rolls back under the handler (`ContextCancelled`, after which each
statement returns `ErrTxDone`); PostgreSQL fails the member of a deadlock
(`DeadlockVictim`); the answer of a commit is lost (`AnswerLost`); the server
dies (`Crash`).

`Queries`. `rpc[q]` is the statement query `q` runs next; `CheckOwner` is
`GetAccountByID` with the ownership check, `SelectRows` and `SelectAll` the
SELECTs, each one snapshot, and `SelectCutShort` a loop over rows that a broken
connection ends. `createdAt` is the column, filled with the time of the BEGIN.
`before[r]` (the transfers already answered when `r` came) and `known[q]` (the
changes already answered, or listed by another history, when `q` came) are
histories.

`App`. `main` is the step `app.Run` takes next and `server` its goroutine;
`open` the connection pools, `quit` the one place of the signal channel, `exit`
the exit status and `stop` who sent the signal, which Docker remembers.
`Fatalf` and a signal before `signal.Notify` end the process without its
deferred calls (`Exit`, `Die`). Requests are counted, not looked into: what a
handler does is the subject of the other modules, in which `Crash` stands for
every way the process of `App` can end with requests under way.

`Money`. An amount is an integer number of quarter cents, the coarsest grid on
which every way an amount can round occurs: exact, down, half, up. A column
rounds half away from zero; the sum of two `float64` that is a half cent may
fall on either side, so `StoredFloat` is then a choice.

`AccountService`. `cache[u]` is the Redis key of `u`, `ttl[u]` what is left of
its ten minutes, `Life` of them in ticks (`Tick`). `causes[u]` is a history of
what may have made that key, or the list about to be stored under it, stale: a
write that overtook a list request (`"race"`), a transfer, a failure. It is
emptied (`Absolve`) when the key is deleted, has expired or is found absent, and
no list request is about to store what it read before. With kinds of requests in
`Repeated` a served request may become another one (`Again`), so that clients go
on asking for ever. `BookOf` and `Told` are the refinement mapping to
`AccountBook`: the rows in the order of their numbers, and the creations answered
with 201. Faults: a statement fails, a committed write's answer is lost, a
connection breaks between two rows, Redis does not answer a Get (`"cacheReads"`),
or a Set or Del (`"cacheWrites"`), the server dies.

`Sessions`. A token is named by the request that issued it. `jwt[r]` are the
claims `r` signed, `tokens` the table `refresh_tokens`, `expired` the tokens
whose time is over. Each write is one step and its answer another (`Reply`): a
server that dies in between, or a lost answer, leaves a session ended, a user
registered or a role set with nobody told. `seen[r]` (the requests over when `r`
came) and `executed` (the requests whose `DELETE`, or `UPDATE` of a role, was
executed) are histories, with which the properties speak of before and after:
they count what was executed, not what was answered. Cryptography is taken to
work: nobody forges a token, and a password matches or does not.

## 3. Runs

Passing runs:

| Run | Instance | What it shows |
|---|---|---|
| `transfers_safe` | 3 requests over 3 accounts and an unknown id; transfers both ways between two accounts and round a ring of three, one that empties its account, every early return, an overflow, deposits; every fault | `LocksFollowTransactions`, `WaitsEnd`: requests that wait for none but each other are in a deadlock PostgreSQL breaks, and for nobody who is over; `ReadsAreCurrent`, `NoOverdraft`, `CodeTellsOutcome`, `BooksBalance`, and that `Transfers` implements `Ledger` (`LedgerSpec`) |
| `transfers_subcent` | 3 requests with 1/4, 1/2, 3/4 and 1 1/2 cents | `TypeOK` (no row with amount 0), the inductive invariant `IInv`, `DriftBounded`: a transfer leaves the sender with at most a cent too much and the receiver with at most a cent too little, and `ChangesAreBooked`: no step changes a balance but the commit of one transfer with its row, or one deposit |
| `transfers_live` | 3 requests, crossing transfers and a deposit, faults allowed | `Answered`: whatever deadlocks and fails, each request is answered or dies with the server |
| `accounts_safe` | 3 requests of all four kinds, two users, empty or filled table, every failure | `TypeOK`, `NumbersContiguous`, `CreatedStand`, `IInv`; `StaleForCause`: a cached list differs from the table only while a write is about to delete it, or for a cause met since the key was last absent; `ListsAreOwn`: whatever else is wrong with a list, its accounts are its user's; and that `AccountService` implements `AccountBook` (`BookSpec`) |
| `accounts_live` | 2 requests which, after a list or a transfer, are followed by others without end; two users; every failure but that of a Redis Get | `StaleEnds`: a stale list does not stay, however often it is asked for |
| `sessions_all` | 3 requests over every route, an admin and somebody not yet registered, right and wrong passwords, every failure | `TypeOK`, `SessionsStayEnded`, `RefreshRespectsLogout`, `DemotionIsSeen`, `IInv`; `PowerHasASource`: nobody becomes an admin but by a request with an admin's token, whether or not that was answered; `PowerDiesOut`: power that has run out is not brought back by a refresh token or a request of before; `SignedOutStays`: nor is a session, but by a login |
| `queries_all` | 2 requests (crossing transfers, a deposit) and 2 queries (own, foreign and missing account, all accounts), every fault | `HistoryRespectsAnswers`: a history is in the order in which clients waited for its transfers; `HistoryHasNoHoles`: it hides none that was known, except at its old end; `ListingsExplained`: the list of all accounts is that of whole transfers; the inductive invariant `QInv` |
| `app_all` | 3 requests whose handlers may hang, signals, crashes, services that come and go | `PoolsOutliveHandlers`, `IInv`, that `App` implements `Service` (`ServiceSpec`), `StopsWhenAsked`, `ServesEventually` |

Runs that find a disagreement between the code and what is said of it:

| Run | Property | What happens |
|---|---|---|
| `transfers_subcent_books` | `BooksBalance` | A transfer of half a cent, or of one and a half, debits and credits different numbers of cents. `README.md:38` says atomic transactions prevent "data loss or corruption". |
| `accounts_race` | `FreshWhenQuiet` | A list request reads the table, a creation or deposit commits and deletes the key, the list request fills the cache with what it read (`account_service.go:71`, `:79`). The comment at `:49` says the deletion is there "to ensure data consistency on the next read". |
| `accounts_transfer` | `FreshWhenQuiet` | A transfer deletes no key at all, although the comment at `account_service.go:107-108` says the technical debt is removed. |
| `accounts_cutshort` | `ListsAreWhole` | `rows.Err()` is not looked at (`account_repository.go:87-95`): a list cut short by a broken connection is answered with 200 and cached, where `account_handler.go:77` documents a 500. |

One more, seen without a run: `Login` answers every error with 401
(`user_handler.go:103`), a failed query included, although line 90 documents a
500. The model has it so (`StatementFails` in `Sessions`).

### Bounds, and why they are enough

* *Requests.* A request is used once, so their number bounds the length of
  every history. A lost update, a deadlock or a duplicate number takes two; the
  third meets what those two leave behind, or is the observer. In `Queries`
  the observers are two readers beside two requests: what one history shows the
  other must not hide. In `Sessions` an admin is registered at the start, so
  three requests suffice to log in, end the session or the role, and try what
  is left of it; longer histories are left to the proofs. `accounts_live` has two
  clients at a time but no bound on what they ask for.
* *Accounts, users.* Two accounts to cross, a third with another currency that
  closes a ring of locks, one unknown id; two users, since an action concerns at
  most two.
* *Money.* Openings of one and two cents and a maximum of four put the empty
  account and the overflow within reach of two requests, and leave room for an
  overdraft that is no overflow of the receiver.
  In `AccountService` the deposit of three differs from every balance, so
  that a row written over is not taken for a row added to.
* *Processes.* There is one `app.Run`; three requests let one hang, one end and
  one come while the server drains. Restarts are not bounded.
* *Time.* A cache entry lives for two ticks in `accounts_live`, so that it can be
  found when it has already aged, and for one tick elsewhere, where only its
  absence matters.
* *No counter is cut off*: every variable is finite once the requests and menus
  are. Requests are interchangeable, so runs use symmetry on them
  unless they check a liveness property.
* `Idle` lets a server whose requests are all served stutter, so that deadlock
  is checked in every run: TLC would report requests that wait for each other.

### Fairness

`FairSpec` of `Transfers` asks for weak fairness of `Active(r) /\ Handle(r)`: a
goroutine that can run is scheduled by the Go runtime, and PostgreSQL answers
what it is sent, the detection of a deadlock included, which it does after
`deadlock_timeout`. A request that has not come is not active, so no client is
made to send one. Weak fairness is enough: a transfer that waits for a row gets
it once the holders are over, and each holder's step is fair. There are finitely
many requests, so no queue of newcomers can overtake a waiter for ever; fairness
of PostgreSQL's lock queue under an endless stream is not claimed.

`FairSpec` of `AccountService` asks only that time goes on for a cache entry
(`Tick`); neither goroutines nor clients need do anything. That is not yet
`StaleEnds`: whatever renewed the time of an entry on a hit, or kept storing a
stale list, would let it live for ever under `Again`. `accounts_live` has
every failure but that of a Get (`"cacheReads"`), with which the property is
false: a request whose Get fails reads the table and stores its list although
there is one already, that list may be cut short or a transfer may come between
its read and its Set, and so on without end.

`Sessions` needs no fairness: it has no liveness property.

`FairSpec` of `App` asks for weak fairness of the steps of `app.Run` at start-up
(`StartUp`) and at shutdown (`WindUp`), of the server goroutine (`Listen`), and
of Docker (`Restart`). `WindUp` contains the timeout, since a timer fires; a
Ping that gets no answer, and a handler that never ends, are not excluded. That
what the process depends on becomes reachable and stays so, and that nothing
crashes any more, are not fairness but the hypotheses of `ServesEventually`.

## 4. Proofs

TLC sees small instances; the following hold for every value of the constants:
any number of requests, users, accounts, any balances, amounts and failures.

| Theorem | Statement |
|---|---|
| `TransfersProofs!Invariance` | `Spec => []IInv` |
| `TypeCorrect`, `LocksReleased`, `NoLostUpdate`, `NeverOverdrawn`, `CodesAreTrue` | `TypeOK`, `LocksFollowTransactions`, `ReadsAreCurrent`, `NoOverdraft`, `CodeTellsOutcome` |
| `ImplementsLedger` | with whole-cent amounts, `Spec => LedgerSpec` |
| `MoneyIsBooked` | with any amounts, `Spec => ChangesAreBooked` |
| `NobodyWaitsInVain` | `Spec => []WaitsEnd` |
| `BooksProofs!DriftIsBounded` | with any amounts, `Spec => []DriftBounded` |
| `BooksAlwaysBalance` | with whole-cent amounts, `Spec => []BooksBalance` |
| `QueriesProofs!ImplementsTransfers` | `QSpec => Spec`: whatever is proved of `Transfers` holds beside readers |
| `ListingsAreWhole` | with whole-cent amounts, `QSpec => []ListingsExplained` |
| `QInvariance`, `HistoriesAreOrdered`, `HistoriesHaveNoHoles` | `QInv`, `HistoryRespectsAnswers`, `HistoryHasNoHoles` |
| `AppProofs!Invariance`, `PoolsStayOpen` | `IInv`, `PoolsOutliveHandlers` |
| `ImplementsService` | `Spec => ServiceSpec` |
| `AccountServiceProofs!Invariance`, `TypeCorrect`, `NoGaps`, `CreationsStand`, `StalenessExplained` | `IInv`, `TypeOK`, `NumbersContiguous`, `CreatedStand`, `StaleForCause` |
| `ImplementsBook` | `Spec => BookSpec` |
| `ListsStayPrivate` | `Spec => []ListsAreOwn` |
| `SessionsProofs!Invariance`, `TypeCorrect`, `SessionsEnd`, `LogoutIsRespected`, `DemotionIsFinal`, `PowerIsGranted` | `IInv`, `TypeOK`, `SessionsStayEnded`, `RefreshRespectsLogout`, `DemotionIsSeen`, `PowerHasASource` |
| `PowerIsGone`, `SignedOutUntilLogin` | `Spec => PowerDiesOut`, `Spec => SignedOutStays` |
| `NoFirstAdmin` | with no admin at the start, `Spec => [](\A u \in Users : ~HasPower(u))` |

*Assumptions.* `Transfers`: the holder of a free lock is not a request
(`RequestsAssumption`); opening balances are whole cents within the column,
which is what a `NUMERIC(15, 2)` can hold, and owners are users
(`AccountsAssumption`); requests have the types the decoder gives
(`MenuAssumption`); the maximum is a whole number of cents
(`MaxBalanceAssumption`). `AccountService`: the table at the start is one this
program filled (`TablesAssumption`), requests and failures are of the known kinds
(`MenuAssumption`, `RepeatedAssumption`, `FailuresAssumption`) and an entry lives
for at least a tick (`LifeAssumption`). `Sessions`: `InitialRoleAssumption`,
`PasswordsAssumption`, `FailuresAssumption`, which only give types. `Queries`:
`ReadMenuAssumption`, the types of queries. `App`: none. The sets of requests,
users and accounts may be infinite.

*Why the invariants are what they are.*

* `Transfers`: no overdraft does not follow from itself, for `Commit` writes
  numbers that were computed earlier. They are right because what was read is
  still the committed balance (`ReadsAreCurrent`), which holds because the row
  is locked exactly as long as the transaction that read it is open
  (`LocksFollowTransactions`), and because `dirty` is what the code computes
  from `read` (`DirtyInv`) after the checks passed (`ControlInv`). `WholeCents`
  closes the gap of rounding: a difference that is not negative stays so when
  rounded, since balances are whole cents. `HistoryInv` says a request has
  committed nothing before its last statement, for the codes. From the same
  invariant each `Commit` is one exact `Ledger!Transfer` when amounts are whole
  cents, and every other action but `Deposit` a stuttering step.
* The books: `Books` sums over the tables by a fold. `AmountsProofs` proves that
  the fold is a sum, taking a smallest finite set on which it would not be, for
  strict inclusion is well founded there. With that, `BooksBalance` and
  `DriftBounded` are inductive together with `IInv` and the finiteness of the
  two tables (`TablesFinite`, an invariant, for no set of requests is assumed
  to be finite): a step adds one row or one deposit to them or nothing
  (`StepIsBooked`), so one sum or two change by its amount, and balances by that
  amount, or by it to within a cent. `ListingsExplained` holds when the SELECT
  runs because the books balance then, with all rows committed so far as the
  witness; later steps only add rows, which takes no witness away.
* Waiting: `WaitsEnd` needs that the holder of a row has its transaction open
  (`LocksFollowTransactions`), so it is never a request that is over, and if it
  waits at all it waits for its receiver's row. Of a finite set of requests that
  wait only for each other a smallest one that is closed under waiting is a
  cycle, which is what PostgreSQL looks for (`InDeadlock`). That such sets are
  finite is an invariant too (`ActiveFinite`): requests come one by one.
* `AccountService`: that numbers have no gap needs that a creator's `MAX` is
  still the number of an account when it inserts `MAX + 1` (`Control`), which is
  so as no account is ever deleted; and the UNIQUE column. `CreatorsInv` extends
  `CreatedStand` to creators not yet answered. `StaleForCause` needs that a list
  about to be cached is the table's, unless something is to blame (`Control`), and
  that blame is taken back only when nothing is cached or about to be.
  `ImplementsBook` maps the table to a sequence (`BookOf`): an `INSERT` that the
  UNIQUE column lets through appends to it, because of contiguity; a 201 is a
  `Tell`, because of `CreatorsInv`; a lost answer of a committed write is an
  `Open` or `Deposit` nobody is told of; everything about the cache is a
  stuttering step. `ListsAreOwn` rests on the same fact that accounts stay
  where and whose they are.
* `Sessions`: that a token does not come back needs that rows belong to logins
  that are over (`TokensInv`), so that no login that was over when a `DELETE`
  ran can store a row after it. `PassedInv` carries a refresh from the lookup of
  its token to its answer: the session was not ended by a request it had seen.
  `RoleInv` says the same of a demotion and the `users` row, which `ReadUser`
  and `FindUser` copy into claims. `SourceInv` carries the power of an admin's
  token from the middlewares to the `UPDATE` of a role. `PowerDiesOut` and
  `SignedOutStays` are proved of each step under `IInv`: a step that signs a token
  copies the `users` row as it is then (`TokensInv` and `Control` tell whose), and
  a refresh past its lookup had found a row that is in the table no more.
* `Queries`: that a history is in order needs that `createdAt` of a request is
  above that of every request that was answered before it came (`RequestInv`);
  that it has no holes needs that what a reader knows of is committed
  (`ReaderInv`), and that rows are only ever added, which Transfers' invariant
  gives.
* `App`: each conjunct of `IInv` ties one variable to the step `app.Run` has
  reached; the last one says that requests run only between the go statement
  and the end of `srv.Shutdown`, from which everything else follows.

*Only model-checked.* The four liveness properties: `Answered`, `StaleEnds`,
`StopsWhenAsked` and `ServesEventually` need fairness and so ENABLED, which the
prover does not handle. `WaitsEnd` is the safety part of
`Answered`, proved for any number of requests. Every invariant, action property
and refinement that a passing run checks is proved.

## 5. Not modelled

* `GetAllUsers`: one SELECT that writes nothing and promises nothing about its
  order; its unchecked `rows.Err` is the one modelled for the other lists.
* `GET /health` and Swagger: constant answers. `NewTestApp` serves the tests.
* JSON, path parameters, validator tags other than the sign of an amount,
  wording of errors, logging, the contents of the configuration: straight-line
  code without shared state. A malformed request is answered before any
  statement is sent.
* What net/http, database/sql, Docker and the operating system do is modelled
  from their documentation as far as the program relies on it, and marked
  external where no line of the program stands for it.
* Two transactions that begin in the same microsecond have the same
  `created_at`, and a clock may be set back; in `Queries` each BEGIN has a time
  of its own, and later ones have later times.
* `ON DELETE CASCADE`: no route deletes a user or an account.
* Pool limits of database/sql: the program sets none.
* Which of overlapping logins, refreshes and logouts wins: nothing promises an
  order, so the properties of `Sessions` speak of requests of which one was over
  when the other came, and of what is left when all are.
* Which rows a broken connection drops from a history: `transaction_handler.go:86`
  documents a 500 and, as with the list of accounts, a short answer is sent with
  200. The run `accounts_cutshort` shows the loop; `HistoryHasNoHoles` says that
  what is dropped is the old end, for it depends on the order of the query.
* A client's retry is a new request. A transfer carries no idempotency key, so
  a client that repeats one after a 500 may move the money twice; the code
  promises nothing here.
* The bit patterns of `float64`: amounts and balances have at most 15 digits, so
  one addition is off by far less than a quarter cent, and only a tie can round
  either way.

## 6. Plan

In order of importance; the first five are done, the sixth but for what it says
is left.

1. `Money`, `Ledger`, `Transfers`: money movement, its refinement and its proofs.
2. `AccountService`: numbering and the cache.
3. `Sessions`: tokens and roles.
4. `Service`, `App`: the life of the process, its refinement and its proofs.
5. `Queries`: what clients read of the money that moves, composed with
   `Transfers`.
6. Proofs: the sums over the tables, waiting, and `AccountBook`, a refinement of
   the numbering. Left: an abstract session store which `Sessions` implements.
7. Composition of `Transfers` with the account cache and with the claims of
   `Sessions`, so that a transfer is no longer one step beside the cache.
