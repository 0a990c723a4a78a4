----------------------------- MODULE Transfers -----------------------------
(***************************************************************************)
(* Money movement: TransactionService.TransferMoney, statement by          *)
(* statement, over the accounts and transactions tables, together with     *)
(* AccountRepository.DepositToAccount, the only other writer of a balance. *)
(*                                                                         *)
(* A request is one HTTP request served by its own goroutine.  A transfer  *)
(* runs one READ COMMITTED transaction: it locks and reads the two account *)
(* rows with SELECT ... FOR UPDATE, sender first, checks what it read,     *)
(* updates both rows, inserts a row in transactions and commits; every     *)
(* early return runs the deferred tx.Rollback.  A deposit is a single      *)
(* auto-committed UPDATE, which waits for the row lock.                    *)
(*                                                                         *)
(* The environment may, at any moment, fail a statement, cancel the        *)
(* context of a transfer (its client went away: database/sql then rolls    *)
(* the transaction back under the handler's feet), lose the answer to a    *)
(* COMMIT that did commit, choose a deadlock victim, or kill the server.   *)
(***************************************************************************)
EXTENDS Money, FiniteSetsExt

CONSTANTS Requests,    \* identities of the HTTP requests
          NoRequest,   \* not a request: the holder of a free row lock
          Users,       \* user ids
          AccountIds,  \* account ids a client may name
          Accounts,    \* the ids among them that are rows of accounts
          Owner,       \* accounts.user_id
          Currency,    \* accounts.currency
          Opening,     \* the balances at the start
          Menu         \* what a request may ask for

TransferReq == [kind : {"transfer"}, user : Users, from : AccountIds,
                to : AccountIds, amount : Int]
DepositReq == [kind : {"deposit"}, to : AccountIds, amount : Int]

ASSUME RequestsAssumption == NoRequest \notin Requests
ASSUME AccountsAssumption ==
    /\ Accounts \subseteq AccountIds
    /\ Owner \in [Accounts -> Users]
    /\ Opening \in [Accounts -> Nat]
    /\ \A a \in Accounts : IsWholeCents(Opening[a]) /\ Opening[a] =< MaxBalance
ASSUME MenuAssumption == Menu \subseteq TransferReq \cup DepositReq

VARIABLES req,       \* req[r]: what request r asks for
          pc,        \* pc[r]: the statement request r runs next
          code,      \* code[r]: its HTTP status, 0 if none was sent
          tx,        \* tx[r]: its sql.Tx, "none" before BeginTx and once over
          read,      \* read[r]: fromAccount.Balance and toAccount.Balance
          dirty,     \* dirty[r]: the uncommitted balances of the two rows
          lock,      \* lock[a]: the request whose transaction locks row a
          balance,   \* accounts.balance, as committed
          ledger,    \* the committed rows of transactions
          deposits   \* history: what the deposits added (no table records it)

local == <<pc, code, tx, read, dirty>>
tables == <<balance, ledger, deposits>>
vars == <<req, local, lock, tables>>

NoBalances == [from |-> 0, to |-> 0]

(* The statements of a transfer that need its transaction.                 *)
InTx == {"lockFrom", "lockTo", "check", "credit", "record", "commit"}

Active(r) == pc[r] \notin {"idle", "done"}

TypeOK ==
    /\ req \in [Requests -> Menu]
    /\ pc \in [Requests -> InTx \cup {"idle", "begin", "deposit", "reply", "done"}]
    /\ code \in [Requests -> {0, 200, 201, 400, 403, 404, 500}]
    /\ tx \in [Requests -> {"none", "open", "rolledBack"}]
    /\ read \in [Requests -> [from : Int, to : Int]]
    /\ dirty \in [Requests -> [from : Int, to : Int]]
    /\ lock \in [Accounts -> Requests \cup {NoRequest}]
    /\ balance \in [Accounts -> Int]
    /\ ledger \subseteq [req : Requests, from : Accounts, to : Accounts, amount : Nat \ {0}]
    /\ deposits \subseteq [req : Requests, to : Accounts, amount : Nat]

Init ==
    /\ req \in [Requests -> Menu]
    /\ pc = [r \in Requests |-> "idle"]
    /\ code = [r \in Requests |-> 0]
    /\ tx = [r \in Requests |-> "none"]
    /\ read = [r \in Requests |-> NoBalances]
    /\ dirty = [r \in Requests |-> NoBalances]
    /\ lock = [a \in Accounts |-> NoRequest]
    /\ balance = Opening
    /\ ledger = {}
    /\ deposits = {}
-----------------------------------------------------------------------------
(* Ending a request                                                        *)

(* The transaction of r ends: its row locks and row versions go.           *)
EndTx(r) ==
    /\ tx' = [tx EXCEPT ![r] = "none"]
    /\ lock' = [a \in Accounts |-> IF lock[a] = r THEN NoRequest ELSE lock[a]]
    /\ read' = [read EXCEPT ![r] = NoBalances]
    /\ dirty' = [dirty EXCEPT ![r] = NoBalances]

(* Mutant: an early return that leaves its transaction open.               *)
AnswerNoRollback(r, status) ==
    /\ pc' = [pc EXCEPT ![r] = "done"]
    /\ code' = [code EXCEPT ![r] = status]
    /\ UNCHANGED <<req, tx, read, dirty, lock, tables>>

(* An early return: the deferred tx.Rollback runs, the status is sent.     *)
Answer(r, status) ==
    /\ pc' = [pc EXCEPT ![r] = "done"]
    /\ code' = [code EXCEPT ![r] = status]
    /\ EndTx(r)
    /\ UNCHANGED <<req, tables>>

Goto(r, label) == pc' = [pc EXCEPT ![r] = label]
-----------------------------------------------------------------------------
(* The handlers: decoding and validation                                   *)

(* common.ValidateAndDecode refuses an amount that is not positive.        *)
Invalid(r) ==
    /\ pc[r] = "idle"
    /\ req[r].amount =< 0
    /\ Answer(r, 400)

Accept(r) ==
    /\ pc[r] = "idle"
    /\ req[r].amount > 0
    /\ Goto(r, IF req[r].kind = "transfer" THEN "begin" ELSE "deposit")
    /\ UNCHANGED <<req, code, tx, read, dirty, lock, tables>>
-----------------------------------------------------------------------------
(* TransferMoney                                                           *)

BeginTx(r) ==
    /\ pc[r] = "begin"
    /\ req[r].from # req[r].to
    /\ req[r].amount > 0
    /\ tx' = [tx EXCEPT ![r] = "open"]
    /\ Goto(r, "lockFrom")
    /\ UNCHANGED <<req, code, read, dirty, lock, tables>>

(* ErrSameAccountTransfer and ErrInvalidAmount, after BeginTx.             *)
SameAccount(r) ==
    /\ pc[r] = "begin"
    /\ req[r].from = req[r].to \/ req[r].amount =< 0
    /\ Answer(r, 400)

(* Mutant: the sender's row is read without FOR UPDATE.                    *)
ReadFromUnlocked(r) ==
    /\ pc[r] = "lockFrom"
    /\ tx[r] = "open"
    /\ req[r].from \in Accounts
    /\ read' = [read EXCEPT ![r].from = balance[req[r].from]]
    /\ Goto(r, "lockTo")
    /\ UNCHANGED <<req, code, tx, dirty, lock, tables>>

(* GetAccountForUpdate of the sender: waits for the row lock, then reads   *)
(* the row as last committed.                                              *)
LockFrom(r) ==
    LET from == req[r].from IN
    /\ pc[r] = "lockFrom"
    /\ tx[r] = "open"
    /\ from \in Accounts
    /\ lock[from] = NoRequest
    /\ lock' = [lock EXCEPT ![from] = r]
    /\ read' = [read EXCEPT ![r].from = balance[from]]
    /\ Goto(r, "lockTo")
    /\ UNCHANGED <<req, code, tx, dirty, tables>>

(* GetAccountForUpdate of the receiver.                                    *)
LockTo(r) ==
    LET to == req[r].to IN
    /\ pc[r] = "lockTo"
    /\ tx[r] = "open"
    /\ to \in Accounts
    /\ lock[to] = NoRequest
    /\ lock' = [lock EXCEPT ![to] = r]
    /\ read' = [read EXCEPT ![r].to = balance[to]]
    /\ Goto(r, "check")
    /\ UNCHANGED <<req, code, tx, dirty, tables>>

(* ErrSenderAccountNotFound and ErrReceiverAccountNotFound.                *)
AccountNotFound(r) ==
    /\ tx[r] = "open"
    /\ \/ pc[r] = "lockFrom" /\ req[r].from \notin Accounts
       \/ pc[r] = "lockTo" /\ req[r].to \notin Accounts
    /\ Answer(r, 404)

IsOwner(r) == Owner[req[r].from] = req[r].user

(* Mutant: the balance is not compared with the amount.                    *)
ChecksOwnerAndCurrency(r) ==
    IsOwner(r) /\ Currency[req[r].from] = Currency[req[r].to]

(* The checks on the two rows read, which need no further statement.       *)
ChecksPass(r) ==
    /\ IsOwner(r)
    /\ read[r].from >= req[r].amount
    /\ Currency[req[r].from] = Currency[req[r].to]

(* ErrPermissionDenied, ErrInsufficientFunds and ErrCurrencyMismatch.      *)
Refused(r) ==
    /\ pc[r] = "check"
    /\ ~ChecksPass(r)
    /\ Answer(r, IF IsOwner(r) THEN 400 ELSE 403)

(* UpdateAccountBalance of the sender, an uncommitted row version.         *)
Debit(r) ==
    /\ pc[r] = "check"
    /\ tx[r] = "open"
    /\ ChecksPass(r)
    /\ \E stored \in StoredFloat(read[r].from - req[r].amount) :
           dirty' = [dirty EXCEPT ![r].from = stored]
    /\ Goto(r, "credit")
    /\ UNCHANGED <<req, code, tx, read, lock, tables>>

(* UpdateAccountBalance of the receiver.                                   *)
Credit(r) ==
    /\ pc[r] = "credit"
    /\ tx[r] = "open"
    /\ \E stored \in StoredFloat(read[r].to + req[r].amount) :
           /\ stored =< MaxBalance
           /\ dirty' = [dirty EXCEPT ![r].to = stored]
    /\ Goto(r, "record")
    /\ UNCHANGED <<req, code, tx, read, lock, tables>>

(* The receiver's new balance overflows its column.                        *)
CreditOverflows(r) ==
    /\ pc[r] = "credit"
    /\ tx[r] = "open"
    /\ \E stored \in StoredFloat(read[r].to + req[r].amount) : stored > MaxBalance
    /\ Answer(r, 500)

(* Mutant: the amount column has no CHECK (amount > 0).                    *)
RecordUnchecked(r) ==
    /\ pc[r] = "record"
    /\ tx[r] = "open"
    /\ Goto(r, "commit")
    /\ UNCHANGED <<req, code, tx, read, dirty, lock, tables>>

(* CreateTransaction: the row is inserted, visible at the commit.          *)
Record(r) ==
    /\ pc[r] = "record"
    /\ tx[r] = "open"
    /\ ToCents(req[r].amount) > 0
    /\ Goto(r, "commit")
    /\ UNCHANGED <<req, code, tx, read, dirty, lock, tables>>

(* The rounded amount is zero: CHECK (amount > 0) fails.                   *)
RecordRefused(r) ==
    /\ pc[r] = "record"
    /\ tx[r] = "open"
    /\ ToCents(req[r].amount) = 0
    /\ Answer(r, 500)

RowOf(r) == [req |-> r, from |-> req[r].from, to |-> req[r].to,
             amount |-> ToCents(req[r].amount)]

(* Mutant: the two rows are committed, the transactions row is not.        *)
CommitNoRow(r) ==
    /\ pc[r] = "commit"
    /\ tx[r] = "open"
    /\ balance' = [balance EXCEPT ![req[r].from] = dirty[r].from,
                                  ![req[r].to] = dirty[r].to]
    /\ EndTx(r)
    /\ Goto(r, "reply")
    /\ UNCHANGED <<req, code, ledger, deposits>>

(* tx.Commit takes effect in the database.                                 *)
Commit(r) ==
    /\ pc[r] = "commit"
    /\ tx[r] = "open"
    /\ balance' = [balance EXCEPT ![req[r].from] = dirty[r].from,
                                  ![req[r].to] = dirty[r].to]
    /\ ledger' = ledger \cup {RowOf(r)}
    /\ EndTx(r)
    /\ Goto(r, "reply")
    /\ UNCHANGED <<req, code, deposits>>
-----------------------------------------------------------------------------
(* DepositToAccount                                                        *)

(* UPDATE accounts SET balance = balance + $1: waits for the row lock; the *)
(* sum is a NUMERIC, so it is exact until it is stored.                    *)
Deposit(r) ==
    LET to == req[r].to
        sum == balance[to] + req[r].amount IN
    /\ pc[r] = "deposit"
    /\ to \in Accounts
    /\ lock[to] = NoRequest
    /\ Fits(sum)
    /\ balance' = [balance EXCEPT ![to] = ToCents(sum)]
    /\ deposits' = deposits \cup
                     {[req |-> r, to |-> to, amount |-> ToCents(sum) - balance[to]]}
    /\ Goto(r, "reply")
    /\ UNCHANGED <<req, code, tx, read, dirty, lock, ledger>>

(* No row has the id (404), or the new balance overflows (500).            *)
DepositFails(r) ==
    /\ pc[r] = "deposit"
    /\ \/ /\ req[r].to \notin Accounts
          /\ Answer(r, 404)
       \/ /\ req[r].to \in Accounts
          /\ lock[req[r].to] = NoRequest
          /\ ~Fits(balance[req[r].to] + req[r].amount)
          /\ Answer(r, 500)

Reply(r) ==
    /\ pc[r] = "reply"
    /\ Answer(r, IF req[r].kind = "transfer" THEN 201 ELSE 200)
-----------------------------------------------------------------------------
(* Faults                                                                  *)

(* Mutant: the error tx.Commit returns is not looked at.                   *)
CommitErrorIgnored(r) ==
    /\ pc[r] = "commit"
    /\ EndTx(r)
    /\ Goto(r, "reply")
    /\ UNCHANGED <<req, code, tables>>

(* The next statement of r fails; every handler answers 500.               *)
StatementFails(r) ==
    /\ \/ pc[r] \in (InTx \ {"check"}) \cup {"begin", "deposit"}
       \/ pc[r] = "check" /\ ChecksPass(r)
    /\ Answer(r, 500)

(* The context of r is cancelled: database/sql rolls its transaction back  *)
(* while the handler is between two statements.                            *)
ContextCancelled(r) ==
    /\ tx[r] = "open"
    /\ tx' = [tx EXCEPT ![r] = "rolledBack"]
    /\ lock' = [a \in Accounts |-> IF lock[a] = r THEN NoRequest ELSE lock[a]]
    /\ dirty' = [dirty EXCEPT ![r] = NoBalances]
    /\ UNCHANGED <<req, pc, code, read, tables>>

(* A statement on a transaction that is over returns sql.ErrTxDone.        *)
TxDone(r) == tx[r] = "rolledBack" /\ StatementFails(r)

(* r holds its sender's row and waits for its receiver's.                  *)
WaitsForTo(r) ==
    /\ pc[r] = "lockTo"
    /\ tx[r] = "open"
    /\ req[r].to \in Accounts
    /\ lock[req[r].to] # NoRequest

InDeadlock(r) ==
    \E S \in SUBSET Requests :
        /\ r \in S
        /\ \A q \in S : WaitsForTo(q)
        /\ S = {lock[req[q].to] : q \in S}

(* Mutant: two transactions that wait for each other wait forever.         *)
NoVictim(r) == FALSE /\ StatementFails(r)

(* PostgreSQL finds the cycle and fails the statement of one member.       *)
DeadlockVictim(r) == InDeadlock(r) /\ StatementFails(r)

(* The change is committed, but the connection is lost before its answer.  *)
AnswerLost(r) ==
    /\ pc[r] = "reply"
    /\ Answer(r, 500)

(* The server process dies; PostgreSQL rolls back what it had open.        *)
Crash ==
    /\ \E r \in Requests : Active(r)
    /\ pc' = [r \in Requests |-> IF Active(r) THEN "done" ELSE pc[r]]
    /\ tx' = [r \in Requests |-> "none"]
    /\ read' = [r \in Requests |-> NoBalances]
    /\ dirty' = [r \in Requests |-> NoBalances]
    /\ lock' = [a \in Accounts |-> NoRequest]
    /\ UNCHANGED <<req, code, tables>>
-----------------------------------------------------------------------------
(* What the code and the database do of themselves.                        *)
Handle(r) ==
    \/ Invalid(r) \/ Accept(r)
    \/ BeginTx(r) \/ SameAccount(r)
    \/ LockFrom(r) \/ LockTo(r) \/ AccountNotFound(r)
    \/ Refused(r) \/ Debit(r) \/ Credit(r) \/ CreditOverflows(r)
    \/ Record(r) \/ RecordRefused(r) \/ Commit(r)
    \/ Deposit(r) \/ DepositFails(r)
    \/ Reply(r)
    \/ TxDone(r) \/ DeadlockVictim(r)

Fault(r) == StatementFails(r) \/ ContextCancelled(r) \/ AnswerLost(r)

(* Every request has been served; the server waits for the next one.       *)
Idle == (\A r \in Requests : pc[r] = "done") /\ UNCHANGED vars

Next ==
    \/ \E r \in Requests : Handle(r) \/ Fault(r)
    \/ Crash
    \/ Idle

Spec == Init /\ [][Next]_vars

(* A goroutine that can run does run, PostgreSQL answers the statements it *)
(* is sent, and it resolves a deadlock. Nothing makes a client send a      *)
(* request, and nothing is assumed of the faults.                          *)
FairSpec == Spec /\ \A r \in Requests : WF_vars(Active(r) /\ Handle(r))
-----------------------------------------------------------------------------
(* Properties                                                              *)

Asked(r) == req[r].kind = "transfer" /\ req[r].from # req[r].to /\ req[r].amount > 0

RowsOf(r) == {row \in ledger : row.req = r}

DepositsOf(r) == {d \in deposits : d.req = r}

(* The rows the open transaction of r has locked, which are those it read. *)
Both == {"check", "credit", "record", "commit"}

Held(r) ==
    {a \in Accounts :
        /\ tx[r] = "open"
        /\ \/ pc[r] \in Both \cup {"lockTo"} /\ a = req[r].from
           \/ pc[r] \in Both /\ a = req[r].to}

(* A row lock belongs to exactly the open transactions that read the row   *)
(* for update: no early return, failed statement, cancelled context or     *)
(* crash leaves a lock behind, and none is lost while a transaction runs   *)
(* (the deferred tx.Rollback of TransferMoney).                            *)
LocksFollowTransactions ==
    \A a \in Accounts, r \in Requests : lock[a] = r <=> a \in Held(r)

(* The next statement of r waits for the lock of a row, and for whom.      *)
Needs(r) == IF pc[r] = "lockFrom" THEN req[r].from ELSE req[r].to

Waits(r) ==
    /\ \/ pc[r] \in {"lockFrom", "lockTo"} /\ tx[r] = "open"
       \/ pc[r] = "deposit"
    /\ Needs(r) \in Accounts
    /\ lock[Needs(r)] # NoRequest

WaitsFor(r) == lock[Needs(r)]

(* Nobody waits in vain.  Requests that wait for none but each other, and  *)
(* for requests that are over, have among them a deadlock that PostgreSQL  *)
(* sees and breaks: a deposit that waits, a transfer that holds no row yet *)
(* and the longest chain of them end at a request that can run.            *)
WaitsEnd ==
    \A S \in SUBSET {r \in Requests : Waits(r)} :
        /\ S # {}
        /\ \A r \in S : WaitsFor(r) \in S \/ ~Active(WaitsFor(r))
        => \E r \in S : InDeadlock(r)

(* What TransferMoney read stays true until its transaction is over: no    *)
(* transfer or deposit changes a balance between the SELECT ... FOR UPDATE *)
(* of a row and the write computed from it in Go.                          *)
ReadsAreCurrent ==
    \A r \in Requests : tx[r] = "open" =>
        /\ pc[r] \in Both \cup {"lockTo"} => read[r].from = balance[req[r].from]
        /\ pc[r] \in Both => read[r].to = balance[req[r].to]

(* No interleaving of transfers and deposits overdraws an account or takes *)
(* a balance past its column: nothing in the schema forbids a negative     *)
(* balance, only the check in TransferMoney stands in the way.             *)
NoOverdraft == \A a \in Accounts : balance[a] \in 0..MaxBalance

(* The status a client reads tells what happened: 201 only after its row   *)
(* was committed with the amount it asked for, debiting an account it      *)
(* owns; 200 only after its deposit; and no row or deposit after a 4xx.    *)
(* (A 500 tells nothing: the commit may have happened.)                    *)
CodeTellsOutcome ==
    \A r \in Requests :
        /\ code[r] = 201 => RowsOf(r) = {RowOf(r)} /\ IsOwner(r)
        /\ code[r] = 200 => DepositsOf(r) # {}
        /\ code[r] \in {400, 403, 404} => RowsOf(r) \cup DepositsOf(r) = {}

AmountsOf(rows) == MapThenSumSet(LAMBDA row : row.amount, rows)

(* What the rows of transactions, and the deposits, say account a holds.   *)
Books(a) == Opening[a] + AmountsOf({d \in deposits : d.to = a})
              + AmountsOf({row \in ledger : row.to = a})
              - AmountsOf({row \in ledger : row.from = a})

(* The balances are those the transaction history accounts for: money is   *)
(* neither lost nor made (README.md:38, "preventing data loss").           *)
BooksBalance == \A a \in Accounts : balance[a] = Books(a)

(* With fractions of a cent the two disagree, by a bounded amount and in a *)
(* known direction: a transfer may leave its sender at most one cent more  *)
(* than its row says, and its receiver at most one cent less.              *)
DriftBounded ==
    \A a \in Accounts :
        /\ balance[a] - Books(a) =< Cent * Cardinality({row \in ledger : row.from = a})
        /\ Books(a) - balance[a] =< Cent * Cardinality({row \in ledger : row.to = a})

(* The row of a transfer is committed with its two changes of balance, of  *)
(* which each falls short of the amount in the row by a cent at most.      *)
MovedWith(row) ==
    /\ row.from # row.to
    /\ balance[row.from] - balance'[row.from] \in {row.amount - Cent, row.amount}
    /\ balance'[row.to] - balance[row.to] \in {row.amount - Cent, row.amount}
    /\ \A a \in Accounts \ {row.from, row.to} : balance'[a] = balance[a]

TransferBooked ==
    \E row \in ledger' \ ledger :
        /\ ledger' = ledger \cup {row}
        /\ RowsOf(row.req) = {}
        /\ MovedWith(row)
        /\ UNCHANGED deposits

DepositBooked ==
    \E d \in deposits' \ deposits :
        /\ deposits' = deposits \cup {d}
        /\ balance' = [balance EXCEPT ![d.to] = @ + d.amount]
        /\ UNCHANGED ledger

(* No step changes a balance but the commit of one transfer, with its row, *)
(* or one deposit, and rows are never changed or removed: not by a lost    *)
(* update, nor by a rollback, a failure or a crash between the statements. *)
ChangesAreBooked == [][TransferBooked \/ DepositBooked]_tables

L == INSTANCE Ledger WITH Amounts <- {ToCents(m.amount) : m \in Menu}

(* When amounts are whole cents, transfers statement by statement do what  *)
(* the atomic, exact Ledger does: each commit is one of its transfers.     *)
LedgerSpec == L!Spec

(* Every request is answered or dies with the server: transfers that lock  *)
(* the same two rows in opposite orders do not wait for each other forever.*)
Answered == \A r \in Requests : pc[r] # "idle" ~> pc[r] = "done"

(* The inductive invariant.                                                *)

(* What the point a request has reached says of it.                        *)
ControlInv ==
    \A r \in Requests :
        /\ tx[r] # "none" <=> pc[r] \in InTx
        /\ pc[r] \in InTx => Asked(r)
        /\ pc[r] \in {"begin"} => req[r].kind = "transfer"
        /\ pc[r] = "deposit" => req[r].kind = "deposit" /\ req[r].amount > 0
        /\ pc[r] \in Both \cup {"lockTo"} => req[r].from \in Accounts
        /\ pc[r] \in Both => req[r].to \in Accounts
        /\ pc[r] \in {"credit", "record", "commit"} => ChecksPass(r)
        /\ pc[r] = "commit" => ToCents(req[r].amount) > 0

(* The uncommitted row versions are the ones the code computed.            *)
DirtyInv ==
    \A r \in Requests : tx[r] = "open" =>
        /\ pc[r] \in {"credit", "record", "commit"} =>
               dirty[r].from \in StoredFloat(read[r].from - req[r].amount)
        /\ pc[r] \in {"record", "commit"} =>
               /\ dirty[r].to \in StoredFloat(read[r].to + req[r].amount)
               /\ dirty[r].to =< MaxBalance

(* Nothing of a request is committed before its last statement, and what   *)
(* is committed is what it asked for.                                      *)
HistoryInv ==
    \A r \in Requests :
        /\ pc[r] \notin {"reply", "done"} => RowsOf(r) \cup DepositsOf(r) = {}
        /\ pc[r] # "done" => code[r] = 0
        /\ pc[r] = "reply" /\ req[r].kind = "transfer" =>
               RowsOf(r) = {RowOf(r)} /\ IsOwner(r)
        /\ pc[r] = "reply" /\ req[r].kind = "deposit" => DepositsOf(r) # {}

WholeCents == \A a \in Accounts : IsWholeCents(balance[a])

(* What makes the properties above inductive: a request's position tells   *)
(* what it asked, locked, read and wrote, and that it committed nothing    *)
(* yet.                                                                    *)
IInv ==
    /\ TypeOK
    /\ ControlInv
    /\ LocksFollowTransactions
    /\ ReadsAreCurrent
    /\ DirtyInv
    /\ NoOverdraft
    /\ WholeCents
    /\ HistoryInv
    /\ CodeTellsOutcome
=============================================================================
