------------------------------ MODULE Queries ------------------------------
(***************************************************************************)
(* What clients read of the money that Transfers moves: the history of an  *)
(* account (TransactionService.ListTransactionsForAccount) and the admin's *)
(* list of all accounts (AccountService.GetAllAccounts).                   *)
(*                                                                         *)
(* A query is a request of its own and takes no lock.  The history is read *)
(* in two statements, the account with its owner and then the rows of      *)
(* transactions, newest first by created_at.  That column is filled by     *)
(* CURRENT_TIMESTAMP, the time the transaction began: rows are ordered by  *)
(* their BEGIN, and become visible, in another order, at their COMMIT.     *)
(*                                                                         *)
(* What a query answers is kept as sets; the order of a history is that of *)
(* created_at, in units of which every BEGIN has its own.                  *)
(***************************************************************************)
EXTENDS Transfers

CONSTANTS Readers,   \* identities of the queries
          ReadMenu   \* what a query may ask for

HistoryReq == [kind : {"history"}, user : Users, of : AccountIds]
AllReq == [kind : {"all"}]

ASSUME ReadMenuAssumption == ReadMenu \subseteq HistoryReq \cup AllReq

VARIABLES query,      \* query[q]: what query q asks for
          rpc,        \* rpc[q]: the statement query q runs next
          rcode,      \* rcode[q]: its HTTP status, 0 if none was sent
          page,       \* page[q]: the requests whose rows a history lists
          listing,    \* listing[q]: the balances a list of all accounts shows
          now,        \* the time, moved on by every BEGIN
          createdAt,  \* createdAt[r]: transactions.created_at of the row of r
          before,     \* history: before[r], the transfers answered when r came
          known       \* history: known[q], the changes clients know of when q came

written == <<now, createdAt, before>>
readers == <<query, rpc, rcode, page, listing, known>>
allVars == <<vars, written, readers>>

QTypeOK ==
    /\ query \in [Readers -> ReadMenu]
    /\ rpc \in [Readers -> {"idle", "owner", "rows", "all", "done"}]
    /\ rcode \in [Readers -> {0, 200, 403, 404, 500}]
    /\ page \in [Readers -> SUBSET Requests]
    /\ DOMAIN listing = Readers
    /\ \A q \in Readers :
           DOMAIN listing[q] \subseteq Accounts /\ listing[q] \in [DOMAIN listing[q] -> Int]
    /\ now \in Nat
    /\ createdAt \in [Requests -> Nat]
    /\ before \in [Requests -> SUBSET Requests]
    /\ known \in [Readers -> SUBSET Requests]

QInit ==
    /\ Init
    /\ query \in [Readers -> ReadMenu]
    /\ rpc = [q \in Readers |-> "idle"]
    /\ rcode = [q \in Readers |-> 0]
    /\ page = [q \in Readers |-> {}]
    /\ listing = [q \in Readers |-> << >>]
    /\ now = 1
    /\ createdAt = [r \in Requests |-> 0]
    /\ before = [r \in Requests |-> {}]
    /\ known = [q \in Readers |-> {}]
-----------------------------------------------------------------------------
(* A step of a request that moves money                                    *)

(* created_at DEFAULT CURRENT_TIMESTAMP is the time of the BEGIN.          *)
Stamp(r) ==
    IF tx[r] = "none" /\ tx'[r] = "open"
      THEN now' = now + 1 /\ createdAt' = [createdAt EXCEPT ![r] = now]
      ELSE UNCHANGED <<now, createdAt>>

Move(r) ==
    /\ Handle(r) \/ Fault(r)
    /\ Stamp(r)
    /\ before' = IF pc[r] = "idle"
                   THEN [before EXCEPT ![r] = {p \in Requests : code[p] = 201}]
                   ELSE before
    /\ UNCHANGED readers
-----------------------------------------------------------------------------
(* A query                                                                 *)

RGoto(q, step) == rpc' = [rpc EXCEPT ![q] = step]

RAnswer(q, status) ==
    /\ RGoto(q, "done")
    /\ rcode' = [rcode EXCEPT ![q] = status]

ROnly == UNCHANGED <<vars, written, query>>

(* What clients have been told of when q comes: what was answered with     *)
(* success, and what the histories answered so far list.                   *)
Told == {r \in Requests : code[r] \in {200, 201}}
          \cup UNION {page[p] : p \in {p \in Readers : rcode[p] = 200}}

Ask(q) ==
    /\ rpc[q] = "idle"
    /\ known' = [known EXCEPT ![q] = Told]
    /\ RGoto(q, IF query[q].kind = "all" THEN "all" ELSE "owner")
    /\ ROnly /\ UNCHANGED <<rcode, page, listing>>

(* GetAccountByID and the ownership check.                                 *)
CheckOwner(q) ==
    LET of == query[q].of IN
    /\ rpc[q] = "owner"
    /\ \/ of \notin Accounts /\ RAnswer(q, 404)
       \/ of \in Accounts /\ Owner[of] # query[q].user /\ RAnswer(q, 403)
       \/ of \in Accounts /\ Owner[of] = query[q].user /\ RGoto(q, "rows") /\ UNCHANGED rcode
    /\ ROnly /\ UNCHANGED <<page, listing, known>>

(* Mutant: OR to_account_id = $1 is forgotten.                             *)
SentOf(a) == {row.req : row \in {row \in ledger : row.from = a}}

(* The requests with a committed row from or to account a.                 *)
RowsOfAccount(a) == {row.req : row \in {row \in ledger : row.from = a \/ row.to = a}}

(* Mutant: ORDER BY created_at.                                            *)
AboveAsc(r, p) == createdAt[r] < createdAt[p]

(* ORDER BY created_at DESC.                                               *)
Above(r, p) == createdAt[r] > createdAt[p]

(* GetTransactionsByAccountID.                                             *)
SelectRows(q) ==
    /\ rpc[q] = "rows"
    /\ page' = [page EXCEPT ![q] = RowsOfAccount(query[q].of)]
    /\ RAnswer(q, 200)
    /\ ROnly /\ UNCHANGED <<listing, known>>

(* The connection breaks between two rows, and rows.Err is not looked at.  *)
SelectCutShort(q) ==
    /\ rpc[q] = "rows"
    /\ \E last \in RowsOfAccount(query[q].of) :
           page' = [page EXCEPT ![q] =
                        {r \in RowsOfAccount(query[q].of) : Above(r, last)}]
    /\ RAnswer(q, 200)
    /\ ROnly /\ UNCHANGED <<listing, known>>

(* GetAllAccounts: one SELECT, one snapshot of the committed rows, and     *)
(* fewer of them when the connection breaks.                               *)
SelectAll(q) ==
    /\ rpc[q] = "all"
    /\ \E rows \in SUBSET Accounts :
           listing' = [listing EXCEPT ![q] = [a \in rows |-> balance[a]]]
    /\ RAnswer(q, 200)
    /\ ROnly /\ UNCHANGED <<page, known>>

QueryFails(q) ==
    /\ rpc[q] \in {"owner", "rows", "all"}
    /\ RAnswer(q, 500)
    /\ ROnly /\ UNCHANGED <<page, listing, known>>
-----------------------------------------------------------------------------
(* The server dies, with the requests and queries under way.               *)
QCrash ==
    /\ \/ Crash
       \/ (\A r \in Requests : ~Active(r)) /\ UNCHANGED vars
    /\ rpc' = [q \in Readers |-> IF rpc[q] = "idle" THEN "idle" ELSE "done"]
    /\ UNCHANGED <<written, query, rcode, page, listing, known>>

QIdle ==
    /\ Idle /\ \A q \in Readers : rpc[q] = "done"
    /\ UNCHANGED <<written, readers>>

QNext ==
    \/ \E r \in Requests : Move(r)
    \/ \E q \in Readers :
           \/ Ask(q) \/ CheckOwner(q) \/ SelectRows(q) \/ SelectCutShort(q)
           \/ SelectAll(q) \/ QueryFails(q)
    \/ QCrash
    \/ QIdle

QSpec == QInit /\ [][QNext]_allVars
-----------------------------------------------------------------------------
(* Properties                                                              *)

Listed(q) == query[q].kind = "history" /\ rcode[q] = 200

(* A client that waits for the answer of one transfer before it sends the  *)
(* next finds them in that order in every history, although created_at is  *)
(* the time of the BEGIN and other transfers commit in any order.          *)
HistoryRespectsAnswers ==
    \A q \in Readers : Listed(q) =>
        \A r, p \in page[q] : r \in before[p] => Above(p, r)

(* A history shows what its reader could know of: every transfer answered  *)
(* with 201, and every row another history has shown.  Rows can only be    *)
(* missing from its old end, when the connection breaks: never one between *)
(* two that are shown.                                                     *)
HistoryHasNoHoles ==
    \A q \in Readers : Listed(q) =>
        \A row \in ledger :
            /\ row.req \in known[q]
            /\ query[q].of \in {row.from, row.to}
            => row.req \in page[q] \/ \A p \in page[q] : Above(p, row.req)

ExplainedBy(balances, rows, added) ==
    \A a \in DOMAIN balances :
        balances[a] = Opening[a] + AmountsOf({d \in added : d.to = a})
                        + AmountsOf({row \in rows : row.to = a})
                        - AmountsOf({row \in rows : row.from = a})

(* The admin's list of all accounts shows whole transfers only, never the  *)
(* debit without its credit, and at least those that were answered or that *)
(* some history showed before it was asked for.                            *)
ListingsExplained ==
    \A q \in Readers : query[q].kind = "all" /\ rcode[q] = 200 =>
        \E rows \in SUBSET ledger, added \in SUBSET deposits :
            /\ ExplainedBy(listing[q], rows, added)
            /\ \A x \in (ledger \ rows) \cup (deposits \ added) : x.req \notin known[q]

(* What the three above rest on: clients know of committed changes only,   *)
(* and the BEGIN of a transfer comes after those it was asked after.       *)
Committed == {row.req : row \in ledger} \cup {d.req : d \in deposits}

RequestInv(r) ==
    /\ createdAt[r] < now
    /\ pc[r] \in InTx \cup {"reply"} /\ req[r].kind = "transfer" => createdAt[r] > 0
    /\ pc[r] \in {"idle", "begin"} => createdAt[r] = 0
    /\ RowsOf(r) # {} => createdAt[r] > 0
    /\ \A p \in before[r] : code[p] = 201
    /\ createdAt[r] > 0 => \A p \in before[r] : createdAt[r] > createdAt[p]

ReaderInv(q) ==
    /\ rpc[q] # "done" => rcode[q] = 0
    /\ rpc[q] = "all" => query[q].kind = "all"
    /\ rpc[q] \in {"owner", "rows"} => query[q].kind = "history"
    /\ known[q] \subseteq Committed
    /\ page[q] \subseteq {row.req : row \in ledger}

(* The inductive invariant, beside that of Transfers.                      *)
QInv ==
    /\ QTypeOK
    /\ \A r \in Requests : RequestInv(r)
    /\ \A q \in Readers : ReaderInv(q)
    /\ HistoryHasNoHoles
=============================================================================
