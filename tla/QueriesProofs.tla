--------------------------- MODULE QueriesProofs ---------------------------
(***************************************************************************)
(* Theorems about Queries, for any requests, queries, accounts and         *)
(* amounts: queries leave what Transfers promises as it is, a history is   *)
(* in order and has no holes, and the list of all accounts shows whole     *)
(* transfers.                                                              *)
(***************************************************************************)
EXTENDS Queries, BooksProofs

(* Queries change nothing that Transfers is about.                         *)
THEOREM ImplementsTransfers == QSpec => Spec
<1>1. QInit => Init
  BY DEF QInit
<1>2. [QNext]_allVars => [Next]_vars
  <2>1. ASSUME NEW r \in Requests, Move(r) PROVE Next
    BY <2>1 DEF Move, Next
  <2>2. ASSUME NEW q \in Readers,
               \/ Ask(q) \/ CheckOwner(q) \/ SelectRows(q) \/ SelectCutShort(q)
               \/ SelectAll(q) \/ QueryFails(q)
        PROVE  UNCHANGED vars
    BY <2>2 DEF Ask, CheckOwner, SelectRows, SelectCutShort, SelectAll, QueryFails, ROnly
  <2> QED
    BY <2>1, <2>2 DEF QNext, QCrash, QIdle, Next, allVars
<1> QED
  BY <1>1, <1>2, PTL DEF QSpec, Spec

(* What Transfers keeps invariant is invariant here.                       *)
LEMMA TransfersInv == QSpec => []IInv
BY ImplementsTransfers, Invariance, PTL
-----------------------------------------------------------------------------
(* What a step of a request may do to the state queries read               *)

(* A committed row or deposit is that of a request near its end.           *)
LEMMA CommittedLate ==
    ASSUME IInv, NEW r \in Requests, r \in Committed
    PROVE  pc[r] \in {"reply", "done"}
BY DEF IInv, HistoryInv, Committed, RowsOf, DepositsOf

Steps(r) == Accept(r) \/ BeginTx(r) \/ LockFrom(r) \/ LockTo(r) \/ Debit(r) \/ Credit(r)
              \/ Record(r) \/ Commit(r) \/ Deposit(r) \/ ContextCancelled(r)

LEMMA MoveCases ==
    ASSUME NEW r \in Requests, Handle(r) \/ Fault(r)
    PROVE  Steps(r) \/ \E status \in Codes : Answer(r, status)
<1>1. CASE StatementFails(r) \/ TxDone(r) \/ DeadlockVictim(r)
  BY <1>1 DEF StatementFails, TxDone, DeadlockVictim, Codes
<1>2. CASE \/ Invalid(r) \/ SameAccount(r) \/ AccountNotFound(r)
           \/ Refused(r) \/ CreditOverflows(r) \/ RecordRefused(r)
           \/ DepositFails(r) \/ Reply(r) \/ AnswerLost(r)
  BY <1>2 DEF Invalid, SameAccount, AccountNotFound, Refused, CreditOverflows,
              RecordRefused, DepositFails, Reply, AnswerLost, Codes
<1> QED
  BY <1>1, <1>2 DEF Handle, Fault, Steps

(* What is committed stays; a new row or deposit is that of r, which had   *)
(* none; only BEGIN opens a transaction.                                   *)
LEMMA MoveEffect ==
    ASSUME IInv, NEW r \in Requests, Handle(r) \/ Fault(r)
    PROVE  /\ ledger \subseteq ledger' /\ deposits \subseteq deposits'
           /\ \A row \in ledger' \ ledger :
                  /\ row.req = r /\ r \notin Committed
                  /\ pc[r] = "commit" /\ req[r].kind = "transfer"
           /\ \A d \in deposits' \ deposits : d.req = r /\ r \notin Committed
           /\ \A p \in Requests \ {r} : pc'[p] = pc[p] /\ tx'[p] = tx[p]
           /\ pc'[r] # "idle" /\ (pc'[r] = "begin" => pc[r] = "idle")
           /\ pc'[r] \in InTx \cup {"reply"} /\ req[r].kind = "transfer" =>
                  \/ pc[r] \in InTx
                  \/ tx[r] = "none" /\ tx'[r] = "open"
           /\ tx[r] = "none" /\ tx'[r] = "open" => pc[r] = "begin" /\ pc'[r] = "lockFrom"
           /\ req' = req
<1>1. ASSUME NEW status \in Codes, Answer(r, status) PROVE pc' = [pc EXCEPT ![r] = "done"]
             /\ tx' = [tx EXCEPT ![r] = "none"] /\ UNCHANGED <<req, ledger, deposits>>
  BY <1>1 DEF Answer, EndTx, tables
<1>2. CASE \E status \in Codes : Answer(r, status)
  BY <1>1, <1>2 DEF IInv, TypeOK, InTx
<1>3. CASE Accept(r) \/ BeginTx(r) \/ LockFrom(r) \/ LockTo(r)
  BY <1>3 DEF Accept, BeginTx, LockFrom, LockTo, Goto, tables, IInv, TypeOK, InTx,
              ControlInv
<1>4. CASE Debit(r) \/ Credit(r) \/ Record(r) \/ ContextCancelled(r)
  BY <1>4 DEF Debit, Credit, Record, ContextCancelled, Goto, tables, IInv, TypeOK, InTx,
              ControlInv
<1>5. CASE Commit(r)
  <2>1. r \notin Committed /\ req[r].kind = "transfer"
    BY <1>5, CommittedLate DEF Commit, IInv, ControlInv, Asked, InTx
  <2>2. ledger' = ledger \cup {RowOf(r)} /\ deposits' = deposits /\ req' = req
    BY <1>5 DEF Commit
  <2>3. RowOf(r).req = r
    BY DEF RowOf
  <2> QED
    BY <1>5, <2>1, <2>2, <2>3 DEF Commit, EndTx, Goto, IInv, TypeOK, InTx
<1>6. CASE Deposit(r)
  <2>1. /\ ledger' = ledger /\ deposits \subseteq deposits' /\ req' = req /\ tx' = tx
        /\ \A d \in deposits' \ deposits : d.req = r
    BY <1>6 DEF Deposit
  <2>2. pc' = [pc EXCEPT ![r] = "reply"] /\ req[r].kind = "deposit"
    BY <1>6 DEF Deposit, Goto, IInv, ControlInv
  <2>3. r \notin Committed
    BY <1>6, CommittedLate DEF Deposit
  <2> QED
    BY <2>1, <2>2, <2>3 DEF IInv, TypeOK, InTx
<1> QED
  BY <1>2, <1>3, <1>4, <1>5, <1>6, MoveCases DEF Steps

(* A request that was answered takes no further step: codes stay.          *)
LEMMA CodeStays ==
    ASSUME IInv, NEW r \in Requests, Handle(r) \/ Fault(r), NEW p \in Requests,
           code[p] # 0
    PROVE  code'[p] = code[p]
<1>1. pc[p] = "done"
  BY DEF IInv, HistoryInv
<1>2. pc[r] # "done"
  <2>1. tx[r] = "open" => pc[r] # "done"
    BY DEF IInv, ControlInv, InTx
  <2>2. CASE StatementFails(r) \/ TxDone(r) \/ DeadlockVictim(r)
    BY <2>2 DEF StatementFails, TxDone, DeadlockVictim, InTx
  <2>3. CASE \/ Invalid(r) \/ Accept(r) \/ BeginTx(r) \/ SameAccount(r)
             \/ Refused(r) \/ Deposit(r) \/ DepositFails(r) \/ Reply(r) \/ AnswerLost(r)
    BY <2>3 DEF Invalid, Accept, BeginTx, SameAccount, Refused, Deposit, DepositFails,
                Reply, AnswerLost
  <2>4. CASE \/ LockFrom(r) \/ LockTo(r) \/ AccountNotFound(r) \/ Debit(r) \/ Credit(r)
             \/ CreditOverflows(r) \/ Record(r) \/ RecordRefused(r) \/ Commit(r)
             \/ ContextCancelled(r)
    BY <2>1, <2>4 DEF LockFrom, LockTo, AccountNotFound, Debit, Credit, CreditOverflows,
                      Record, RecordRefused, Commit, ContextCancelled
  <2> QED
    BY <2>2, <2>3, <2>4 DEF Handle, Fault
<1>3. p # r
  BY <1>1, <1>2
<1>4. CASE \E status \in Codes : Answer(r, status)
  BY <1>3, <1>4 DEF Answer, IInv, TypeOK
<1>5. CASE Steps(r)
  BY <1>5 DEF Steps, Accept, BeginTx, LockFrom, LockTo, Debit, Credit, Record, Commit,
              Deposit, ContextCancelled
<1> QED
  BY <1>4, <1>5, MoveCases
-----------------------------------------------------------------------------
(* The inductive invariant                                                 *)

LEMMA QInitInv == QInit => QInv
BY DEF RequestInv, ReaderInv, QInit, Init, QInv, QTypeOK, HistoryHasNoHoles, Listed,
       RowsOf, InTx, Committed

LEMMA ListedHasRow ==
    ASSUME QInv, NEW r \in Requests, r \in {row.req : row \in ledger}
    PROVE  RowsOf(r) # {} /\ createdAt[r] > 0
<1>1. RowsOf(r) # {}
  BY DEF RowsOf
<1> QED
  BY <1>1 DEF QInv, RequestInv

(* The order of created_at does not change between two rows.               *)
LEMMA StampStays ==
    ASSUME IInv, QInv, NEW r \in Requests, Move(r), NEW p \in Requests,
           p \in Committed \/ code[p] # 0
    PROVE  createdAt'[p] = createdAt[p]
<1>1. pc[p] \in {"reply", "done"}
  BY CommittedLate DEF IInv, HistoryInv
<1>2. CASE tx[r] = "none" /\ tx'[r] = "open"
  <2>1. pc[r] = "begin"
    BY <1>2, MoveEffect DEF Move
  <2> QED
    BY <1>1, <1>2, <2>1 DEF Move, Stamp, QInv, QTypeOK
<1> QED
  BY <1>2 DEF Move, Stamp

LEMMA MoveRequestInv ==
    ASSUME IInv, QInv, NEW r \in Requests, Move(r), NEW p \in Requests
    PROVE  RequestInv(p)'
<1> USE DEF Move
<1>0. RequestInv(p) /\ now \in Nat /\ createdAt \in [Requests -> Nat]
      /\ before \in [Requests -> SUBSET Requests] /\ createdAt[r] < now
  BY DEF QInv, QTypeOK, RequestInv
<1>1. now' \in Nat /\ createdAt' \in [Requests -> Nat] /\ createdAt'[p] < now'
  BY <1>0 DEF Stamp, RequestInv
<1>2. pc'[p] \in InTx \cup {"reply"} /\ req'[p].kind = "transfer" => createdAt'[p] > 0
  BY <1>0, MoveEffect DEF Stamp, RequestInv
<1>3. pc'[p] \in {"idle", "begin"} => createdAt'[p] = 0
  BY <1>0, MoveEffect DEF Stamp, RequestInv
<1>4. RowsOf(p)' # {} => createdAt'[p] > 0
  <2> SUFFICES ASSUME NEW row \in ledger', row.req = p PROVE createdAt'[p] > 0
    BY DEF RowsOf
  <2>1. CASE row \in ledger
    <3>1. p \in Committed /\ RowsOf(p) # {}
      BY <2>1 DEF Committed, RowsOf
    <3> QED
      BY <1>0, <3>1, StampStays DEF RequestInv
  <2>2. CASE row \notin ledger
    <3>1. p = r /\ pc[r] = "commit" /\ req[r].kind = "transfer"
      BY <2>2, MoveEffect
    <3>2. ~(tx[r] = "none" /\ tx'[r] = "open")
      BY <3>1, MoveEffect
    <3> QED
      BY <1>0, <3>1, <3>2 DEF Stamp, RequestInv, InTx
  <2> QED
    BY <2>1, <2>2
<1>5. \A o \in before'[p] : code'[o] = 201
  <2> SUFFICES ASSUME NEW o \in before'[p] PROVE code'[o] = 201
    OBVIOUS
  <2>1. o \in Requests /\ code[o] = 201
    BY <1>0 DEF RequestInv
  <2> QED
    BY <2>1, CodeStays
<1>6. createdAt'[p] > 0 => \A o \in before'[p] : createdAt'[p] > createdAt'[o]
  <2> SUFFICES ASSUME NEW o \in before'[p], createdAt'[p] > 0
               PROVE  createdAt'[p] > createdAt'[o]
    OBVIOUS
  <2>1. o \in Requests /\ code[o] = 201
    BY <1>0 DEF RequestInv
  <2>2. createdAt'[o] = createdAt[o] /\ createdAt[o] < now
    <3>1. code[o] # 0
      BY <2>1
    <3>2. createdAt'[o] = createdAt[o]
      BY <2>1, <3>1, StampStays
    <3> QED
      BY <2>1, <3>2 DEF QInv, RequestInv
  <2>3. CASE p = r /\ tx[r] = "none" /\ tx'[r] = "open"
    BY <1>0, <2>2, <2>3 DEF Stamp
  <2>4. CASE ~(p = r /\ tx[r] = "none" /\ tx'[r] = "open")
    <3>1. createdAt'[p] = createdAt[p]
      BY <1>0, <2>4 DEF Stamp
    <3>2. ~(p = r /\ pc[r] = "idle")
      BY <1>0, <3>1 DEF RequestInv
    <3>3. before'[p] = before[p]
      BY <1>0, <3>2
    <3> QED
      BY <1>0, <2>2, <3>1, <3>3 DEF RequestInv
  <2> QED
    BY <2>3, <2>4
<1> QED
  BY <1>1, <1>2, <1>3, <1>4, <1>5, <1>6 DEF RequestInv

LEMMA MoveInv == ASSUME IInv, QInv, NEW r \in Requests, Move(r) PROVE QInv'
<1>1. QTypeOK'
  <2>1. now' \in Nat /\ createdAt' \in [Requests -> Nat]
    BY DEF QInv, QTypeOK, Move, Stamp
  <2>2. before' \in [Requests -> SUBSET Requests]
    BY DEF QInv, QTypeOK, Move
  <2> QED
    BY <2>1, <2>2 DEF QInv, QTypeOK, Move, readers
<1>2. \A p \in Requests : RequestInv(p)'
  BY MoveRequestInv
<1>3. \A q \in Readers : ReaderInv(q)'
  <2>1. ledger \subseteq ledger' /\ deposits \subseteq deposits'
    BY MoveEffect DEF Move
  <2> QED
    BY <2>1 DEF QInv, ReaderInv, Move, readers, Committed
<1>4. HistoryHasNoHoles'
  <2> SUFFICES ASSUME NEW q \in Readers, Listed(q)', NEW row \in ledger',
                      row.req \in known'[q], query'[q].of \in {row.from, row.to}
               PROVE  row.req \in page'[q] \/ \A p \in page'[q] : Above(p, row.req)'
    BY DEF HistoryHasNoHoles
  <2>1. UNCHANGED readers /\ Listed(q)
    BY DEF Move, readers, Listed
  <2>2. row.req \in Committed
    BY <2>1 DEF QInv, ReaderInv, readers
  <2>3. row \in ledger
    BY <2>2, MoveEffect DEF Move
  <2>4. row.req \in page[q] \/ \A p \in page[q] : Above(p, row.req)
    BY <2>1, <2>3 DEF QInv, HistoryHasNoHoles, readers
  <2>5. \A p \in page[q] : p \in Committed /\ p \in Requests
    BY DEF QInv, QTypeOK, ReaderInv, Committed
  <2>6. \A p \in page[q] \cup {row.req} : createdAt'[p] = createdAt[p]
    <3>1. row.req \in Requests
      BY <2>3 DEF IInv, TypeOK
    <3> QED
      BY <2>2, <2>5, <3>1, StampStays
  <2> QED
    BY <2>1, <2>4, <2>6 DEF Above, readers
<1> QED
  BY <1>1, <1>2, <1>3, <1>4 DEF QInv
-----------------------------------------------------------------------------
(* The steps of a query                                                    *)

(* A step that leaves the tables, the times and the other queries alone    *)
(* keeps the invariant when it keeps what the invariant says of q.         *)
LEMMA ReaderStepInv ==
    ASSUME QInv, NEW q \in Readers, ROnly, QTypeOK', ReaderInv(q)',
           \A p \in Readers \ {q} :
               /\ page'[p] = page[p] /\ known'[p] = known[p]
               /\ rpc'[p] = rpc[p] /\ rcode'[p] = rcode[p],
           Listed(q)' =>
               \A row \in ledger :
                   row.req \in known'[q] /\ query[q].of \in {row.from, row.to}
                   => row.req \in page'[q] \/ \A p \in page'[q] : Above(p, row.req)
    PROVE  QInv'
<1>1. UNCHANGED <<ledger, deposits, createdAt, now, before, pc, req, code, query>>
  BY DEF ROnly, vars, tables, local, written
<1>2. \A r \in Requests : RequestInv(r)'
  BY <1>1 DEF QInv, RequestInv, RowsOf
<1>3. \A p \in Readers : ReaderInv(p)'
  BY <1>1 DEF QInv, ReaderInv, Committed
<1>4. HistoryHasNoHoles'
  <2> SUFFICES ASSUME NEW p \in Readers, Listed(p)', NEW row \in ledger,
                      row.req \in known'[p], query[p].of \in {row.from, row.to}
               PROVE  row.req \in page'[p] \/ \A o \in page'[p] : Above(o, row.req)
    BY <1>1 DEF HistoryHasNoHoles, Above
  <2>1. CASE p = q
    BY <2>1
  <2>2. CASE p # q
    BY <1>1, <2>2 DEF QInv, HistoryHasNoHoles, Listed
  <2> QED
    BY <2>1, <2>2
<1> QED
  BY <1>2, <1>3, <1>4 DEF QInv

LEMMA AskInv == ASSUME IInv, QInv, NEW q \in Readers, Ask(q) PROVE QInv'
<1>1. Told \subseteq Committed
  <2>1. ASSUME NEW r \in Requests, code[r] \in {200, 201} PROVE r \in Committed
    BY <2>1 DEF IInv, CodeTellsOutcome, Committed, RowsOf, DepositsOf
  <2> QED
    BY <2>1 DEF Told, QInv, ReaderInv, Committed
<1>2. Told \subseteq Requests
  BY DEF Told, QInv, QTypeOK
<1>3. QTypeOK'
  BY <1>2 DEF Ask, RGoto, ROnly, written, QInv, QTypeOK
<1>4. UNCHANGED <<ledger, deposits>>
  BY DEF Ask, ROnly, vars, tables
<1>5. ReaderInv(q)'
  <2>1. query[q].kind \in {"history", "all"} /\ query' = query
    BY ReadMenuAssumption DEF QInv, QTypeOK, HistoryReq, AllReq, Ask, ROnly
  <2>2. rpc'[q] = (IF query[q].kind = "all" THEN "all" ELSE "owner") /\ rcode'[q] = 0
    BY DEF Ask, RGoto, ReaderInv, QInv, QTypeOK
  <2>3. known'[q] \subseteq Committed' /\ page'[q] \subseteq {row.req : row \in ledger'}
    BY <1>1, <1>4 DEF Ask, ReaderInv, QInv, QTypeOK, Committed
  <2> QED
    BY <2>1, <2>2, <2>3 DEF ReaderInv
<1> QED
  BY <1>3, <1>5, ReaderStepInv DEF Ask, RGoto, Listed, ReaderInv, QInv, QTypeOK

(* The steps that answer no history.                                       *)
LEMMA OtherStepsInv ==
    ASSUME IInv, QInv, NEW q \in Readers,
           CheckOwner(q) \/ SelectAll(q) \/ QueryFails(q)
    PROVE  QInv'
<1> USE DEF CheckOwner, SelectAll, QueryFails, RAnswer, RGoto, ROnly
<1>1. QTypeOK'
  <2>1. UNCHANGED <<query, page, known, now, createdAt, before>>
    BY DEF written
  <2>2. /\ rpc' \in [Readers -> {"idle", "owner", "rows", "all", "done"}]
        /\ rcode' \in [Readers -> {0, 200, 403, 404, 500}]
    BY DEF QInv, QTypeOK
  <2> DEFINE ListingOK ==
          /\ DOMAIN listing' = Readers
          /\ \A p \in Readers :
                 /\ DOMAIN listing'[p] \subseteq Accounts
                 /\ listing'[p] \in [DOMAIN listing'[p] -> Int]
  <2>3. ListingOK
    <3>1. CASE listing' = listing
      BY <3>1 DEF QInv, QTypeOK
    <3>2. ASSUME NEW rows \in SUBSET Accounts,
                 listing' = [listing EXCEPT ![q] = [a \in rows |-> balance[a]]]
          PROVE  ListingOK
      <4>1. [a \in rows |-> balance[a]] \in [rows -> Int]
        BY DEF IInv, TypeOK
      <4>2. listing'[q] = [a \in rows |-> balance[a]]
            /\ \A p \in Readers \ {q} : listing'[p] = listing[p]
        BY <3>2 DEF QInv, QTypeOK
      <4>3. DOMAIN listing' = Readers
        BY <3>2 DEF QInv, QTypeOK
      <4> QED
        BY <4>1, <4>2, <4>3 DEF QInv, QTypeOK
    <3> QED
      BY <3>1, <3>2
  <2> QED
    BY <2>1, <2>2, <2>3 DEF QInv, QTypeOK
<1>2. UNCHANGED <<ledger, deposits, query, page, known>>
  BY DEF vars, tables
<1>3. ReaderInv(q)' /\ ~Listed(q)'
  BY <1>2 DEF ReaderInv, QInv, QTypeOK, Committed, Listed
<1>4. \A p \in Readers \ {q} :
          /\ page'[p] = page[p] /\ known'[p] = known[p]
          /\ rpc'[p] = rpc[p] /\ rcode'[p] = rcode[p]
  BY <1>2 DEF QInv, QTypeOK
<1> QED
  BY <1>1, <1>3, <1>4, ReaderStepInv

(* The whole history, or the newest part of it.                            *)
LEMMA SelectInv ==
    ASSUME IInv, QInv, NEW q \in Readers, SelectRows(q) \/ SelectCutShort(q)
    PROVE  QInv'
<1> DEFINE rows == RowsOfAccount(query[q].of)
<1> USE DEF SelectRows, SelectCutShort, RAnswer, RGoto, ROnly
<1>1. rows \subseteq {row.req : row \in ledger} /\ rows \subseteq Requests
  BY DEF RowsOfAccount, IInv, TypeOK
<1>2. page'[q] \subseteq rows
  BY DEF QInv, QTypeOK
<1>3. /\ UNCHANGED <<ledger, deposits, query, known, listing, written>>
      /\ \A p \in Readers \ {q} :
          /\ page'[p] = page[p] /\ known'[p] = known[p]
          /\ rpc'[p] = rpc[p] /\ rcode'[p] = rcode[p]
      /\ page' = [page EXCEPT ![q] = page'[q]]
      /\ rpc'[q] = "done"
  BY DEF vars, tables, QInv, QTypeOK
<1>4. QTypeOK'
  BY <1>1, <1>2, <1>3 DEF QInv, QTypeOK, written
<1>5. ReaderInv(q)'
  BY <1>1, <1>2, <1>3 DEF QInv, ReaderInv, Committed
<1>6. ASSUME NEW row \in ledger, query[q].of \in {row.from, row.to}
      PROVE  row.req \in page'[q] \/ \A p \in page'[q] : Above(p, row.req)
  <2>1. row.req \in rows /\ row.req \in Requests
    BY <1>1, <1>6 DEF RowsOfAccount
  <2>2. CASE page'[q] = rows
    BY <2>1, <2>2
  <2>3. ASSUME NEW last \in rows, page'[q] = {r \in rows : Above(r, last)}
        PROVE  row.req \in page'[q] \/ \A p \in page'[q] : Above(p, row.req)
    BY <1>1, <2>1, <2>3 DEF Above, QInv, QTypeOK
  <2> QED
    BY <2>2, <2>3 DEF QInv, QTypeOK
<1> QED
  BY <1>3, <1>4, <1>5, <1>6, ReaderStepInv

LEMMA QuietInv ==
    ASSUME QInv, UNCHANGED <<ledger, deposits, code, written, query, rcode, page, listing, known>>,
           UNCHANGED req,
           \A r \in Requests : pc'[r] \in {pc[r], "done"},
           \A q \in Readers : rpc'[q] \in {rpc[q], "done"}, DOMAIN rpc' = Readers,
           rpc' = [q \in Readers |-> rpc'[q]]
    PROVE  QInv'
<1>1. QTypeOK'
  BY DEF QInv, QTypeOK, written
<1>2. \A r \in Requests : RequestInv(r)'
  BY DEF QInv, RequestInv, RowsOf, written, InTx
<1>3. \A q \in Readers : ReaderInv(q)'
  BY DEF QInv, ReaderInv, Committed
<1>4. HistoryHasNoHoles'
  BY DEF QInv, HistoryHasNoHoles, Listed, Above, written
<1> QED
  BY <1>1, <1>2, <1>3, <1>4 DEF QInv

LEMMA QNextInv == IInv /\ QInv /\ [QNext]_allVars => QInv'
<1> SUFFICES ASSUME IInv, QInv, [QNext]_allVars PROVE QInv'
  OBVIOUS
<1>1. CASE \E r \in Requests : Move(r)
  BY <1>1, MoveInv
<1>2. CASE \E q \in Readers :
               \/ Ask(q) \/ CheckOwner(q) \/ SelectRows(q) \/ SelectCutShort(q)
               \/ SelectAll(q) \/ QueryFails(q)
  BY <1>2, AskInv, OtherStepsInv, SelectInv
<1>3. CASE QCrash
  <2>1. UNCHANGED <<req, ledger, deposits, code>> /\ \A r \in Requests : pc'[r] \in {pc[r], "done"}
    BY <1>3 DEF QCrash, Crash, vars, local, tables
  <2> QED
    BY <1>3, <2>1, QuietInv DEF QCrash, QInv, QTypeOK
<1>4. CASE QIdle \/ UNCHANGED allVars
  BY <1>4, QuietInv DEF QIdle, Idle, allVars, vars, local, tables, readers, QInv, QTypeOK
<1> QED
  BY <1>1, <1>2, <1>3, <1>4 DEF QNext

(* What clients know of is committed, and transfers are created in the     *)
(* order in which clients waited for them.                                 *)
THEOREM QInvariance == QSpec => []QInv
BY QInitInv, QNextInv, TransfersInv, PTL DEF QSpec

(* A history lists transfers in the order in which their clients waited    *)
(* for them (ORDER BY created_at DESC, transaction_repository.go:52).      *)
THEOREM HistoriesAreOrdered == QSpec => []HistoryRespectsAnswers
<1>1. QInv => HistoryRespectsAnswers
  <2> SUFFICES ASSUME QInv, NEW q \in Readers, NEW r \in page[q], NEW p \in page[q],
                      r \in before[p]
               PROVE  Above(p, r)
    BY DEF HistoryRespectsAnswers
  <2>1. p \in Requests /\ r \in Requests /\ createdAt[p] > 0
    BY ListedHasRow DEF QInv, QTypeOK, ReaderInv
  <2> QED
    BY <2>1 DEF QInv, RequestInv, Above
<1> QED
  BY <1>1, QInvariance, PTL

(* No history hides a transfer its reader could know of, except at its old *)
(* end (transaction_repository.go:62, the loop that ignores rows.Err).     *)
THEOREM HistoriesHaveNoHoles == QSpec => []HistoryHasNoHoles
<1>1. QInv => HistoryHasNoHoles
  BY DEF QInv
<1> QED
  BY <1>1, QInvariance, PTL
-----------------------------------------------------------------------------
(* The list of all accounts                                                *)

LEMMA ListedBefore ==
    ASSUME IInv, QInv, ListingsExplained, [QNext]_allVars,
           NEW q \in Readers, query'[q].kind = "all", rcode'[q] = 200,
           UNCHANGED <<rcode[q], listing[q], known[q], query[q]>>,
           ledger \subseteq ledger', deposits \subseteq deposits',
           \A x \in (ledger' \ ledger) \cup (deposits' \ deposits) : x.req \notin Committed
    PROVE  \E rows \in SUBSET ledger', added \in SUBSET deposits' :
               /\ ExplainedBy(listing'[q], rows, added)
               /\ \A x \in (ledger' \ rows) \cup (deposits' \ added) : x.req \notin known'[q]
<1>1. PICK rows \in SUBSET ledger, added \in SUBSET deposits :
          /\ ExplainedBy(listing[q], rows, added)
          /\ \A x \in (ledger \ rows) \cup (deposits \ added) : x.req \notin known[q]
  BY DEF ListingsExplained
<1>2. rows \in SUBSET ledger' /\ added \in SUBSET deposits'
  OBVIOUS
<1>3. ExplainedBy(listing'[q], rows, added)
  BY <1>1, Zenon
<1>4. known[q] \subseteq Committed
  BY DEF QInv, ReaderInv
<1>5. \A x \in (ledger' \ rows) \cup (deposits' \ added) : x.req \notin known'[q]
  BY <1>1, <1>4
<1> QED
  BY <1>2, <1>3, <1>5

(* What SelectAll reads is what the books, all of them, say.               *)
LEMMA SnapshotExplained ==
    ASSUME BooksBalance, NEW q \in Readers, SelectAll(q), QInv
    PROVE  \E rows \in SUBSET ledger', added \in SUBSET deposits' :
               /\ ExplainedBy(listing'[q], rows, added)
               /\ \A x \in (ledger' \ rows) \cup (deposits' \ added) : x.req \notin known'[q]
<1>1. ledger' = ledger /\ deposits' = deposits
  BY DEF SelectAll, ROnly, vars, tables
<1>2. PICK rows \in SUBSET Accounts : listing' = [listing EXCEPT ![q] = [a \in rows |-> balance[a]]]
  BY DEF SelectAll
<1>3. listing'[q] = [a \in rows |-> balance[a]]
  BY <1>2 DEF QInv, QTypeOK
<1>4. ASSUME NEW a \in DOMAIN listing'[q]
      PROVE  listing'[q][a] = Books(a)
  BY <1>3 DEF BooksBalance
<1>5. ExplainedBy(listing'[q], ledger, deposits)
  BY <1>4, Zenon DEF ExplainedBy, Books
<1>6. \A x \in (ledger' \ ledger) \cup (deposits' \ deposits) : x.req \notin known'[q]
  BY <1>1
<1> QED
  BY <1>1, <1>5, <1>6

LEMMA ListingsStep ==
    ASSUME IInv, QInv, BooksBalance, ListingsExplained, [QNext]_allVars
    PROVE  ListingsExplained'
<1> SUFFICES ASSUME NEW q \in Readers, query'[q].kind = "all", rcode'[q] = 200
             PROVE  \E rows \in SUBSET ledger', added \in SUBSET deposits' :
                        /\ ExplainedBy(listing'[q], rows, added)
                        /\ \A x \in (ledger' \ rows) \cup (deposits' \ added) :
                               x.req \notin known'[q]
  BY DEF ListingsExplained
<1> DEFINE Same == UNCHANGED <<rcode[q], listing[q], known[q], query[q]>>
           Grown == /\ ledger \subseteq ledger' /\ deposits \subseteq deposits'
                    /\ \A x \in (ledger' \ ledger) \cup (deposits' \ deposits) :
                           x.req \notin Committed
<1>1. CASE \E r \in Requests : Move(r)
  <2>1. Same /\ Grown
    BY <1>1, MoveEffect DEF Move, readers
  <2> QED
    BY <2>1, ListedBefore
<1>2. ASSUME NEW p \in Readers,
             \/ Ask(p) \/ CheckOwner(p) \/ SelectRows(p) \/ SelectCutShort(p)
             \/ SelectAll(p) \/ QueryFails(p)
      PROVE  Grown /\ (Same \/ (p = q /\ SelectAll(q)))
  <2>1. UNCHANGED <<ledger, deposits, query>>
    BY <1>2 DEF Ask, CheckOwner, SelectRows, SelectCutShort, SelectAll, QueryFails, ROnly,
                vars, tables
  <2>2. CASE p # q
    BY <1>2, <2>1, <2>2 DEF Ask, CheckOwner, SelectRows, SelectCutShort, SelectAll, QueryFails,
                RAnswer, QInv, QTypeOK
  <2>3. CASE p = q
    <3>1. ~Ask(q)
      BY DEF Ask, QInv, ReaderInv
    <3>2. ~(CheckOwner(q) \/ SelectRows(q) \/ SelectCutShort(q))
      BY <2>1 DEF CheckOwner, SelectRows, SelectCutShort, QInv, ReaderInv
    <3>3. ~QueryFails(q)
      BY DEF QueryFails, RAnswer, QInv, QTypeOK
    <3> QED
      BY <1>2, <2>1, <2>3, <3>1, <3>2, <3>3
  <2> QED
    BY <2>2, <2>3
<1>3. CASE QCrash \/ QIdle \/ UNCHANGED allVars
  <2>1. Same /\ Grown
    BY <1>3 DEF QCrash, Crash, QIdle, Idle, allVars, vars, tables, readers
  <2> QED
    BY <2>1, ListedBefore
<1>4. CASE \E p \in Readers :
               \/ Ask(p) \/ CheckOwner(p) \/ SelectRows(p) \/ SelectCutShort(p)
               \/ SelectAll(p) \/ QueryFails(p)
  BY <1>2, <1>4, ListedBefore, SnapshotExplained
<1> QED
  BY <1>1, <1>3, <1>4 DEF QNext

(* With whole-cent amounts the admin's list of all accounts shows whole    *)
(* transfers and deposits only, and all of those the admin could know of   *)
(* (account_repository.go:99, one SELECT beside the transfers).            *)
THEOREM ListingsAreWhole ==
    ASSUME \A m \in Menu : IsWholeCents(m.amount)
    PROVE  QSpec => []ListingsExplained
<1>1. QInit => ListingsExplained
  BY DEF QInit, ListingsExplained
<1>2. IInv /\ QInv /\ BooksBalance /\ ListingsExplained /\ [QNext]_allVars => ListingsExplained'
  BY ListingsStep
<1>3. QSpec => []BooksBalance
  BY ImplementsTransfers, BooksAlwaysBalance
<1> QED
  BY <1>1, <1>2, <1>3, QInvariance, TransfersInv, PTL DEF QSpec
=============================================================================
