-------------------------- MODULE TransfersProofs --------------------------
(***************************************************************************)
(* Proofs about Transfers, for any number of requests, accounts and users, *)
(* any opening balances and any menu of requests.                          *)
(*                                                                         *)
(* IInv is inductive: most ways a request can end are one step, Answer,    *)
(* and one lemma; every other action has its own.  The safety properties   *)
(* are conjuncts of IInv.  With whole-cent amounts each step is a step of  *)
(* the abstract Ledger or a stutter.                                       *)
(***************************************************************************)
EXTENDS Transfers, FiniteSetTheorems, WellFoundedInduction, TLAPS

Codes == {200, 201, 400, 403, 404, 500}

-----------------------------------------------------------------------------
(* Rounding                                                                *)

(* A stored balance is a whole number of cents, and rounding does nothing  *)
(* to one.                                                                 *)
LEMMA ToCentsWhole ==
    ASSUME NEW x \in Nat
    PROVE  /\ ToCents(x) \in Nat
           /\ IsWholeCents(ToCents(x))
           /\ IsWholeCents(x) => ToCents(x) = x
BY DEF ToCents, IsWholeCents, Cent

(* The same of a float64 sum or difference, whichever way it is rounded.   *)
LEMMA StoredFloatWhole ==
    ASSUME NEW x \in Nat, NEW s \in StoredFloat(x)
    PROVE  /\ s \in Nat
           /\ IsWholeCents(s)
           /\ IsWholeCents(x) => s = x
BY ToCentsWhole DEF StoredFloat, IsHalfCent, IsWholeCents, Cent

(* The sender's new balance is not above its old one.                      *)
LEMMA DebitLowers ==
    ASSUME NEW b \in Nat, IsWholeCents(b),
           NEW y \in Nat \ {0}, y =< b,
           NEW s \in StoredFloat(b - y)
    PROVE  s =< b
BY DEF StoredFloat, IsHalfCent, IsWholeCents, ToCents, Cent

(* A deposit adds the rounded amount, exactly.                             *)
LEMMA DepositExact ==
    ASSUME NEW b \in Nat, IsWholeCents(b), NEW y \in Nat
    PROVE  ToCents(b + y) = b + ToCents(y)
BY DEF IsWholeCents, ToCents, Cent

(* The fields a request has.                                               *)
LEMMA ReqType ==
    ASSUME TypeOK, NEW r \in Requests
    PROVE  /\ req[r] \in Menu
           /\ req[r].amount \in Int
           /\ req[r].kind \in {"transfer", "deposit"}
           /\ req[r].kind = "transfer" =>
                  req[r].from \in AccountIds /\ req[r].to \in AccountIds
BY MenuAssumption DEF TypeOK, TransferReq, DepositReq
-----------------------------------------------------------------------------
(* The end of a request                                                    *)

(* What EndTx leaves of the locks.                                         *)
LEMMA EndTxLocks ==
    ASSUME IInv, NEW r \in Requests,
           lock' = [a \in Accounts |-> IF lock[a] = r THEN NoRequest ELSE lock[a]],
           tx'[r] # "open",
           \A q \in Requests \ {r} : tx'[q] = tx[q] /\ pc'[q] = pc[q],
           req' = req
    PROVE  LocksFollowTransactions'
<1> SUFFICES ASSUME NEW a \in Accounts, NEW q \in Requests
             PROVE  lock'[a] = q <=> a \in Held(q)'
    BY DEF LocksFollowTransactions
<1>1. lock[a] = q <=> a \in Held(q)
    BY DEF IInv, LocksFollowTransactions
<1>2. CASE q = r
    BY <1>2, RequestsAssumption DEF Held
<1>3. CASE q # r
    <2>1. Held(q)' = Held(q)
        BY <1>3 DEF Held
    <2>2. lock'[a] = q <=> lock[a] = q
        BY <1>3, RequestsAssumption
    <2> QED  BY <1>1, <2>1, <2>2
<1> QED  BY <1>2, <1>3

(* Whatever an answer is, sending it ends the request and keeps the        *)
(* invariant, as long as the status tells the truth.                       *)
LEMMA AnswerInv ==
    ASSUME IInv, NEW r \in Requests, NEW status \in Codes,
           Answer(r, status),
           status = 201 => RowsOf(r) = {RowOf(r)} /\ IsOwner(r),
           status = 200 => DepositsOf(r) # {},
           status \in {400, 403, 404} => RowsOf(r) \cup DepositsOf(r) = {}
    PROVE  IInv'
<1> USE DEF Answer, EndTx, tables
<1>1. TypeOK'
    BY RequestsAssumption DEF IInv, TypeOK, NoBalances, Codes
<1>2. /\ pc'[r] = "done" /\ code'[r] = status /\ tx'[r] = "none"
      /\ \A q \in Requests \ {r} :
             /\ pc'[q] = pc[q] /\ code'[q] = code[q] /\ tx'[q] = tx[q]
             /\ read'[q] = read[q] /\ dirty'[q] = dirty[q]
    BY DEF IInv, TypeOK
<1>3. ControlInv'
    BY <1>2 DEF IInv, ControlInv, Asked, ChecksPass, IsOwner, Both, InTx
<1>4. LocksFollowTransactions'
    BY <1>2, EndTxLocks
<1>5. ReadsAreCurrent'
    BY <1>2 DEF IInv, ReadsAreCurrent, Both
<1>6. DirtyInv'
    BY <1>2 DEF IInv, DirtyInv
<1>7. NoOverdraft' /\ WholeCents'
    BY DEF IInv, NoOverdraft, WholeCents
<1>8. HistoryInv'
    BY <1>2 DEF IInv, HistoryInv, RowsOf, DepositsOf, RowOf, IsOwner
<1>9. CodeTellsOutcome'
    BY <1>2 DEF IInv, CodeTellsOutcome, RowsOf, DepositsOf, RowOf, IsOwner, Codes
<1> QED  BY <1>1, <1>3, <1>4, <1>5, <1>6, <1>7, <1>8, <1>9 DEF IInv

(* An error before the commit: nothing of the request is in the database.  *)
LEMMA ErrorInv ==
    ASSUME IInv, NEW r \in Requests, NEW status \in Codes \ {200, 201},
           pc[r] \notin {"reply", "done"}, Answer(r, status)
    PROVE  IInv'
<1>1. RowsOf(r) \cup DepositsOf(r) = {}
    BY DEF IInv, HistoryInv
<1> QED  BY <1>1, AnswerInv DEF Codes

LEMMA StatementFailsInv ==
    ASSUME IInv, NEW r \in Requests, StatementFails(r)
    PROVE  IInv'
<1>1. pc[r] \notin {"reply", "done"} /\ Answer(r, 500)
    BY DEF StatementFails, InTx
<1> QED  BY <1>1, ErrorInv DEF Codes

(* Every action that is an answer.                                         *)
LEMMA AnswersInv ==
    ASSUME IInv, NEW r \in Requests,
           \/ Invalid(r) \/ SameAccount(r) \/ AccountNotFound(r)
           \/ Refused(r) \/ CreditOverflows(r) \/ RecordRefused(r)
           \/ DepositFails(r) \/ Reply(r) \/ TxDone(r) \/ DeadlockVictim(r)
           \/ StatementFails(r) \/ AnswerLost(r)
    PROVE  IInv'
<1>1. CASE \/ Invalid(r) \/ SameAccount(r) \/ AccountNotFound(r)
           \/ Refused(r) \/ CreditOverflows(r) \/ RecordRefused(r)
           \/ DepositFails(r)
    <2>1. pc[r] \notin {"reply", "done"}
        BY <1>1 DEF Invalid, SameAccount, AccountNotFound, Refused,
                    CreditOverflows, RecordRefused, DepositFails
    <2>2. \E status \in {400, 403, 404, 500} : Answer(r, status)
        BY <1>1 DEF Invalid, SameAccount, AccountNotFound, Refused,
                    CreditOverflows, RecordRefused, DepositFails
    <2> QED  BY <2>1, <2>2, ErrorInv DEF Codes
<1>2. CASE Reply(r)
    <2>1. pc[r] = "reply" BY <1>2 DEF Reply
    <2>2. req[r].kind \in {"transfer", "deposit"}
        BY ReqType DEF IInv
    <2>3. CASE req[r].kind = "transfer"
        <3>1. Answer(r, 201) BY <1>2, <2>3 DEF Reply
        <3>2. RowsOf(r) = {RowOf(r)} /\ IsOwner(r)
            BY <2>1, <2>3 DEF IInv, HistoryInv
        <3> QED  BY <3>1, <3>2, AnswerInv DEF Codes
    <2>4. CASE req[r].kind = "deposit"
        <3>1. Answer(r, 200) BY <1>2, <2>4 DEF Reply
        <3>2. DepositsOf(r) # {}
            BY <2>1, <2>4 DEF IInv, HistoryInv
        <3> QED  BY <3>1, <3>2, AnswerInv DEF Codes
    <2> QED  BY <2>2, <2>3, <2>4
<1>3. CASE TxDone(r) \/ DeadlockVictim(r) \/ StatementFails(r)
    BY <1>3, StatementFailsInv DEF TxDone, DeadlockVictim
<1>4. CASE AnswerLost(r)
    BY <1>4, AnswerInv DEF AnswerLost, Codes
<1> QED  BY <1>1, <1>2, <1>3, <1>4
-----------------------------------------------------------------------------
(* The actions that go on                                                  *)

(* The others are where they were, with what they had.                     *)
Others(r) ==
    \A q \in Requests \ {r} :
        /\ pc'[q] = pc[q] /\ code'[q] = code[q] /\ tx'[q] = tx[q]
        /\ read'[q] = read[q] /\ dirty'[q] = dirty[q]

(* A step of r that writes no table, answers nothing and takes no lock.    *)
LEMMA QuietStepInv ==
    ASSUME IInv, NEW r \in Requests, TypeOK', Others(r),
           UNCHANGED <<req, code, lock, tables>>,
           pc[r] \notin {"reply", "done"}, pc'[r] \notin {"reply", "done"},
           Held(r)' = Held(r),
           ControlInv', ReadsAreCurrent', DirtyInv'
    PROVE  IInv'
<1>1. LocksFollowTransactions'
    <2>1. \A q \in Requests : Held(q)' = Held(q)
        BY DEF Others, Held
    <2> QED  BY <2>1 DEF IInv, LocksFollowTransactions
<1>2. NoOverdraft' /\ WholeCents'
    BY DEF IInv, NoOverdraft, WholeCents, tables
<1>3. HistoryInv'
    BY DEF IInv, HistoryInv, Others, RowsOf, DepositsOf, RowOf, IsOwner, tables
<1>4. CodeTellsOutcome'
    BY DEF IInv, CodeTellsOutcome, RowsOf, DepositsOf, RowOf, IsOwner, tables
<1> QED  BY <1>1, <1>2, <1>3, <1>4 DEF IInv

LEMMA AcceptInv ==
    ASSUME IInv, NEW r \in Requests, Accept(r)
    PROVE  IInv'
<1> USE DEF Accept, Goto
<1>0. tx[r] = "none" /\ req[r].amount \in Int /\ req[r].kind \in {"transfer", "deposit"}
    BY ReqType DEF IInv, ControlInv, InTx, TypeOK
<1>1. TypeOK'
    BY DEF IInv, TypeOK, tables
<1>2. Others(r) /\ pc'[r] \in {"begin", "deposit"}
    BY DEF IInv, TypeOK, Others
<1>3. Held(r)' = Held(r)
    BY <1>0 DEF Held
<1>4. ControlInv'
    BY <1>0, <1>2 DEF IInv, TypeOK, ControlInv, Asked, ChecksPass, IsOwner, Both, InTx, Others
<1>5. ReadsAreCurrent' /\ DirtyInv'
    BY <1>0, <1>2 DEF IInv, ReadsAreCurrent, DirtyInv, Others, tables
<1> QED  BY <1>1, <1>2, <1>3, <1>4, <1>5, QuietStepInv

LEMMA BeginTxInv ==
    ASSUME IInv, NEW r \in Requests, BeginTx(r)
    PROVE  IInv'
<1> USE DEF BeginTx, Goto
<1>1. TypeOK'
    BY DEF IInv, TypeOK, InTx, tables
<1>2. Others(r) /\ pc'[r] = "lockFrom" /\ tx'[r] = "open"
    BY DEF IInv, TypeOK, Others
<1>3. Held(r)' = Held(r)
    BY <1>2 DEF Held, Both
<1>4. ControlInv'
    BY <1>2 DEF IInv, ControlInv, Asked, ChecksPass, IsOwner, Both, InTx, Others
<1>5. ReadsAreCurrent' /\ DirtyInv'
    BY <1>2 DEF IInv, ReadsAreCurrent, DirtyInv, Others, Both, tables
<1> QED  BY <1>1, <1>2, <1>3, <1>4, <1>5, QuietStepInv

LEMMA DebitInv ==
    ASSUME IInv, NEW r \in Requests, Debit(r)
    PROVE  IInv'
<1>1. PICK stored \in StoredFloat(read[r].from - req[r].amount) :
          dirty' = [dirty EXCEPT ![r].from = stored]
    BY DEF Debit
<1>2. /\ pc[r] = "check" /\ tx[r] = "open" /\ ChecksPass(r)
      /\ pc' = [pc EXCEPT ![r] = "credit"]
      /\ UNCHANGED <<req, code, tx, read, lock, tables>>
    BY DEF Debit, Goto
<1>3. read[r].from \in Int /\ req[r].amount \in Int
    BY ReqType DEF IInv, TypeOK
<1>4. stored \in Int
    BY <1>1, <1>3 DEF StoredFloat, ToCents, Cent, IsHalfCent
<1>5. TypeOK'
    BY <1>1, <1>2, <1>4 DEF IInv, TypeOK, InTx, tables
<1>6. Others(r) /\ pc'[r] = "credit" /\ dirty'[r].from = stored
    BY <1>1, <1>2 DEF IInv, TypeOK, Others
<1>7. Held(r)' = Held(r)
    BY <1>2, <1>6 DEF Held, Both
<1>8. ControlInv'
    BY <1>2, <1>6 DEF IInv, ControlInv, Asked, ChecksPass, IsOwner, Both, InTx, Others
<1>9. ReadsAreCurrent' /\ DirtyInv'
    BY <1>1, <1>2, <1>6 DEF IInv, ReadsAreCurrent, DirtyInv, Others, Both, tables
<1> QED  BY <1>2, <1>5, <1>6, <1>7, <1>8, <1>9, QuietStepInv

LEMMA CreditInv ==
    ASSUME IInv, NEW r \in Requests, Credit(r)
    PROVE  IInv'
<1>1. PICK stored \in StoredFloat(read[r].to + req[r].amount) :
          /\ stored =< MaxBalance
          /\ dirty' = [dirty EXCEPT ![r].to = stored]
    BY DEF Credit
<1>2. /\ pc[r] = "credit" /\ tx[r] = "open"
      /\ pc' = [pc EXCEPT ![r] = "record"]
      /\ UNCHANGED <<req, code, tx, read, lock, tables>>
    BY DEF Credit, Goto
<1>3. read[r].to \in Int /\ req[r].amount \in Int
    BY ReqType DEF IInv, TypeOK
<1>4. stored \in Int
    BY <1>1, <1>3 DEF StoredFloat, ToCents, Cent, IsHalfCent
<1>5. TypeOK'
    BY <1>1, <1>2, <1>4 DEF IInv, TypeOK, InTx, tables
<1>6. /\ Others(r) /\ pc'[r] = "record"
      /\ dirty'[r].to = stored /\ dirty'[r].from = dirty[r].from
    BY <1>1, <1>2 DEF IInv, TypeOK, Others
<1>7. Held(r)' = Held(r)
    BY <1>2, <1>6 DEF Held, Both
<1>8. ControlInv'
    BY <1>2, <1>6 DEF IInv, ControlInv, Asked, ChecksPass, IsOwner, Both, InTx, Others
<1>9. ReadsAreCurrent' /\ DirtyInv'
    BY <1>1, <1>2, <1>6 DEF IInv, ReadsAreCurrent, DirtyInv, Others, Both, tables
<1> QED  BY <1>2, <1>5, <1>6, <1>7, <1>8, <1>9, QuietStepInv

LEMMA RecordInv ==
    ASSUME IInv, NEW r \in Requests, Record(r)
    PROVE  IInv'
<1> USE DEF Record, Goto
<1>1. TypeOK'
    BY DEF IInv, TypeOK, InTx, tables
<1>2. Others(r) /\ pc'[r] = "commit"
    BY DEF IInv, TypeOK, Others
<1>3. Held(r)' = Held(r)
    BY <1>2 DEF Held, Both
<1>4. ControlInv'
    BY <1>2 DEF IInv, ControlInv, Asked, ChecksPass, IsOwner, Both, InTx, Others
<1>5. ReadsAreCurrent' /\ DirtyInv'
    BY <1>2 DEF IInv, ReadsAreCurrent, DirtyInv, Others, Both, tables
<1> QED  BY <1>1, <1>2, <1>3, <1>4, <1>5, QuietStepInv
-----------------------------------------------------------------------------
(* Locks                                                                   *)

(* A step of r that locks the free row a, and changes no table.            *)
LEMMA LockStepInv ==
    ASSUME IInv, NEW r \in Requests, NEW a \in Accounts, TypeOK', Others(r),
           UNCHANGED <<req, code, tables>>,
           pc[r] \notin {"reply", "done"}, pc'[r] \notin {"reply", "done"},
           lock[a] = NoRequest,
           lock' = [lock EXCEPT ![a] = r],
           Held(r)' = Held(r) \cup {a},
           ControlInv', ReadsAreCurrent', DirtyInv'
    PROVE  IInv'
<1>1. LocksFollowTransactions'
    <2> SUFFICES ASSUME NEW b \in Accounts, NEW q \in Requests
                 PROVE  lock'[b] = q <=> b \in Held(q)'
        BY DEF LocksFollowTransactions
    <2>1. lock[b] = q <=> b \in Held(q)
        BY DEF IInv, LocksFollowTransactions
    <2>2. lock'[b] = IF b = a THEN r ELSE lock[b]
        BY DEF IInv, TypeOK
    <2>3. CASE q = r
        BY <2>1, <2>2, <2>3
    <2>4. CASE q # r
        <3>1. Held(q)' = Held(q)
            BY <2>4 DEF Others, Held
        <3> QED  BY <2>1, <2>2, <2>4, <3>1, RequestsAssumption
    <2> QED  BY <2>3, <2>4
<1>2. NoOverdraft' /\ WholeCents'
    BY DEF IInv, NoOverdraft, WholeCents, tables
<1>3. HistoryInv'
    BY DEF IInv, HistoryInv, Others, RowsOf, DepositsOf, RowOf, IsOwner, tables
<1>4. CodeTellsOutcome'
    BY DEF IInv, CodeTellsOutcome, RowsOf, DepositsOf, RowOf, IsOwner, tables
<1> QED  BY <1>1, <1>2, <1>3, <1>4 DEF IInv

LEMMA LockFromInv ==
    ASSUME IInv, NEW r \in Requests, LockFrom(r)
    PROVE  IInv'
<1> DEFINE from == req[r].from
<1> USE DEF LockFrom, Goto
<1>1. TypeOK'
    BY DEF IInv, TypeOK, InTx, tables
<1>2. /\ Others(r) /\ pc'[r] = "lockTo" /\ tx'[r] = "open"
      /\ read'[r].from = balance[from]
    BY DEF IInv, TypeOK, Others
<1>3. Held(r)' = Held(r) \cup {from}
    BY <1>2 DEF Held, Both
<1>4. ControlInv'
    BY <1>2 DEF IInv, ControlInv, Asked, ChecksPass, IsOwner, Both, InTx, Others
<1>5. ReadsAreCurrent' /\ DirtyInv'
    BY <1>2 DEF IInv, ReadsAreCurrent, DirtyInv, Others, Both, tables
<1> QED  BY <1>1, <1>2, <1>3, <1>4, <1>5, LockStepInv

LEMMA LockToInv ==
    ASSUME IInv, NEW r \in Requests, LockTo(r)
    PROVE  IInv'
<1> DEFINE to == req[r].to
<1> USE DEF LockTo, Goto
<1>1. TypeOK'
    BY DEF IInv, TypeOK, InTx, tables
<1>2. /\ Others(r) /\ pc'[r] = "check" /\ tx'[r] = "open"
      /\ read'[r].from = read[r].from /\ read'[r].to = balance[to]
    BY DEF IInv, TypeOK, Others
<1>3. Held(r)' = Held(r) \cup {to}
    BY <1>2 DEF Held, Both
<1>4. ControlInv'
    BY <1>2 DEF IInv, ControlInv, Asked, ChecksPass, IsOwner, Both, InTx, Others
<1>5. ReadsAreCurrent' /\ DirtyInv'
    BY <1>2 DEF IInv, ReadsAreCurrent, DirtyInv, Others, Both, tables
<1> QED  BY <1>1, <1>2, <1>3, <1>4, <1>5, LockStepInv

(* The rollback a cancelled context causes frees the locks at once.        *)
LEMMA ContextCancelledInv ==
    ASSUME IInv, NEW r \in Requests, ContextCancelled(r)
    PROVE  IInv'
<1> USE DEF ContextCancelled
<1>1. TypeOK'
    BY RequestsAssumption DEF IInv, TypeOK, NoBalances, tables
<1>2. /\ pc' = pc /\ code' = code /\ read' = read /\ tx'[r] = "rolledBack"
      /\ \A q \in Requests \ {r} : tx'[q] = tx[q] /\ dirty'[q] = dirty[q]
    BY DEF IInv, TypeOK
<1>3. LocksFollowTransactions'
    BY <1>2, EndTxLocks
<1>4. ControlInv'
    BY <1>2 DEF IInv, ControlInv, Asked, ChecksPass, IsOwner
<1>5. ReadsAreCurrent' /\ DirtyInv'
    BY <1>2 DEF IInv, ReadsAreCurrent, DirtyInv, tables
<1>6. NoOverdraft' /\ WholeCents' /\ HistoryInv' /\ CodeTellsOutcome'
    BY <1>2 DEF IInv, NoOverdraft, WholeCents, HistoryInv, CodeTellsOutcome,
                RowsOf, DepositsOf, RowOf, IsOwner, tables
<1> QED  BY <1>1, <1>3, <1>4, <1>5, <1>6 DEF IInv

(* A crash keeps what was committed and nothing else.                      *)
LEMMA CrashInv ==
    ASSUME IInv, Crash
    PROVE  IInv'
<1> USE DEF Crash, Active
<1>1. TypeOK'
    BY DEF IInv, TypeOK, NoBalances, tables
<1>2. \A q \in Requests : tx'[q] = "none" /\ pc'[q] \in {"idle", "done"}
                          /\ (pc'[q] = "idle" => pc[q] = "idle")
    BY DEF IInv, TypeOK
<1>3. LocksFollowTransactions'
    BY <1>2, RequestsAssumption DEF LocksFollowTransactions, Held
<1>4. ControlInv'
    BY <1>2 DEF ControlInv, InTx, Both
<1>5. ReadsAreCurrent' /\ DirtyInv'
    BY <1>2 DEF ReadsAreCurrent, DirtyInv
<1>6. NoOverdraft' /\ WholeCents' /\ HistoryInv' /\ CodeTellsOutcome'
    BY <1>2 DEF IInv, NoOverdraft, WholeCents, HistoryInv, CodeTellsOutcome,
                RowsOf, DepositsOf, RowOf, IsOwner, tables
<1> QED  BY <1>1, <1>3, <1>4, <1>5, <1>6 DEF IInv
-----------------------------------------------------------------------------
(* Writing the tables                                                      *)

(* What a transaction about to commit holds, and what it is about to write.*)
LEMMA CommitFacts ==
    ASSUME IInv, NEW r \in Requests, pc[r] = "commit", tx[r] = "open"
    PROVE  /\ req[r].kind = "transfer" /\ req[r].amount \in Nat \ {0}
           /\ req[r].from \in Accounts /\ req[r].to \in Accounts
           /\ req[r].from # req[r].to
           /\ lock[req[r].from] = r /\ lock[req[r].to] = r
           /\ IsOwner(r) /\ Currency[req[r].from] = Currency[req[r].to]
           /\ ToCents(req[r].amount) \in Nat \ {0}
           /\ req[r].amount =< balance[req[r].from]
           /\ dirty[r].from \in StoredFloat(balance[req[r].from] - req[r].amount)
           /\ dirty[r].to \in StoredFloat(balance[req[r].to] + req[r].amount)
           /\ dirty[r].from \in 0..MaxBalance /\ dirty[r].to \in 0..MaxBalance
           /\ IsWholeCents(dirty[r].from) /\ IsWholeCents(dirty[r].to)
<1> DEFINE from == req[r].from
           to == req[r].to
           amount == req[r].amount
<1>1. /\ req[r].kind = "transfer" /\ amount \in Nat \ {0} /\ from # to
      /\ from \in Accounts /\ to \in Accounts
      /\ ChecksPass(r) /\ ToCents(amount) > 0
    BY ReqType DEF IInv, ControlInv, Asked, InTx, Both
<1>2. from \in Held(r) /\ to \in Held(r)
    BY <1>1 DEF Held, Both
<1>3. lock[from] = r /\ lock[to] = r
    BY <1>1, <1>2 DEF IInv, LocksFollowTransactions
<1>4. read[r].from = balance[from] /\ read[r].to = balance[to]
    BY DEF IInv, ReadsAreCurrent, Both
<1>5. /\ balance[from] \in 0..MaxBalance /\ IsWholeCents(balance[from])
      /\ balance[to] \in 0..MaxBalance /\ MaxBalance \in Nat
    BY <1>1, MaxBalanceAssumption DEF IInv, NoOverdraft, WholeCents
<1>6. IsOwner(r) /\ Currency[from] = Currency[to] /\ amount =< balance[from]
    BY <1>1, <1>4, <1>5 DEF ChecksPass
<1>7. /\ dirty[r].from \in StoredFloat(balance[from] - amount)
      /\ dirty[r].to \in StoredFloat(balance[to] + amount)
      /\ dirty[r].to =< MaxBalance
    BY <1>4 DEF IInv, DirtyInv
<1>8. balance[from] - amount \in Nat /\ balance[to] + amount \in Nat
    BY <1>1, <1>5, <1>6
<1>9. dirty[r].from \in Nat /\ IsWholeCents(dirty[r].from)
      /\ dirty[r].to \in Nat /\ IsWholeCents(dirty[r].to)
    BY <1>7, <1>8, StoredFloatWhole
<1>10. dirty[r].from =< balance[from]
    <2>1. balance[from] \in Nat
        BY <1>5
    <2> QED  BY <1>1, <1>5, <1>6, <1>7, <2>1, DebitLowers
<1>11. ToCents(amount) \in Nat
    BY <1>1, ToCentsWhole
<1> QED  BY <1>1, <1>3, <1>5, <1>6, <1>7, <1>9, <1>10, <1>11

LEMMA CommitInv ==
    ASSUME IInv, NEW r \in Requests, Commit(r)
    PROVE  IInv'
<1> DEFINE from == req[r].from
           to == req[r].to
<1>1. pc[r] = "commit" /\ tx[r] = "open"
    BY DEF Commit
<1>2. /\ req[r].kind = "transfer"
      /\ from \in Accounts /\ to \in Accounts /\ from # to
      /\ lock[from] = r /\ lock[to] = r /\ IsOwner(r)
      /\ ToCents(req[r].amount) \in Nat \ {0}
      /\ dirty[r].from \in 0..MaxBalance /\ dirty[r].to \in 0..MaxBalance
      /\ IsWholeCents(dirty[r].from) /\ IsWholeCents(dirty[r].to)
    BY <1>1, CommitFacts
<1> USE DEF Commit, EndTx, Goto
<1>3. RowOf(r) \in [req : Requests, from : Accounts, to : Accounts, amount : Nat \ {0}]
    BY <1>2 DEF RowOf
<1>4. TypeOK'
    BY <1>2, <1>3, RequestsAssumption DEF IInv, TypeOK, NoBalances, InTx
<1>5. /\ Others(r) /\ pc'[r] = "reply" /\ tx'[r] = "none" /\ code' = code
      /\ balance'[from] = dirty[r].from /\ balance'[to] = dirty[r].to
      /\ \A a \in Accounts \ {from, to} : balance'[a] = balance[a]
    BY <1>2 DEF IInv, TypeOK, Others
<1>6. LocksFollowTransactions'
    BY <1>5, EndTxLocks DEF Others
<1>7. ControlInv'
    BY <1>5 DEF IInv, ControlInv, Asked, ChecksPass, IsOwner, Both, InTx, Others
<1>8. ReadsAreCurrent'
    <2> SUFFICES ASSUME NEW q \in Requests, tx'[q] = "open"
                 PROVE  /\ pc'[q] \in Both \cup {"lockTo"} =>
                               read'[q].from = balance'[req'[q].from]
                        /\ pc'[q] \in Both => read'[q].to = balance'[req'[q].to]
        BY DEF ReadsAreCurrent
    <2>1. /\ q # r /\ pc'[q] = pc[q] /\ tx[q] = "open" /\ read'[q] = read[q]
          /\ req'[q] = req[q]
        BY <1>5 DEF Others
    <2>2. \A a \in Held(q) : a \in Accounts /\ lock[a] = q
        BY DEF IInv, LocksFollowTransactions, Held
    <2>3. \A a \in Held(q) : balance'[a] = balance[a]
        BY <1>2, <1>5, <2>1, <2>2
    <2>4. /\ pc[q] \in Both \cup {"lockTo"} => req[q].from \in Held(q)
          /\ pc[q] \in Both => req[q].to \in Held(q)
        BY <2>1 DEF IInv, ControlInv, Held
    <2> QED  BY <2>1, <2>3, <2>4 DEF IInv, ReadsAreCurrent
<1>9. DirtyInv'
    BY <1>5 DEF IInv, DirtyInv, Others
<1>10. NoOverdraft' /\ WholeCents'
    BY <1>2, <1>5 DEF IInv, NoOverdraft, WholeCents
<1>11. /\ \A q \in Requests \ {r} : RowsOf(q)' = RowsOf(q)
       /\ RowsOf(r)' = {RowOf(r)}
       /\ \A q \in Requests : DepositsOf(q)' = DepositsOf(q)
    BY <1>1 DEF IInv, HistoryInv, RowsOf, DepositsOf, RowOf
<1>12. \A q \in Requests : RowOf(q)' = RowOf(q) /\ (IsOwner(q)' <=> IsOwner(q))
    BY DEF RowOf, IsOwner
<1>13. HistoryInv'
    BY <1>2, <1>5, <1>11, <1>12 DEF IInv, HistoryInv, Others
<1>14. CodeTellsOutcome'
    <2>1. code[r] = 0
        BY <1>1 DEF IInv, HistoryInv
    <2> QED  BY <1>5, <1>11, <1>12, <2>1 DEF IInv, CodeTellsOutcome, Others
<1> QED  BY <1>4, <1>6, <1>7, <1>8, <1>9, <1>10, <1>13, <1>14 DEF IInv

(* A deposit waits for the lock, so no transfer has read the row it adds to.*)
LEMMA DepositInv ==
    ASSUME IInv, NEW r \in Requests, Deposit(r)
    PROVE  IInv'
<1> DEFINE to == req[r].to
           amount == req[r].amount
           row == [req |-> r, to |-> to, amount |-> ToCents(amount)]
<1>1. /\ pc[r] = "deposit" /\ to \in Accounts /\ lock[to] = NoRequest
      /\ req[r].kind = "deposit" /\ amount \in Nat \ {0} /\ code[r] = 0
    BY ReqType DEF Deposit, IInv, ControlInv, HistoryInv
<1>2. balance[to] \in Nat /\ IsWholeCents(balance[to])
    BY <1>1, MaxBalanceAssumption DEF IInv, NoOverdraft, WholeCents
<1>3. ToCents(balance[to] + amount) = balance[to] + ToCents(amount)
      /\ ToCents(amount) \in Nat /\ IsWholeCents(ToCents(balance[to] + amount))
    BY <1>1, <1>2, DepositExact, ToCentsWhole
<1>4. /\ balance[to] + ToCents(amount) =< MaxBalance
      /\ balance' = [balance EXCEPT ![to] = balance[to] + ToCents(amount)]
      /\ deposits' = deposits \cup {row}
      /\ pc' = [pc EXCEPT ![r] = "reply"]
      /\ UNCHANGED <<req, code, tx, read, dirty, lock, ledger>>
    <2>1. ToCents(balance[to] + amount) - balance[to] = ToCents(amount)
        BY <1>2, <1>3
    <2>2. /\ ToCents(balance[to] + amount) =< MaxBalance
          /\ balance' = [balance EXCEPT ![to] = ToCents(balance[to] + amount)]
          /\ deposits' = deposits \cup
                 {[req |-> r, to |-> to,
                   amount |-> ToCents(balance[to] + amount) - balance[to]]}
          /\ pc' = [pc EXCEPT ![r] = "reply"]
          /\ UNCHANGED <<req, code, tx, read, dirty, lock, ledger>>
        BY DEF Deposit, Fits, Goto
    <2> QED  BY <1>3, <2>1, <2>2
<1>5. TypeOK'
    BY <1>1, <1>2, <1>3, <1>4 DEF IInv, TypeOK
<1>6. /\ Others(r) /\ pc'[r] = "reply"
      /\ balance'[to] = balance[to] + ToCents(amount)
      /\ \A a \in Accounts \ {to} : balance'[a] = balance[a]
    BY <1>1, <1>4 DEF IInv, TypeOK, Others
<1>7. \A q \in Requests : Held(q)' = Held(q)
    BY <1>1, <1>4, <1>6 DEF Held, Others, Both
<1>8. LocksFollowTransactions'
    BY <1>4, <1>7 DEF IInv, LocksFollowTransactions
<1>9. ControlInv'
    BY <1>1, <1>4, <1>6 DEF IInv, ControlInv, Asked, ChecksPass, IsOwner, Both, InTx, Others
<1>10. ReadsAreCurrent'
    <2> SUFFICES ASSUME NEW q \in Requests, tx'[q] = "open"
                 PROVE  /\ pc'[q] \in Both \cup {"lockTo"} =>
                               read'[q].from = balance'[req'[q].from]
                        /\ pc'[q] \in Both => read'[q].to = balance'[req'[q].to]
        BY DEF ReadsAreCurrent
    <2>1. tx[r] = "none"
        BY <1>1 DEF IInv, ControlInv, TypeOK, InTx
    <2>2. /\ q # r /\ pc'[q] = pc[q] /\ tx[q] = "open" /\ read'[q] = read[q]
          /\ req'[q] = req[q]
        BY <1>4, <1>6, <2>1 DEF Others
    <2>3. \A a \in Held(q) : balance'[a] = balance[a]
        BY <1>1, <1>6, RequestsAssumption DEF IInv, LocksFollowTransactions, Held
    <2>4. /\ pc[q] \in Both \cup {"lockTo"} => req[q].from \in Held(q)
          /\ pc[q] \in Both => req[q].to \in Held(q)
        BY <2>2 DEF IInv, ControlInv, Held
    <2> QED  BY <2>2, <2>3, <2>4 DEF IInv, ReadsAreCurrent
<1>11. DirtyInv'
    BY <1>1, <1>4, <1>6 DEF IInv, DirtyInv, Others
<1>12. NoOverdraft' /\ WholeCents'
    BY <1>2, <1>3, <1>4, <1>6 DEF IInv, NoOverdraft, WholeCents
<1>13. /\ \A q \in Requests : RowsOf(q)' = RowsOf(q)
       /\ \A q \in Requests \ {r} : DepositsOf(q)' = DepositsOf(q)
       /\ DepositsOf(r)' # {}
    <2>1. row \in deposits' /\ row.req = r
        BY <1>4
    <2> QED  BY <1>4, <2>1 DEF RowsOf, DepositsOf
<1>14. \A q \in Requests : RowOf(q)' = RowOf(q) /\ (IsOwner(q)' <=> IsOwner(q))
    BY <1>4 DEF RowOf, IsOwner
<1>15. HistoryInv'
    BY <1>1, <1>4, <1>6, <1>13, <1>14 DEF IInv, HistoryInv, Others
<1>16. CodeTellsOutcome'
    BY <1>1, <1>4, <1>13, <1>14 DEF IInv, CodeTellsOutcome
<1> QED  BY <1>5, <1>8, <1>9, <1>10, <1>11, <1>12, <1>15, <1>16 DEF IInv
-----------------------------------------------------------------------------
(* The invariant                                                           *)

LEMMA InitInv ==
    ASSUME Init
    PROVE  IInv
<1> USE DEF Init
<1>1. TypeOK
    BY AccountsAssumption DEF TypeOK, NoBalances
<1>2. ControlInv /\ ReadsAreCurrent /\ DirtyInv
    BY DEF ControlInv, ReadsAreCurrent, DirtyInv, InTx, Both
<1>3. LocksFollowTransactions
    BY RequestsAssumption DEF LocksFollowTransactions, Held
<1>4. NoOverdraft /\ WholeCents
    BY AccountsAssumption, MaxBalanceAssumption DEF NoOverdraft, WholeCents
<1>5. HistoryInv /\ CodeTellsOutcome
    BY DEF HistoryInv, CodeTellsOutcome, RowsOf, DepositsOf
<1> QED  BY <1>1, <1>2, <1>3, <1>4, <1>5 DEF IInv

LEMMA StutterInv ==
    ASSUME IInv, UNCHANGED vars
    PROVE  IInv'
<1>1. /\ UNCHANGED <<req, pc, code, tx, read, dirty, lock, balance, ledger, deposits>>
    BY DEF vars, local, tables
<1>2. TypeOK' /\ ControlInv' /\ ReadsAreCurrent' /\ DirtyInv'
    BY <1>1 DEF IInv, TypeOK, ControlInv, ReadsAreCurrent, DirtyInv, Asked,
                ChecksPass, IsOwner
<1>3. LocksFollowTransactions'
    BY <1>1 DEF IInv, LocksFollowTransactions, Held
<1>4. NoOverdraft' /\ WholeCents' /\ HistoryInv' /\ CodeTellsOutcome'
    BY <1>1 DEF IInv, NoOverdraft, WholeCents, HistoryInv, CodeTellsOutcome,
                RowsOf, DepositsOf, RowOf, IsOwner
<1> QED  BY <1>2, <1>3, <1>4 DEF IInv

(* Every action keeps the invariant.                                       *)
LEMMA StepInv ==
    ASSUME IInv, [Next]_vars
    PROVE  IInv'
<1>1. ASSUME NEW r \in Requests, Handle(r) \/ Fault(r)
      PROVE  IInv'
    <2>1. CASE \/ Invalid(r) \/ SameAccount(r) \/ AccountNotFound(r)
               \/ Refused(r) \/ CreditOverflows(r) \/ RecordRefused(r)
               \/ DepositFails(r) \/ Reply(r) \/ TxDone(r) \/ DeadlockVictim(r)
               \/ StatementFails(r) \/ AnswerLost(r)
        BY <2>1, AnswersInv
    <2>2. CASE Accept(r)             BY <2>2, AcceptInv
    <2>3. CASE BeginTx(r)            BY <2>3, BeginTxInv
    <2>4. CASE LockFrom(r)           BY <2>4, LockFromInv
    <2>5. CASE LockTo(r)             BY <2>5, LockToInv
    <2>6. CASE Debit(r)              BY <2>6, DebitInv
    <2>7. CASE Credit(r)             BY <2>7, CreditInv
    <2>8. CASE Record(r)             BY <2>8, RecordInv
    <2>9. CASE Commit(r)             BY <2>9, CommitInv
    <2>10. CASE Deposit(r)           BY <2>10, DepositInv
    <2>11. CASE ContextCancelled(r)  BY <2>11, ContextCancelledInv
    <2> QED  BY <1>1, <2>1, <2>2, <2>3, <2>4, <2>5, <2>6, <2>7, <2>8, <2>9,
                <2>10, <2>11 DEF Handle, Fault
<1>2. CASE Crash
    BY <1>2, CrashInv
<1>3. CASE Idle \/ UNCHANGED vars
    BY <1>3, StutterInv DEF Idle
<1> QED  BY <1>1, <1>2, <1>3 DEF Next

(* The inductive invariant of the money movement code holds in every       *)
(* reachable state, faults and crashes included.                           *)
THEOREM Invariance == Spec => []IInv
<1>1. Init => IInv
    BY InitInv
<1>2. IInv /\ [Next]_vars => IInv'
    BY StepInv
<1> QED  BY <1>1, <1>2, PTL DEF Spec

(* Every variable of the transfer protocol keeps its type, and no row of   *)
(* transactions has an amount of zero.                                     *)
THEOREM TypeCorrect == Spec => []TypeOK
<1>1. IInv => TypeOK
    BY DEF IInv
<1> QED  BY <1>1, Invariance, PTL

(* Row locks belong to the open transactions that read the rows, and only  *)
(* to them: TransferMoney leaks no lock, however it ends.                  *)
THEOREM LocksReleased == Spec => []LocksFollowTransactions
<1>1. IInv => LocksFollowTransactions
    BY DEF IInv
<1> QED  BY <1>1, Invariance, PTL

(* The balances TransferMoney computes with are those in the table until   *)
(* its transaction ends: there is no lost update, with any number of       *)
(* concurrent transfers and deposits.                                      *)
THEOREM NoLostUpdate == Spec => []ReadsAreCurrent
<1>1. IInv => ReadsAreCurrent
    BY DEF IInv
<1> QED  BY <1>1, Invariance, PTL

(* No account is ever overdrawn, nor holds more than its column can.       *)
THEOREM NeverOverdrawn == Spec => []NoOverdraft
<1>1. IInv => NoOverdraft
    BY DEF IInv
<1> QED  BY <1>1, Invariance, PTL

(* The status code of a transfer or deposit tells what was committed.      *)
THEOREM CodesAreTrue == Spec => []CodeTellsOutcome
<1>1. IInv => CodeTellsOutcome
    BY DEF IInv
<1> QED  BY <1>1, Invariance, PTL
-----------------------------------------------------------------------------
(* Refinement                                                              *)

WholeMenu == \A m \in Menu : IsWholeCents(m.amount)

LEMMA MenuAmount ==
    ASSUME TypeOK, NEW r \in Requests
    PROVE  ToCents(req[r].amount) \in {ToCents(m.amount) : m \in Menu}
BY ReqType

LEMMA CommitIsTransfer ==
    ASSUME IInv, WholeMenu, NEW r \in Requests, Commit(r)
    PROVE  L!Next
<1> DEFINE from == req[r].from
           to == req[r].to
           amount == req[r].amount
<1>1. pc[r] = "commit" /\ tx[r] = "open"
    BY DEF Commit
<1>2. /\ amount \in Nat \ {0} /\ from \in Accounts /\ to \in Accounts /\ from # to
      /\ Currency[from] = Currency[to] /\ amount =< balance[from]
      /\ dirty[r].from \in StoredFloat(balance[from] - amount)
      /\ dirty[r].to \in StoredFloat(balance[to] + amount)
      /\ dirty[r].to =< MaxBalance
    BY <1>1, CommitFacts
<1>3. IsWholeCents(amount) /\ ToCents(amount) = amount
    BY <1>2, ReqType, ToCentsWhole DEF IInv, WholeMenu
<1>4. /\ balance[from] \in Nat /\ balance[to] \in Nat
      /\ IsWholeCents(balance[from]) /\ IsWholeCents(balance[to])
    BY <1>2, MaxBalanceAssumption DEF IInv, NoOverdraft, WholeCents
<1>5. IsWholeCents(balance[from] - amount) /\ IsWholeCents(balance[to] + amount)
    BY <1>2, <1>3, <1>4 DEF IsWholeCents, Cent
<1>6. balance[from] - amount \in Nat /\ balance[to] + amount \in Nat
    BY <1>2, <1>4
<1>7. dirty[r].from = balance[from] - amount /\ dirty[r].to = balance[to] + amount
    BY <1>2, <1>5, <1>6, StoredFloatWhole
<1>8. \A row \in ledger : row.req # r
    BY <1>1 DEF IInv, HistoryInv, RowsOf
<1>9. /\ balance' = [balance EXCEPT ![from] = @ - amount, ![to] = @ + amount]
      /\ ledger' = ledger \cup {[req |-> r, from |-> from, to |-> to, amount |-> amount]}
      /\ deposits' = deposits
    <2>1. balance' = [balance EXCEPT ![from] = dirty[r].from, ![to] = dirty[r].to]
        BY DEF Commit
    <2> QED  BY <1>2, <1>3, <1>7, <2>1 DEF Commit, RowOf, IInv, TypeOK
<1>10. L!Transfer(r, from, to, amount)
    BY <1>2, <1>7, <1>8, <1>9 DEF L!Transfer
<1>11. amount \in {ToCents(m.amount) : m \in Menu}
    BY <1>3, MenuAmount DEF IInv
<1> QED  BY <1>2, <1>10, <1>11 DEF L!Next

LEMMA DepositIsDeposit ==
    ASSUME IInv, WholeMenu, NEW r \in Requests, Deposit(r)
    PROVE  L!Next
<1> DEFINE to == req[r].to
           amount == req[r].amount
<1>1. /\ pc[r] = "deposit" /\ to \in Accounts /\ amount \in Nat \ {0}
    BY ReqType DEF Deposit, IInv, ControlInv
<1>2. balance[to] \in Nat /\ IsWholeCents(balance[to])
    BY <1>1, MaxBalanceAssumption DEF IInv, NoOverdraft, WholeCents
<1>3. IsWholeCents(amount) /\ ToCents(amount) = amount
    BY <1>1, ReqType, ToCentsWhole DEF IInv, WholeMenu
<1>4. ToCents(balance[to] + amount) = balance[to] + amount
    BY <1>1, <1>2, <1>3, DepositExact
<1>5. ToCents(balance[to] + amount) - balance[to] = amount
    BY <1>1, <1>2, <1>4
<1>6. /\ balance[to] + amount =< MaxBalance
      /\ balance' = [balance EXCEPT ![to] = @ + amount]
      /\ deposits' = deposits \cup {[req |-> r, to |-> to, amount |-> amount]}
      /\ ledger' = ledger
    <2>1. /\ ToCents(balance[to] + amount) =< MaxBalance
          /\ balance' = [balance EXCEPT ![to] = ToCents(balance[to] + amount)]
          /\ deposits' = deposits \cup
                 {[req |-> r, to |-> to,
                   amount |-> ToCents(balance[to] + amount) - balance[to]]}
          /\ ledger' = ledger
        BY DEF Deposit, Fits
    <2> QED  BY <1>4, <1>5, <2>1
<1>7. \A row \in deposits : row.req # r
    BY <1>1 DEF IInv, HistoryInv, DepositsOf
<1>8. L!Deposit(r, to, amount)
    BY <1>1, <1>6, <1>7 DEF L!Deposit
<1>9. amount \in {ToCents(m.amount) : m \in Menu}
    BY <1>3, MenuAmount DEF IInv
<1> QED  BY <1>1, <1>8, <1>9 DEF L!Next

(* Every other action leaves the tables alone.                             *)
LEMMA OthersStutter ==
    ASSUME NEW r \in Requests, Handle(r) \/ Fault(r), ~Commit(r), ~Deposit(r)
    PROVE  UNCHANGED L!vars
<1>1. CASE \E status \in Codes : Answer(r, status)
    BY <1>1 DEF Answer, tables, L!vars
<1>2. CASE \/ Accept(r) \/ BeginTx(r) \/ LockFrom(r) \/ LockTo(r)
           \/ Debit(r) \/ Credit(r) \/ Record(r) \/ ContextCancelled(r)
    BY <1>2 DEF Accept, BeginTx, LockFrom, LockTo, Debit, Credit, Record,
                ContextCancelled, tables, L!vars
<1>3. CASE StatementFails(r) \/ TxDone(r) \/ DeadlockVictim(r)
    BY <1>1, <1>3 DEF StatementFails, TxDone, DeadlockVictim, Codes
<1>4. CASE \/ Invalid(r) \/ SameAccount(r) \/ AccountNotFound(r)
           \/ Refused(r) \/ CreditOverflows(r) \/ RecordRefused(r)
           \/ DepositFails(r) \/ Reply(r) \/ AnswerLost(r)
    BY <1>1, <1>4 DEF Invalid, SameAccount, AccountNotFound, Refused, CreditOverflows,
                RecordRefused, DepositFails, Reply, AnswerLost, Codes
<1> QED  BY <1>2, <1>3, <1>4 DEF Handle, Fault

LEMMA StepIsLedgerStep ==
    ASSUME WholeMenu, IInv, [Next]_vars
    PROVE  L!Next \/ UNCHANGED L!vars
<1>1. ASSUME NEW r \in Requests, Handle(r) \/ Fault(r)
      PROVE  L!Next \/ UNCHANGED L!vars
    BY <1>1, CommitIsTransfer, DepositIsDeposit, OthersStutter
<1>2. CASE Crash \/ Idle \/ UNCHANGED vars
    BY <1>2 DEF Crash, Idle, vars, tables, L!vars
<1> QED  BY <1>1, <1>2 DEF Next

(* With whole-cent amounts, transfers and deposits implement the atomic,   *)
(* exact ledger: whatever the interleaving and the faults, a balance only  *)
(* ever changes by a committed transfer, both ends at once and with its    *)
(* row, or by a deposit.                                                   *)
THEOREM ImplementsLedger ==
    ASSUME \A m \in Menu : IsWholeCents(m.amount)
    PROVE  Spec => LedgerSpec
<1>1. Init => L!Init
    BY DEF Init, L!Init
<1>2. IInv /\ [Next]_vars => [L!Next]_(L!vars)
    BY StepIsLedgerStep DEF WholeMenu
<1> QED  BY <1>1, <1>2, Invariance, PTL DEF Spec, LedgerSpec, L!Spec
-----------------------------------------------------------------------------
(* Every change is booked, fractions of a cent or not                      *)

(* The two balances and the row are rounded apart, and stay within a cent. *)
LEMMA DebitWithinACent ==
    ASSUME NEW b \in Nat, IsWholeCents(b), NEW y \in Nat, y =< b,
           NEW s \in StoredFloat(b - y)
    PROVE  b - s \in {ToCents(y) - Cent, ToCents(y)}
BY DEF StoredFloat, IsHalfCent, IsWholeCents, ToCents, Cent

LEMMA CreditWithinACent ==
    ASSUME NEW b \in Nat, IsWholeCents(b), NEW y \in Nat,
           NEW s \in StoredFloat(b + y)
    PROVE  s - b \in {ToCents(y) - Cent, ToCents(y)}
BY DEF StoredFloat, IsHalfCent, IsWholeCents, ToCents, Cent

(* A commit books its row, and moves both balances with it.                *)
LEMMA CommitIsBooked ==
    ASSUME IInv, NEW r \in Requests, Commit(r)
    PROVE  TransferBooked
<1> DEFINE from == req[r].from
           to == req[r].to
           amount == req[r].amount
           row == RowOf(r)
<1>1. pc[r] = "commit" /\ tx[r] = "open"
    BY DEF Commit
<1>2. /\ amount \in Nat \ {0} /\ from \in Accounts /\ to \in Accounts /\ from # to
      /\ amount =< balance[from]
      /\ dirty[r].from \in StoredFloat(balance[from] - amount)
      /\ dirty[r].to \in StoredFloat(balance[to] + amount)
    BY <1>1, CommitFacts
<1>3. /\ balance[from] \in Nat /\ balance[to] \in Nat
      /\ IsWholeCents(balance[from]) /\ IsWholeCents(balance[to])
    BY <1>2, MaxBalanceAssumption DEF IInv, NoOverdraft, WholeCents
<1>4. /\ balance[from] - dirty[r].from \in {ToCents(amount) - Cent, ToCents(amount)}
      /\ dirty[r].to - balance[to] \in {ToCents(amount) - Cent, ToCents(amount)}
    BY <1>2, <1>3, DebitWithinACent, CreditWithinACent
<1>5. /\ balance'[from] = dirty[r].from /\ balance'[to] = dirty[r].to
      /\ \A a \in Accounts \ {from, to} : balance'[a] = balance[a]
    BY <1>2 DEF Commit, IInv, TypeOK
<1>6. row.req = r /\ row.from = from /\ row.to = to /\ row.amount = ToCents(amount)
    BY DEF RowOf
<1>7. MovedWith(row)
    BY <1>2, <1>4, <1>5, <1>6 DEF MovedWith
<1>8. RowsOf(r) = {}
    BY <1>1 DEF IInv, HistoryInv
<1>9. row \notin ledger
    BY <1>6, <1>8 DEF RowsOf
<1>10. ledger' = ledger \cup {row} /\ deposits' = deposits
    BY DEF Commit
<1> QED  BY <1>6, <1>7, <1>8, <1>9, <1>10 DEF TransferBooked

(* So does a deposit.                                                      *)
LEMMA DepositIsBooked ==
    ASSUME IInv, NEW r \in Requests, Deposit(r)
    PROVE  DepositBooked
<1> DEFINE to == req[r].to
           stored == ToCents(balance[to] + req[r].amount)
           d == [req |-> r, to |-> to, amount |-> stored - balance[to]]
<1>1. /\ pc[r] = "deposit" /\ to \in Accounts /\ req[r].amount \in Nat
    BY ReqType DEF Deposit, IInv, ControlInv
<1>2. balance[to] \in Nat
    BY <1>1, MaxBalanceAssumption DEF IInv, NoOverdraft
<1>3. stored \in Nat
    BY <1>1, <1>2, ToCentsWhole
<1>4. d \notin deposits
    BY <1>1 DEF IInv, HistoryInv, DepositsOf
<1>5. /\ balance' = [balance EXCEPT ![to] = stored]
      /\ deposits' = deposits \cup {d} /\ ledger' = ledger
    BY DEF Deposit
<1>6. stored = balance[to] + d.amount
    BY <1>2, <1>3
<1>7. balance' = [balance EXCEPT ![d.to] = @ + d.amount]
    BY <1>5, <1>6
<1> QED  BY <1>4, <1>5, <1>7 DEF DepositBooked

LEMMA StepIsBooked ==
    ASSUME IInv, [Next]_vars
    PROVE  TransferBooked \/ DepositBooked \/ UNCHANGED tables
<1>1. ASSUME NEW r \in Requests, Handle(r) \/ Fault(r)
      PROVE  TransferBooked \/ DepositBooked \/ UNCHANGED tables
    <2>1. CASE Commit(r)
        BY <2>1, CommitIsBooked
    <2>2. CASE Deposit(r)
        BY <2>2, DepositIsBooked
    <2>3. CASE ~Commit(r) /\ ~Deposit(r)
        BY <1>1, <2>3, OthersStutter DEF L!vars, tables
    <2> QED  BY <2>1, <2>2, <2>3
<1>2. CASE Crash \/ Idle \/ UNCHANGED vars
    BY <1>2 DEF Crash, Idle, vars, tables
<1> QED  BY <1>1, <1>2 DEF Next

(* Whatever the amounts, the interleaving and the faults, a balance only   *)
(* ever changes by one committed transfer, with its row and to within a    *)
(* cent of it at both ends, or by one deposit.                             *)
THEOREM MoneyIsBooked == Spec => ChangesAreBooked
<1>1. IInv /\ [Next]_vars => [TransferBooked \/ DepositBooked]_tables
    BY StepIsBooked
<1> QED  BY <1>1, Invariance, PTL DEF Spec, ChangesAreBooked
-----------------------------------------------------------------------------
(* Waiting                                                                 *)

(* Every set of subsets of a finite set has a smallest member.             *)
LEMMA SmallestSubset ==
    ASSUME NEW S, IsFiniteSet(S), NEW B \in SUBSET (SUBSET S), B # {}
    PROVE  \E T \in B : \A U \in B : U \subseteq T => U = T
<1>1. IsWellFoundedOn(StrictSubsetOrdering(S), SUBSET S)
  BY FS_StrictSubsetOrderingWellFounded, FS_FiniteSubsetsOfFinite
<1>2. \E T \in B : \A U \in B : ~ (<<U, T>> \in StrictSubsetOrdering(S))
  BY <1>1, WFMin
<1> QED
  BY <1>2 DEF StrictSubsetOrdering

(* One request at a time becomes active, so finitely many are.             *)
ActiveFinite == IsFiniteSet({r \in Requests : Active(r)})

LEMMA OthersStay ==
    ASSUME IInv, NEW r \in Requests, Handle(r) \/ Fault(r)
    PROVE  \A q \in Requests \ {r} : pc'[q] = pc[q]
<1>1. CASE \E status \in Codes : Answer(r, status)
    BY <1>1 DEF Answer, IInv, TypeOK
<1>2. CASE \/ Accept(r) \/ BeginTx(r) \/ LockFrom(r) \/ LockTo(r)
           \/ Debit(r) \/ Credit(r) \/ Record(r) \/ Commit(r) \/ Deposit(r)
           \/ ContextCancelled(r)
    BY <1>2 DEF Accept, BeginTx, LockFrom, LockTo, Debit, Credit, Record, Commit, Deposit,
                ContextCancelled, Goto, IInv, TypeOK
<1>3. CASE StatementFails(r) \/ TxDone(r) \/ DeadlockVictim(r)
    BY <1>1, <1>3 DEF StatementFails, TxDone, DeadlockVictim, Codes
<1>4. CASE \/ Invalid(r) \/ SameAccount(r) \/ AccountNotFound(r)
           \/ Refused(r) \/ CreditOverflows(r) \/ RecordRefused(r)
           \/ DepositFails(r) \/ Reply(r) \/ AnswerLost(r)
    BY <1>1, <1>4 DEF Invalid, SameAccount, AccountNotFound, Refused, CreditOverflows,
                RecordRefused, DepositFails, Reply, AnswerLost, Codes
<1> QED  BY <1>2, <1>3, <1>4 DEF Handle, Fault

LEMMA ActiveStaysFinite ==
    ASSUME IInv, ActiveFinite, [Next]_vars
    PROVE  ActiveFinite'
<1> DEFINE Now == {r \in Requests : Active(r)}
<1>1. ASSUME NEW r \in Requests, Handle(r) \/ Fault(r)
      PROVE  ActiveFinite'
    <2>1. {q \in Requests : Active(q)}' \subseteq Now \cup {r}
        BY <1>1, OthersStay DEF Active
    <2>2. IsFiniteSet(Now \cup {r})
        BY FS_AddElement DEF ActiveFinite
    <2> QED  BY <2>1, <2>2, FS_Subset DEF ActiveFinite
<1>2. CASE Crash
    <2>1. {q \in Requests : Active(q)}' \subseteq Now
        BY <1>2 DEF Crash, Active
    <2> QED  BY <2>1, FS_Subset DEF ActiveFinite
<1>3. CASE Idle \/ UNCHANGED vars
    <2>1. {q \in Requests : Active(q)}' = Now
        BY <1>3 DEF Idle, vars, local, Active
    <2> QED  BY <2>1, FS_Subset DEF ActiveFinite
<1> QED  BY <1>1, <1>2, <1>3 DEF Next

(* Whom a request waits for has a transaction open, and waits, if it does, *)
(* for its receiver's row.                                                 *)
LEMMA HolderIsActive ==
    ASSUME IInv, NEW r \in Requests, Waits(r)
    PROVE  /\ WaitsFor(r) \in Requests
           /\ Active(WaitsFor(r))
           /\ Waits(WaitsFor(r)) => WaitsForTo(WaitsFor(r))
<1> DEFINE h == WaitsFor(r)
<1>1. h \in Requests
    BY DEF Waits, WaitsFor, IInv, TypeOK
<1>2. Needs(r) \in Held(h)
    BY <1>1 DEF Waits, WaitsFor, IInv, LocksFollowTransactions
<1>3. tx[h] = "open" /\ pc[h] \in Both \cup {"lockTo"}
    BY <1>2 DEF Held
<1> QED  BY <1>1, <1>3 DEF Active, Waits, Needs, WaitsForTo, Both

LEMMA WaitsEndHolds ==
    ASSUME IInv, ActiveFinite
    PROVE  WaitsEnd
<1> SUFFICES ASSUME NEW S \in SUBSET {r \in Requests : Waits(r)}, S # {},
                    \A r \in S : WaitsFor(r) \in S \/ ~Active(WaitsFor(r))
             PROVE  \E r \in S : InDeadlock(r)
    BY DEF WaitsEnd
<1> DEFINE Holders(T) == {WaitsFor(r) : r \in T}
           B == {T \in SUBSET S : T # {} /\ Holders(T) \subseteq T}
<1>1. IsFiniteSet(S)
    <2>1. S \subseteq {r \in Requests : Active(r)}
        BY DEF Waits, Active
    <2> QED  BY <2>1, FS_Subset DEF ActiveFinite
<1>2. S \in B
    BY HolderIsActive
<1>3. PICK T \in B : \A U \in B : U \subseteq T => U = T
    <2>1. B \in SUBSET (SUBSET S) /\ B # {}
        BY <1>2
    <2> HIDE DEF B
    <2> QED  BY <1>1, <2>1, SmallestSubset
<1>4. Holders(T) = T
    <2>1. T \subseteq S /\ T # {} /\ Holders(T) \subseteq T
        BY <1>3
    <2>2. Holders(T) # {} /\ Holders(Holders(T)) \subseteq Holders(T)
        BY <2>1
    <2>3. Holders(T) \in B
        BY <2>1, <2>2
    <2> HIDE DEF B, Holders
    <2> QED  BY <1>3, <2>1, <2>3
<1>5. \A r \in T : WaitsForTo(r) /\ WaitsFor(r) = lock[req[r].to]
    BY <1>4, HolderIsActive DEF WaitsForTo, WaitsFor, Needs
<1>6. T = {lock[req[r].to] : r \in T}
    BY <1>4, <1>5
<1> QED  BY <1>5, <1>6 DEF InDeadlock

(* For any number of requests and accounts: no request waits in vain, and  *)
(* every cycle of waiting requests is a deadlock that PostgreSQL finds.    *)
(* Only then is the fairness of Answered enough.                           *)
THEOREM NobodyWaitsInVain == Spec => []WaitsEnd
<1>1. Init => ActiveFinite
    <2>1. Init => {r \in Requests : Active(r)} = {}
        BY DEF Init, Active
    <2> QED  BY <2>1, FS_EmptySet DEF ActiveFinite
<1>2. IInv /\ ActiveFinite /\ [Next]_vars => ActiveFinite'
    BY ActiveStaysFinite
<1>3. IInv /\ ActiveFinite => WaitsEnd
    BY WaitsEndHolds
<1> QED  BY <1>1, <1>2, <1>3, Invariance, PTL DEF Spec
=============================================================================
