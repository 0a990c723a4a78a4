---------------------------- MODULE BooksProofs ----------------------------
(***************************************************************************)
(* The balances are those the books account for: exactly when amounts are  *)
(* whole cents, and to within a cent for each transfer otherwise.  The     *)
(* books are sums over the tables; a step adds one row or one deposit, so  *)
(* the sums change by its amount.                                          *)
(***************************************************************************)
EXTENDS AmountsProofs

(* The rows to and from an account.                                        *)
To(T, a) == {row \in T : row.to = a}

From(T, a) == {row \in T : row.from = a}

(* What a new row, or deposit, adds to the sums the books are made of.     *)
LEMMA OneMoreTo ==
    ASSUME NEW T, IsFiniteSet(T), IntegerAmounts(T),
           NEW x, x \notin T, x.amount \in Int, NEW a
    PROVE  AmountsOf(To(T \cup {x}, a)) =
               AmountsOf(To(T, a)) + IF x.to = a THEN x.amount ELSE 0
<1>1. IsFiniteSet(To(T, a)) /\ IntegerAmounts(To(T, a)) /\ x \notin To(T, a)
  BY FS_Subset DEF IntegerAmounts, To
<1>2. AmountsOf(To(T, a)) \in Int
  BY <1>1, AmountsInt
<1>3. CASE x.to = a
  <2>1. To(T \cup {x}, a) = To(T, a) \cup {x}
    BY <1>3 DEF To
  <2>2. AmountsOf(To(T \cup {x}, a)) = AmountsOf(To(T, a) \cup {x})
    BY <2>1, Zenon
  <2>3. AmountsOf(To(T, a) \cup {x}) = AmountsOf(To(T, a)) + x.amount
    BY <1>1, AmountsOfOneMore
  <2> QED
    BY <1>3, <2>2, <2>3
<1>4. CASE x.to # a
  <2>1. To(T \cup {x}, a) = To(T, a)
    BY <1>4 DEF To
  <2>2. AmountsOf(To(T \cup {x}, a)) = AmountsOf(To(T, a))
    BY <2>1, Zenon
  <2> QED
    BY <1>2, <1>4, <2>2
<1> QED
  BY <1>3, <1>4

LEMMA OneMoreFrom ==
    ASSUME NEW T, IsFiniteSet(T), IntegerAmounts(T),
           NEW x, x \notin T, x.amount \in Int, NEW a
    PROVE  AmountsOf(From(T \cup {x}, a)) =
               AmountsOf(From(T, a)) + IF x.from = a THEN x.amount ELSE 0
<1>1. IsFiniteSet(From(T, a)) /\ IntegerAmounts(From(T, a)) /\ x \notin From(T, a)
  BY FS_Subset DEF IntegerAmounts, From
<1>2. AmountsOf(From(T, a)) \in Int
  BY <1>1, AmountsInt
<1>3. CASE x.from = a
  <2>1. From(T \cup {x}, a) = From(T, a) \cup {x}
    BY <1>3 DEF From
  <2>2. AmountsOf(From(T \cup {x}, a)) = AmountsOf(From(T, a) \cup {x})
    BY <2>1, Zenon
  <2>3. AmountsOf(From(T, a) \cup {x}) = AmountsOf(From(T, a)) + x.amount
    BY <1>1, AmountsOfOneMore
  <2> QED
    BY <1>3, <2>2, <2>3
<1>4. CASE x.from # a
  <2>1. From(T \cup {x}, a) = From(T, a)
    BY <1>4 DEF From
  <2>2. AmountsOf(From(T \cup {x}, a)) = AmountsOf(From(T, a))
    BY <2>1, Zenon
  <2> QED
    BY <1>2, <1>4, <2>2
<1> QED
  BY <1>3, <1>4

(* The same of the numbers of rows from and to an account.                 *)
LEMMA OneRowMore ==
    ASSUME NEW T, IsFiniteSet(T), NEW x, x \notin T, NEW a
    PROVE  /\ Cardinality(From(T \cup {x}, a)) =
                  Cardinality(From(T, a)) + IF x.from = a THEN 1 ELSE 0
           /\ Cardinality(To(T \cup {x}, a)) =
                  Cardinality(To(T, a)) + IF x.to = a THEN 1 ELSE 0
<1>1. /\ IsFiniteSet(From(T, a)) /\ x \notin From(T, a)
      /\ IsFiniteSet(To(T, a)) /\ x \notin To(T, a)
  BY FS_Subset DEF From, To
<1>2. Cardinality(From(T, a)) \in Nat /\ Cardinality(To(T, a)) \in Nat
  BY <1>1, FS_CardinalityType
<1>3. /\ From(T \cup {x}, a) = IF x.from = a THEN From(T, a) \cup {x} ELSE From(T, a)
      /\ To(T \cup {x}, a) = IF x.to = a THEN To(T, a) \cup {x} ELSE To(T, a)
  BY DEF From, To
<1>4. /\ Cardinality(From(T \cup {x}, a)) =
             IF x.from = a THEN Cardinality(From(T, a) \cup {x}) ELSE Cardinality(From(T, a))
      /\ Cardinality(To(T \cup {x}, a)) =
             IF x.to = a THEN Cardinality(To(T, a) \cup {x}) ELSE Cardinality(To(T, a))
  BY <1>3, Zenon
<1>5. /\ Cardinality(From(T, a) \cup {x}) = Cardinality(From(T, a)) + 1
      /\ Cardinality(To(T, a) \cup {x}) = Cardinality(To(T, a)) + 1
  BY <1>1, FS_AddElement
<1> QED
  BY <1>2, <1>4, <1>5
-----------------------------------------------------------------------------
(* The tables                                                              *)

TablesFinite == IsFiniteSet(ledger) /\ IsFiniteSet(deposits)

LEMMA BooksAre ==
    ASSUME NEW a
    PROVE  Books(a) = Opening[a] + AmountsOf(To(deposits, a)) + AmountsOf(To(ledger, a))
                        - AmountsOf(From(ledger, a))
BY DEF Books, To, From

LEMMA BooksInt ==
    ASSUME TypeOK, TablesFinite, NEW a \in Accounts
    PROVE  /\ IntegerAmounts(ledger) /\ IntegerAmounts(deposits)
           /\ AmountsOf(To(deposits, a)) \in Int /\ AmountsOf(To(ledger, a)) \in Int
           /\ AmountsOf(From(ledger, a)) \in Int
           /\ Cardinality(To(ledger, a)) \in Nat /\ Cardinality(From(ledger, a)) \in Nat
           /\ Opening[a] \in Int /\ balance[a] \in Int /\ Books(a) \in Int
<1>1. IntegerAmounts(ledger) /\ IntegerAmounts(deposits)
  BY DEF TypeOK, IntegerAmounts
<1>2. /\ IsFiniteSet(To(deposits, a)) /\ IntegerAmounts(To(deposits, a))
      /\ IsFiniteSet(To(ledger, a)) /\ IntegerAmounts(To(ledger, a))
      /\ IsFiniteSet(From(ledger, a)) /\ IntegerAmounts(From(ledger, a))
  BY <1>1, FS_Subset DEF TablesFinite, IntegerAmounts, To, From
<1>3. /\ AmountsOf(To(deposits, a)) \in Int /\ AmountsOf(To(ledger, a)) \in Int
      /\ AmountsOf(From(ledger, a)) \in Int
  BY <1>2, AmountsInt
<1>4. Opening[a] \in Int /\ balance[a] \in Int
  BY AccountsAssumption DEF TypeOK
<1>5. Books(a) \in Int
  BY <1>3, <1>4, BooksAre
<1>6. Cardinality(To(ledger, a)) \in Nat /\ Cardinality(From(ledger, a)) \in Nat
  BY <1>2, FS_CardinalityType
<1> QED
  BY <1>1, <1>3, <1>4, <1>5, <1>6

(* A new row is booked at both its ends.                                   *)
LEMMA RowAdds ==
    ASSUME TypeOK, TablesFinite, NEW row, row \notin ledger, row.amount \in Int,
           ledger' = ledger \cup {row}, deposits' = deposits, NEW a \in Accounts
    PROVE  Books(a)' = Books(a) + (IF row.to = a THEN row.amount ELSE 0)
                         - (IF row.from = a THEN row.amount ELSE 0)
<1>1. /\ AmountsOf(To(ledger \cup {row}, a)) =
             AmountsOf(To(ledger, a)) + IF row.to = a THEN row.amount ELSE 0
      /\ AmountsOf(From(ledger \cup {row}, a)) =
             AmountsOf(From(ledger, a)) + IF row.from = a THEN row.amount ELSE 0
  <2>1. IsFiniteSet(ledger) /\ IntegerAmounts(ledger)
    BY BooksInt DEF TablesFinite
  <2>2. AmountsOf(To(ledger \cup {row}, a)) =
            AmountsOf(To(ledger, a)) + IF row.to = a THEN row.amount ELSE 0
    BY <2>1, OneMoreTo
  <2>3. AmountsOf(From(ledger \cup {row}, a)) =
            AmountsOf(From(ledger, a)) + IF row.from = a THEN row.amount ELSE 0
    BY <2>1, OneMoreFrom
  <2> QED
    BY <2>2, <2>3
<1>2. Books(a)' = Opening[a] + AmountsOf(To(deposits, a)) + AmountsOf(To(ledger \cup {row}, a))
                    - AmountsOf(From(ledger \cup {row}, a))
  BY Zenon DEF Books, To, From
<1> QED
  BY <1>1, <1>2, BooksAre, BooksInt

(* So is a new deposit.                                                    *)
LEMMA DepositAdds ==
    ASSUME TypeOK, TablesFinite, NEW d, d \notin deposits, d.amount \in Int,
           deposits' = deposits \cup {d}, ledger' = ledger, NEW a \in Accounts
    PROVE  Books(a)' = Books(a) + IF d.to = a THEN d.amount ELSE 0
<1>1. AmountsOf(To(deposits \cup {d}, a)) =
          AmountsOf(To(deposits, a)) + IF d.to = a THEN d.amount ELSE 0
  BY BooksInt, OneMoreTo DEF TablesFinite
<1>2. Books(a)' = Opening[a] + AmountsOf(To(deposits \cup {d}, a)) + AmountsOf(To(ledger, a))
                    - AmountsOf(From(ledger, a))
  BY Zenon DEF Books, To, From
<1> QED
  BY <1>1, <1>2, BooksAre, BooksInt
-----------------------------------------------------------------------------
(* Fractions of a cent                                                     *)

(* The tables stay finite, and the drift within its bounds, whichever way  *)
(* the two balances of a transfer were rounded.                            *)
LEMMA TransferDrift ==
    ASSUME TypeOK, TypeOK', TablesFinite, DriftBounded, TransferBooked
    PROVE  TablesFinite' /\ DriftBounded'
<1>1. PICK row \in ledger' \ ledger :
          /\ ledger' = ledger \cup {row}
          /\ MovedWith(row)
          /\ UNCHANGED deposits
  BY DEF TransferBooked
<1>2. row.from \in Accounts /\ row.to \in Accounts /\ row.amount \in Int
  BY DEF TypeOK
<1>3. TablesFinite'
  BY <1>1, FS_AddElement DEF TablesFinite
<1>4. ASSUME NEW a \in Accounts
      PROVE  /\ balance'[a] - Books(a)' =< Cent * Cardinality(From(ledger, a)')
             /\ Books(a)' - balance'[a] =< Cent * Cardinality(To(ledger, a)')
  <2> DEFINE sent == Cardinality(From(ledger, a))
             received == Cardinality(To(ledger, a))
  <2>1. balance[a] - Books(a) =< Cent * sent /\ Books(a) - balance[a] =< Cent * received
    BY DEF DriftBounded, From, To
  <2>2. /\ Cardinality(From(ledger, a)') = sent + IF row.from = a THEN 1 ELSE 0
        /\ Cardinality(To(ledger, a)') = received + IF row.to = a THEN 1 ELSE 0
    <3>1. /\ Cardinality(From(ledger \cup {row}, a)) = sent + IF row.from = a THEN 1 ELSE 0
          /\ Cardinality(To(ledger \cup {row}, a)) = received + IF row.to = a THEN 1 ELSE 0
      BY OneRowMore DEF TablesFinite
    <3> QED
      BY <1>1, <3>1, Zenon DEF From, To
  <2>3. Books(a)' = Books(a) + (IF row.to = a THEN row.amount ELSE 0)
                      - (IF row.from = a THEN row.amount ELSE 0)
    BY <1>1, <1>2, RowAdds
  <2>4. /\ balance[a] \in Int /\ balance'[a] \in Int /\ Books(a) \in Int
        /\ sent \in Nat /\ received \in Nat
    BY BooksInt DEF TypeOK
  <2> HIDE DEF sent, received
  <2>5. CASE a = row.from
    <3>1. /\ row.from # row.to
          /\ balance[a] - balance'[a] \in {row.amount - Cent, row.amount}
      BY <1>1, <2>5 DEF MovedWith
    <3> QED
      BY <1>2, <2>1, <2>2, <2>3, <2>4, <2>5, <3>1 DEF Cent
  <2>6. CASE a = row.to
    <3>1. /\ row.from # row.to
          /\ balance'[a] - balance[a] \in {row.amount - Cent, row.amount}
      BY <1>1, <2>6 DEF MovedWith
    <3> QED
      BY <1>2, <2>1, <2>2, <2>3, <2>4, <2>6, <3>1 DEF Cent
  <2>7. CASE a \notin {row.from, row.to}
    <3>1. balance'[a] = balance[a]
      BY <1>1, <2>7 DEF MovedWith
    <3> QED
      BY <1>2, <2>1, <2>2, <2>3, <2>4, <2>7, <3>1 DEF Cent
  <2> QED
    BY <2>5, <2>6, <2>7
<1>5. DriftBounded'
  BY <1>4, Zenon DEF DriftBounded, From, To
<1> QED
  BY <1>3, <1>5

LEMMA DepositDrift ==
    ASSUME TypeOK, TypeOK', TablesFinite, DriftBounded, DepositBooked
    PROVE  TablesFinite' /\ DriftBounded'
<1>1. PICK d \in deposits' \ deposits :
          /\ deposits' = deposits \cup {d}
          /\ balance' = [balance EXCEPT ![d.to] = @ + d.amount]
          /\ UNCHANGED ledger
  BY DEF DepositBooked
<1>2. d.to \in Accounts /\ d.amount \in Int
  BY DEF TypeOK
<1>3. TablesFinite'
  BY <1>1, FS_AddElement DEF TablesFinite
<1>4. ASSUME NEW a \in Accounts
      PROVE  /\ balance'[a] - Books(a)' =< Cent * Cardinality(From(ledger, a)')
             /\ Books(a)' - balance'[a] =< Cent * Cardinality(To(ledger, a)')
  <2> DEFINE more == IF d.to = a THEN d.amount ELSE 0
  <2>1. Books(a)' = Books(a) + more
    BY <1>1, <1>2, DepositAdds
  <2>2. balance'[a] = balance[a] + more
    BY <1>1, <1>2 DEF TypeOK
  <2>3. /\ Cardinality(From(ledger, a)') = Cardinality(From(ledger, a))
        /\ Cardinality(To(ledger, a)') = Cardinality(To(ledger, a))
    BY <1>1, Zenon DEF From, To
  <2>4. /\ balance[a] - Books(a) =< Cent * Cardinality(From(ledger, a))
        /\ Books(a) - balance[a] =< Cent * Cardinality(To(ledger, a))
    BY DEF DriftBounded, From, To
  <2>5. balance[a] \in Int /\ Books(a) \in Int /\ more \in Int
    BY <1>2, BooksInt
  <2> HIDE DEF more
  <2>6. balance'[a] - Books(a)' = balance[a] - Books(a)
        /\ Books(a)' - balance'[a] = Books(a) - balance[a]
    BY <2>1, <2>2, <2>5
  <2> QED
    BY <2>3, <2>4, <2>6
<1>5. DriftBounded'
  BY <1>4, Zenon DEF DriftBounded, From, To
<1> QED
  BY <1>3, <1>5

(* At the start the tables are empty and the books say the opening balances.*)
LEMMA BooksInit ==
    ASSUME Init
    PROVE  TablesFinite /\ BooksBalance /\ DriftBounded
<1>1. TablesFinite
  BY FS_EmptySet DEF Init, TablesFinite
<1>2. ASSUME NEW a \in Accounts
      PROVE  /\ Books(a) = Opening[a] /\ Opening[a] \in Int /\ balance[a] = Opening[a]
             /\ Cardinality(From(ledger, a)) = 0 /\ Cardinality(To(ledger, a)) = 0
  <2>1. To(deposits, a) = {} /\ To(ledger, a) = {} /\ From(ledger, a) = {}
    BY DEF Init, To, From
  <2>2. /\ AmountsOf(To(deposits, a)) = 0 /\ AmountsOf(To(ledger, a)) = 0
        /\ AmountsOf(From(ledger, a)) = 0
    BY <2>1, AmountsOfNone, Zenon
  <2>3. Cardinality(From(ledger, a)) = 0 /\ Cardinality(To(ledger, a)) = 0
    BY <2>1, FS_EmptySet, Zenon
  <2> QED
    BY <2>2, <2>3, BooksAre, AccountsAssumption DEF Init
<1>3. BooksBalance
  BY <1>2 DEF BooksBalance
<1>4. \A a \in Accounts :
          /\ balance[a] - Books(a) =< Cent * Cardinality(From(ledger, a))
          /\ Books(a) - balance[a] =< Cent * Cardinality(To(ledger, a))
  BY <1>2 DEF Cent
<1> QED
  BY <1>1, <1>3, <1>4, Zenon DEF DriftBounded, From, To

(* The tables are finite in every reachable state.                         *)
LEMMA StaysFinite ==
    ASSUME TablesFinite, TransferBooked \/ DepositBooked \/ UNCHANGED tables
    PROVE  TablesFinite'
BY FS_AddElement DEF TablesFinite, TransferBooked, DepositBooked, tables

LEMMA Finiteness == Spec => []TablesFinite
<1>1. Init => TablesFinite
  BY BooksInit
<1>2. TablesFinite /\ IInv /\ [Next]_vars => TablesFinite'
  BY StepIsBooked, StaysFinite
<1> QED
  BY <1>1, <1>2, Invariance, PTL DEF Spec

(* What the transactions and the deposits say an account holds is what its *)
(* balance is, but for one cent for each transfer at most: in favour of    *)
(* its sender, at the expense of its receiver (transaction_service.go:96   *)
(* and :101, whose results the NUMERIC column rounds one by one).          *)
THEOREM DriftIsBounded == Spec => []DriftBounded
<1>1. Init => DriftBounded
  BY BooksInit
<1>2. DriftBounded /\ TablesFinite /\ IInv /\ IInv' /\ [Next]_vars => DriftBounded'
  <2> SUFFICES ASSUME DriftBounded, TablesFinite, IInv, IInv', [Next]_vars
               PROVE  DriftBounded'
    OBVIOUS
  <2>1. TypeOK /\ TypeOK'
    BY DEF IInv
  <2>2. CASE UNCHANGED tables
    BY <2>2, Zenon DEF DriftBounded, Books, tables
  <2> QED
    BY <2>1, <2>2, StepIsBooked, TransferDrift, DepositDrift
<1> QED
  BY <1>1, <1>2, Invariance, Finiteness, PTL DEF Spec
-----------------------------------------------------------------------------
(* Whole cents                                                             *)

LEMMA LedgerTransferBalances ==
    ASSUME TypeOK, TablesFinite, BooksBalance,
           NEW r \in Requests, NEW from \in Accounts, NEW to \in Accounts, NEW amount \in Int,
           L!Transfer(r, from, to, amount)
    PROVE  BooksBalance'
<1> DEFINE row == [req |-> r, from |-> from, to |-> to, amount |-> amount]
<1>1. /\ ledger' = ledger \cup {row} /\ deposits' = deposits /\ from # to
      /\ balance' = [balance EXCEPT ![from] = @ - amount, ![to] = @ + amount]
  BY DEF L!Transfer
<1>2. row \notin ledger
  BY DEF L!Transfer
<1>3. row.from = from /\ row.to = to /\ row.amount = amount
  OBVIOUS
<1> HIDE DEF row
<1>4. ASSUME NEW a \in Accounts PROVE balance'[a] = Books(a)'
  <2>1. Books(a)' = Books(a) + (IF to = a THEN amount ELSE 0)
                      - (IF from = a THEN amount ELSE 0)
    BY <1>1, <1>2, <1>3, RowAdds
  <2>2. balance'[a] = balance[a] + (IF to = a THEN amount ELSE 0)
                        - (IF from = a THEN amount ELSE 0)
    <3>1. balance \in [Accounts -> Int]
      BY DEF TypeOK
    <3>2. /\ a = to => balance'[a] = balance[a] + amount
          /\ a = from => balance'[a] = balance[a] - amount
          /\ a \notin {from, to} => balance'[a] = balance[a]
      BY <1>1, <3>1
    <3>3. balance[a] \in Int
      BY <3>1
    <3> QED
      BY <1>1, <3>2, <3>3
  <2>3. balance[a] = Books(a) /\ Books(a) \in Int
    BY BooksInt DEF BooksBalance
  <2> QED
    BY <2>1, <2>2, <2>3
<1> QED
  BY <1>4 DEF BooksBalance

LEMMA LedgerDepositBalances ==
    ASSUME TypeOK, TablesFinite, BooksBalance,
           NEW r \in Requests, NEW to \in Accounts, NEW amount \in Int,
           L!Deposit(r, to, amount)
    PROVE  BooksBalance'
<1> DEFINE d == [req |-> r, to |-> to, amount |-> amount]
<1>1. /\ deposits' = deposits \cup {d} /\ ledger' = ledger
      /\ balance' = [balance EXCEPT ![to] = @ + amount]
  BY DEF L!Deposit
<1>2. d \notin deposits
  BY DEF L!Deposit
<1>3. d.to = to /\ d.amount = amount
  OBVIOUS
<1> HIDE DEF d
<1>4. ASSUME NEW a \in Accounts PROVE balance'[a] = Books(a)'
  <2>1. Books(a)' = Books(a) + IF to = a THEN amount ELSE 0
    BY <1>1, <1>2, <1>3, DepositAdds
  <2>2. balance'[a] = balance[a] + IF to = a THEN amount ELSE 0
    BY <1>1 DEF TypeOK
  <2>3. balance[a] = Books(a) /\ Books(a) \in Int
    BY BooksInt DEF BooksBalance
  <2> QED
    BY <2>1, <2>2, <2>3
<1> QED
  BY <1>4 DEF BooksBalance

(* When amounts are whole cents, every balance is exactly what the         *)
(* transaction history and the deposits account for, in every reachable    *)
(* state: no interleaving, rollback or crash loses money or makes some.    *)
THEOREM BooksAlwaysBalance ==
    ASSUME \A m \in Menu : IsWholeCents(m.amount)
    PROVE  Spec => []BooksBalance
<1>1. Init => BooksBalance
  BY BooksInit
<1>2. BooksBalance /\ TablesFinite /\ IInv /\ [Next]_vars => BooksBalance'
  <2> SUFFICES ASSUME BooksBalance, TablesFinite, IInv, [Next]_vars
               PROVE  BooksBalance'
    OBVIOUS
  <2>1. TypeOK
    BY DEF IInv
  <2>2. L!Next \/ UNCHANGED L!vars
    BY StepIsLedgerStep DEF WholeMenu
  <2>3. \A amount \in {ToCents(m.amount) : m \in Menu} : amount \in Int
    BY MenuAssumption DEF TransferReq, DepositReq, ToCents, Cent
  <2>4. CASE UNCHANGED L!vars
    BY <2>4, Zenon DEF BooksBalance, Books, L!vars
  <2>5. CASE L!Next
    BY <2>1, <2>3, <2>5, LedgerTransferBalances, LedgerDepositBalances DEF L!Next
  <2> QED
    BY <2>2, <2>4, <2>5
<1> QED
  BY <1>1, <1>2, Invariance, Finiteness, PTL DEF Spec
=============================================================================
