--------------------------- MODULE AmountsProofs ---------------------------
(***************************************************************************)
(* What AmountsOf of Transfers, the sum of the amounts of a finite set of  *)
(* rows, is worth: nothing for no row, and one amount more for one row     *)
(* more.  AmountsOf is a fold, so this is induction over finite sets; it   *)
(* is done by taking a smallest counterexample, which exists because       *)
(* strict inclusion is well founded on the subsets of a finite set.        *)
(***************************************************************************)
EXTENDS TransfersProofs

Pick(s) == CHOOSE x \in s : TRUE

(* One step of the fold: f sums every subset of S.                         *)
Sums(S, f) ==
    f = [s \in SUBSET S |->
            IF s = {} THEN 0 ELSE Pick(s).amount + f[s \ {Pick(s)}]]

LEMMA PickIn == ASSUME NEW s, s # {} PROVE Pick(s) \in s
BY DEF Pick

(* Two functions that sum agree where both are defined.                    *)
LEMMA SumsAgree ==
    ASSUME NEW S, IsFiniteSet(S), NEW T \in SUBSET S, NEW f, NEW g, Sums(S, f), Sums(T, g)
    PROVE  \A s \in SUBSET T : f[s] = g[s]
<1> DEFINE B == {s \in SUBSET T : f[s] # g[s]}
<1> SUFFICES ASSUME B # {} PROVE FALSE
  OBVIOUS
<1>1. PICK s \in B : \A u \in B : u \subseteq s => u = s
  <2>1. B \in SUBSET (SUBSET S)
    OBVIOUS
  <2> HIDE DEF B
  <2> QED
    BY <2>1, SmallestSubset
<1>2. f[s] = IF s = {} THEN 0 ELSE Pick(s).amount + f[s \ {Pick(s)}]
  BY DEF Sums
<1>3. g[s] = IF s = {} THEN 0 ELSE Pick(s).amount + g[s \ {Pick(s)}]
  BY DEF Sums
<1>4. s # {}
  BY <1>2, <1>3
<1>5. f[s \ {Pick(s)}] = g[s \ {Pick(s)}]
  BY <1>1, <1>4, PickIn
<1> QED
  BY <1>2, <1>3, <1>5

(* There is a function that sums the subsets of a finite set.              *)
LEMMA SumsExists ==
    ASSUME NEW S, IsFiniteSet(S)
    PROVE  \E f : Sums(S, f)
<1> DEFINE B == {T \in SUBSET S : ~ \E f : Sums(T, f)}
<1> SUFFICES ASSUME B # {} PROVE FALSE
  OBVIOUS
<1>1. PICK T \in B : \A U \in B : U \subseteq T => U = T
  <2>1. B \in SUBSET (SUBSET S)
    OBVIOUS
  <2> HIDE DEF B
  <2> QED
    BY <2>1, SmallestSubset
<1> DEFINE Of(s) == CHOOSE f : Sums(s, f)
           h == [s \in SUBSET T |->
                    IF s = {} THEN 0 ELSE Pick(s).amount + Of(s \ {Pick(s)})[s \ {Pick(s)}]]
<1>2. ASSUME NEW u \in SUBSET T, u # T PROVE IsFiniteSet(u) /\ Sums(u, Of(u))
  <2>1. IsFiniteSet(u)
    BY FS_Subset
  <2>2. \E f : Sums(u, f)
    BY <1>1, <1>2
  <2> QED
    BY <2>1, <2>2
<1> HIDE DEF Of
<1>3. ASSUME NEW u \in SUBSET T, u # T PROVE h[u] = Of(u)[u]
  <2>1. Sums(u, Of(u))
    BY <1>2, <1>3
  <2>2. Of(u)[u] = IF u = {} THEN 0 ELSE Pick(u).amount + Of(u)[u \ {Pick(u)}]
    BY <2>1 DEF Sums
  <2>3. CASE u = {}
    BY <2>2, <2>3
  <2>4. CASE u # {}
    <3> DEFINE w == u \ {Pick(u)}
    <3>1. w \in SUBSET u /\ w \in SUBSET T /\ w # T
      BY <2>4, PickIn
    <3>2. Sums(w, Of(w)) /\ IsFiniteSet(u)
      BY <1>2, <1>3, <3>1
    <3>3. Of(u)[w] = Of(w)[w]
      BY <2>1, <3>1, <3>2, SumsAgree
    <3> QED
      BY <2>2, <2>4, <3>3
  <2> QED
    BY <2>3, <2>4
<1>4. ASSUME NEW s \in SUBSET T
      PROVE  h[s] = IF s = {} THEN 0 ELSE Pick(s).amount + h[s \ {Pick(s)}]
  <2>1. CASE s = {}
    BY <2>1
  <2>2. CASE s # {}
    <3>1. s \ {Pick(s)} \in SUBSET T /\ s \ {Pick(s)} # T
      BY <2>2, PickIn
    <3>2. h[s \ {Pick(s)}] = Of(s \ {Pick(s)})[s \ {Pick(s)}]
      BY <1>3, <3>1
    <3>3. h[s] = Pick(s).amount + Of(s \ {Pick(s)})[s \ {Pick(s)}]
      BY <2>2
    <3> QED
      BY <2>2, <3>2, <3>3
  <2> QED
    BY <2>1, <2>2
<1>5. h = [s \in SUBSET T |-> h[s]]
  OBVIOUS
<1> HIDE DEF h
<1>6. Sums(T, h)
  BY <1>4, <1>5 DEF Sums
<1> QED
  BY <1>6

(* The fold does what it looks like.                                       *)
LEMMA AmountsUnfold ==
    ASSUME NEW S, IsFiniteSet(S)
    PROVE  AmountsOf(S) = IF S = {} THEN 0 ELSE Pick(S).amount + AmountsOf(S \ {Pick(S)})
<1> DEFINE Of(s) == CHOOSE f : Sums(s, f)
<1>1. \A s : AmountsOf(s) = Of(s)[s]
  BY DEF AmountsOf, MapThenSumSet, MapThenFoldSet, Sums, Pick
<1>2. \A s : IsFiniteSet(s) => Sums(s, Of(s))
  BY SumsExists
<1> HIDE DEF Of
<1>3. AmountsOf(S) = IF S = {} THEN 0 ELSE Pick(S).amount + Of(S)[S \ {Pick(S)}]
  <2>1. Sums(S, Of(S))
    BY <1>2
  <2> QED
    BY <1>1, <2>1 DEF Sums
<1>4. ASSUME S # {} PROVE Of(S)[S \ {Pick(S)}] = AmountsOf(S \ {Pick(S)})
  <2>1. IsFiniteSet(S \ {Pick(S)}) /\ S \ {Pick(S)} \in SUBSET S
    BY FS_Subset
  <2> QED
    BY <1>1, <1>2, <2>1, SumsAgree
<1> QED
  BY <1>3, <1>4

IntegerAmounts(rows) == \A x \in rows : x.amount \in Int

LEMMA AmountsInt ==
    ASSUME NEW S, IsFiniteSet(S), IntegerAmounts(S)
    PROVE  AmountsOf(S) \in Int
<1> DEFINE B == {T \in SUBSET S : AmountsOf(T) \notin Int}
<1> SUFFICES ASSUME B # {} PROVE FALSE
  OBVIOUS
<1>1. PICK T \in B : \A U \in B : U \subseteq T => U = T
  <2>1. B \in SUBSET (SUBSET S)
    OBVIOUS
  <2> HIDE DEF B
  <2> QED
    BY <2>1, SmallestSubset
<1>2. AmountsOf(T) = IF T = {} THEN 0 ELSE Pick(T).amount + AmountsOf(T \ {Pick(T)})
  <2>1. IsFiniteSet(T)
    BY FS_Subset
  <2> QED
    BY <2>1, AmountsUnfold
<1>3. T # {} => Pick(T).amount \in Int /\ AmountsOf(T \ {Pick(T)}) \in Int
  BY <1>1, PickIn DEF IntegerAmounts
<1> QED
  BY <1>2, <1>3

(* Any row may be taken out first.                                         *)
LEMMA AmountsRemove ==
    ASSUME NEW S, IsFiniteSet(S), IntegerAmounts(S), NEW x \in S
    PROVE  AmountsOf(S) = x.amount + AmountsOf(S \ {x})
<1> DEFINE B == {T \in SUBSET S : \E y \in T : AmountsOf(T) # y.amount + AmountsOf(T \ {y})}
<1> SUFFICES ASSUME B # {} PROVE FALSE
  OBVIOUS
<1>1. PICK T \in B : \A U \in B : U \subseteq T => U = T
  <2>1. B \in SUBSET (SUBSET S)
    OBVIOUS
  <2> HIDE DEF B
  <2> QED
    BY <2>1, SmallestSubset
<1>2. PICK y \in T : AmountsOf(T) # y.amount + AmountsOf(T \ {y})
  OBVIOUS
<1>3. ASSUME NEW U \in SUBSET T, U # T, NEW z \in U
      PROVE  AmountsOf(U) = z.amount + AmountsOf(U \ {z})
  BY <1>1, <1>3
<1>4. T \subseteq S /\ IsFiniteSet(T)
  BY FS_Subset
<1> DEFINE p == Pick(T)
<1> HIDE DEF B
<1>5. p \in T
  BY <1>2, PickIn
<1>6. AmountsOf(T) = p.amount + AmountsOf(T \ {p})
  BY <1>2, <1>4, AmountsUnfold
<1> HIDE DEF p
<1>7. p # y
  BY <1>2, <1>6
<1>8. AmountsOf(T \ {p}) = y.amount + AmountsOf((T \ {p}) \ {y})
  <2>1. T \ {p} \in SUBSET T /\ T \ {p} # T /\ y \in T \ {p}
    BY <1>5, <1>7
  <2> QED
    BY <1>3, <2>1
<1>9. AmountsOf(T \ {y}) = p.amount + AmountsOf((T \ {p}) \ {y})
  <2>1. T \ {y} \in SUBSET T /\ T \ {y} # T /\ p \in T \ {y}
    BY <1>5, <1>7
  <2>2. (T \ {y}) \ {p} = (T \ {p}) \ {y}
    OBVIOUS
  <2> QED
    BY <1>3, <2>1, <2>2
<1>10. p.amount \in Int /\ y.amount \in Int /\ AmountsOf((T \ {p}) \ {y}) \in Int
  <2>1. IsFiniteSet((T \ {p}) \ {y})
    BY <1>4, FS_Subset
  <2> QED
    BY <1>4, <1>5, <2>1, AmountsInt DEF IntegerAmounts
<1> QED
  BY <1>2, <1>6, <1>8, <1>9, <1>10

(* No row amounts to nothing: an account without history keeps what its   *)
(* row was created with.                                                   *)
LEMMA AmountsOfNone == AmountsOf({}) = 0
BY AmountsUnfold, FS_EmptySet

(* One row more, the one CreateTransaction inserts                         *)
(* (transaction_repository.go), amounts to its amount more, whatever the   *)
(* rows already there.                                                     *)
LEMMA AmountsOfOneMore ==
    ASSUME NEW S, IsFiniteSet(S), IntegerAmounts(S), NEW x, x \notin S, x.amount \in Int
    PROVE  AmountsOf(S \cup {x}) = AmountsOf(S) + x.amount
<1>1. IsFiniteSet(S \cup {x})
  BY FS_AddElement
<1>2. AmountsOf(S \cup {x}) = x.amount + AmountsOf((S \cup {x}) \ {x})
  BY <1>1, AmountsRemove DEF IntegerAmounts
<1>3. AmountsOf((S \cup {x}) \ {x}) = AmountsOf(S)
  <2>1. (S \cup {x}) \ {x} = S
    OBVIOUS
  <2> QED
    BY <2>1, Zenon
<1>4. AmountsOf(S) \in Int
  BY AmountsInt
<1> QED
  BY <1>2, <1>3, <1>4
=============================================================================
