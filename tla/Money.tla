------------------------------- MODULE Money -------------------------------
(***************************************************************************)
(* Amounts of money as the program and its database hold them.             *)
(*                                                                         *)
(* A request carries its amount as a JSON number decoded into a float64    *)
(* and validated only to be greater than zero, so it may have a fraction   *)
(* of a cent.  The columns balance and amount are NUMERIC(15, 2):          *)
(* PostgreSQL rounds what it stores to whole cents, a half away from zero. *)
(*                                                                         *)
(* Money is an integer number of quarter cents, the coarsest grid that     *)
(* holds an amount of every rounding class: exact, rounded down, a half,   *)
(* rounded up.                                                             *)
(***************************************************************************)
EXTENDS Integers

CONSTANT MaxBalance  \* the largest value of a NUMERIC(15, 2) column, in units

Cent == 4            \* units in one cent

IsWholeCents(x) == x % Cent = 0

IsHalfCent(x) == x % Cent = 2

(* Mutant: a column that drops the digits after the second decimal.        *)
ToCentsTruncating(x) == (x \div Cent) * Cent

(* What a NUMERIC(15, 2) column holds after the decimal x >= 0 is stored.  *)
ToCents(x) == ((x + 2) \div Cent) * Cent

(* What the column may hold after the float64 sum or difference x of a     *)
(* balance and an amount is stored.  The float64 result is the double next *)
(* to x, a few units in the last place from it at most: it is rounded like *)
(* x, except that next to a half it may fall on either side.               *)
StoredFloat(x) == IF IsHalfCent(x) THEN {x - 2, x + 2} ELSE {ToCents(x)}

(* Whether the decimal x can be stored at all: NUMERIC overflow is an error. *)
Fits(x) == ToCents(x) =< MaxBalance

ASSUME MaxBalanceAssumption == MaxBalance \in Nat /\ IsWholeCents(MaxBalance)
=============================================================================
