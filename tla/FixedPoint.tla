----------------------------- MODULE FixedPoint -----------------------------
(***************************************************************************)
(* The two operators of the crate soroban_fixed_point_math the contract    *)
(* uses, on the non-negative operands it gives them.  Both multiply in     *)
(* i128 with checked_mul, whose None the callers unwrap: a product that    *)
(* does not fit aborts the transaction, so every action that multiplies    *)
(* has the corresponding MulFits among its guards.                         *)
(***************************************************************************)
EXTENDS Integers

CONSTANT MaxI128        \* the greatest i128; a run may choose a small one

ASSUME MaxI128Assumption == MaxI128 \in Nat \ {0}

Fits(n) == n <= MaxI128

MulFits(x, y) == Fits(x * y)

FixedMulFloor(x, y, z) == (x * y) \div z

FixedMulCeil(x, y, z) == (x * y + z - 1) \div z
=============================================================================
