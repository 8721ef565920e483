-------------------------- MODULE ContinuousIndex ---------------------------
(***************************************************************************)
(* continuous_index.rs: the growth of the index over a stretch of ledger   *)
(* time, in fixed-point integers.  The growth factor is the Taylor         *)
(* polynomial of degree four of e^x, every division rounding down.         *)
(*                                                                         *)
(* Each operator Op that multiplies has a companion OpFits: no product or  *)
(* sum it forms leaves i128, so the Rust function returns and does not     *)
(* panic.                                                                  *)
(***************************************************************************)
EXTENDS FixedPoint

CONSTANTS IndexScale,       \* INDEX_SCALE, the fixed-point one of an index
          RateScale,        \* RATE_SCALE, the fixed-point one of a rate
          SecondsPerYear,   \* SECONDS_PER_YEAR
          BpsDenominator,   \* basis points in one: 10_000
          MaxRateBps        \* MAX_RATE_BPS

ASSUME ScaleAssumption ==
    /\ IndexScale \in Nat \ {0}
    /\ RateScale \in Nat \ {0}
    /\ SecondsPerYear \in Nat \ {0}
    /\ BpsDenominator \in Nat \ {0}
    /\ MaxRateBps \in Nat
    /\ Fits(IndexScale)

ConvertFromBasisPoints(bps) == (bps * RateScale) \div BpsDenominator

-----------------------------------------------------------------------------
(* exponent(x): 1 + x + x^2/2 + x^3/6 + x^4/24, each term from the last.   *)

SecondTerm(x) == FixedMulFloor(x, x, 2 * IndexScale)
ThirdTerm(x)  == FixedMulFloor(SecondTerm(x), x, 3 * IndexScale)
FourthTerm(x) == FixedMulFloor(ThirdTerm(x), x, 4 * IndexScale)

Exponent(x) ==
    IF x = 0 THEN IndexScale
    ELSE IndexScale + x + SecondTerm(x) + ThirdTerm(x) + FourthTerm(x)

ExponentFits(x) ==
    /\ MulFits(x, x)
    /\ MulFits(SecondTerm(x), x)
    /\ MulFits(ThirdTerm(x), x)
    /\ Fits(Exponent(x))

-----------------------------------------------------------------------------
ScaledExponent(yearlyRate, elapsed) == (yearlyRate * elapsed) \div SecondsPerYear

GetContinuousIndex(yearlyRate, elapsed) ==
    IF yearlyRate = 0 \/ elapsed = 0
    THEN IndexScale
    ELSE Exponent(ScaledExponent(yearlyRate, elapsed))

MultiplyIndicesDown(index, deltaIndex) ==
    FixedMulFloor(index, deltaIndex, IndexScale)

CurrentIndex(index, rate, elapsed) ==
    IF rate = 0 \/ elapsed = 0
    THEN index
    ELSE MultiplyIndicesDown(
             index, GetContinuousIndex(ConvertFromBasisPoints(rate), elapsed))

CurrentIndexFits(index, rate, elapsed) ==
    LET yearlyRate == ConvertFromBasisPoints(rate)
    IN  rate # 0 /\ elapsed # 0 =>
            /\ MulFits(yearlyRate, elapsed)
            /\ ExponentFits(ScaledExponent(yearlyRate, elapsed))
            /\ MulFits(index, GetContinuousIndex(yearlyRate, elapsed))
=============================================================================
