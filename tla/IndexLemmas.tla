----------------------------- MODULE IndexLemmas ----------------------------
(***************************************************************************)
(* Facts about the fixed-point operators and the index pipeline, for every *)
(* scale, rate and stretch of time: everything stays a natural number, the *)
(* growth factor is at least one, and the index does not fall over time.   *)
(* And how long it can be left alone before a product leaves i128.         *)
(***************************************************************************)
EXTENDS ContinuousIndex, TLAPS

-----------------------------------------------------------------------------
(* Arithmetic.                                                             *)

\* Products of naturals are naturals and grow with each factor.
LEMMA ProductMonotone ==
    ASSUME NEW a \in Nat, NEW b \in Nat, NEW c \in Nat, NEW d \in Nat,
           a <= c, b <= d
    PROVE  /\ a * b \in Nat
           /\ a * b <= c * d
<1>1. a * b \in Nat /\ a * d \in Nat /\ c * d \in Nat
  OBVIOUS
<1>2. a * b <= a * d
  OBVIOUS
<1>3. a * d <= c * d
  OBVIOUS
<1> QED
  BY <1>1, <1>2, <1>3

\* The quotient of a natural number, and its place between two multiples.
LEMMA Quotient ==
    ASSUME NEW a \in Nat, NEW b \in Nat \ {0}
    PROVE  /\ a \div b \in Nat
           /\ b * (a \div b) <= a
           /\ a < b * (a \div b) + b
  OBVIOUS

\* Division by the same divisor keeps the order.
LEMMA QuotientMonotone ==
    ASSUME NEW a \in Nat, NEW c \in Nat, NEW b \in Nat \ {0}, a <= c
    PROVE  a \div b <= c \div b
  OBVIOUS

-----------------------------------------------------------------------------
(* fixed_mul_floor and fixed_mul_ceil.                                     *)

\* The floored product is the greatest natural q with q * z <= x * y.
LEMMA FloorFacts ==
    ASSUME NEW x \in Nat, NEW y \in Nat, NEW z \in Nat \ {0}
    PROVE  /\ FixedMulFloor(x, y, z) \in Nat
           /\ FixedMulFloor(x, y, z) * z <= x * y
           /\ x * y < FixedMulFloor(x, y, z) * z + z
<1>1. x * y \in Nat
  BY ProductMonotone
<1> QED
  BY <1>1, Quotient DEF FixedMulFloor

\* The ceiled product is the least natural q with q * z >= x * y.
LEMMA CeilFacts ==
    ASSUME NEW x \in Nat, NEW y \in Nat, NEW z \in Nat \ {0}
    PROVE  /\ FixedMulCeil(x, y, z) \in Nat
           /\ x * y <= FixedMulCeil(x, y, z) * z
           /\ FixedMulCeil(x, y, z) * z < x * y + z
<1> DEFINE p == x * y
<1>1. p \in Nat
  BY ProductMonotone
<1>2. p + z - 1 \in Nat
  BY <1>1
<1>3. (p + z - 1) \div z \in Nat
      /\ z * ((p + z - 1) \div z) <= p + z - 1
      /\ p + z - 1 < z * ((p + z - 1) \div z) + z
  BY <1>2, Quotient
<1> HIDE DEF p
<1>4. FixedMulCeil(x, y, z) = (p + z - 1) \div z
  BY DEF FixedMulCeil, p
<1>5. \A q \in Nat : z * q = q * z
  OBVIOUS
<1>6. /\ p <= ((p + z - 1) \div z) * z
      /\ ((p + z - 1) \div z) * z < p + z
  BY <1>1, <1>3, <1>5
<1> QED
  BY <1>3, <1>4, <1>6 DEF p

\* The floored product grows with both factors.
LEMMA FloorMonotone ==
    ASSUME NEW a \in Nat, NEW b \in Nat, NEW c \in Nat, NEW d \in Nat,
           NEW z \in Nat \ {0}, a <= c, b <= d
    PROVE  FixedMulFloor(a, b, z) <= FixedMulFloor(c, d, z)
<1>1. a * b \in Nat /\ c * d \in Nat /\ a * b <= c * d
  BY ProductMonotone
<1> QED
  BY <1>1, QuotientMonotone DEF FixedMulFloor

-----------------------------------------------------------------------------
(* exponent.                                                               *)

\* The terms of the series are naturals and grow with the exponent.
LEMMA TermsMonotone ==
    ASSUME NEW x \in Nat, NEW y \in Nat, x <= y
    PROVE  /\ SecondTerm(x) \in Nat /\ SecondTerm(x) <= SecondTerm(y)
           /\ ThirdTerm(x) \in Nat  /\ ThirdTerm(x) <= ThirdTerm(y)
           /\ FourthTerm(x) \in Nat /\ FourthTerm(x) <= FourthTerm(y)
<1>0. /\ 2 * IndexScale \in Nat \ {0}
      /\ 3 * IndexScale \in Nat \ {0}
      /\ 4 * IndexScale \in Nat \ {0}
  BY ScaleAssumption
<1>1. /\ SecondTerm(x) \in Nat /\ SecondTerm(y) \in Nat
      /\ SecondTerm(x) <= SecondTerm(y)
  BY <1>0, FloorFacts, FloorMonotone DEF SecondTerm
<1>2. /\ ThirdTerm(x) \in Nat /\ ThirdTerm(y) \in Nat
      /\ ThirdTerm(x) <= ThirdTerm(y)
  BY <1>0, <1>1, FloorFacts, FloorMonotone DEF ThirdTerm
<1>3. FourthTerm(x) \in Nat /\ FourthTerm(x) <= FourthTerm(y)
  BY <1>0, <1>2, FloorFacts, FloorMonotone DEF FourthTerm
<1> QED
  BY <1>1, <1>2, <1>3

(* The growth factor is at least one and does not fall when the exponent   *)
(* rises: exponent() of continuous_index.rs, early return included.        *)
LEMMA ExponentMonotone ==
    ASSUME NEW x \in Nat, NEW y \in Nat, x <= y
    PROVE  /\ Exponent(x) \in Nat
           /\ IndexScale <= Exponent(x)
           /\ Exponent(x) <= Exponent(y)
<1>1. IndexScale \in Nat
  BY ScaleAssumption
<1>2. /\ SecondTerm(x) \in Nat /\ SecondTerm(x) <= SecondTerm(y)
      /\ ThirdTerm(x) \in Nat  /\ ThirdTerm(x) <= ThirdTerm(y)
      /\ FourthTerm(x) \in Nat /\ FourthTerm(x) <= FourthTerm(y)
  BY TermsMonotone
<1>3. SecondTerm(y) \in Nat /\ ThirdTerm(y) \in Nat /\ FourthTerm(y) \in Nat
  BY TermsMonotone
<1> QED
  BY <1>1, <1>2, <1>3 DEF Exponent

-----------------------------------------------------------------------------
(* current_index.                                                          *)

\* The exponent of a rate over a time is a natural that grows with time.
LEMMA ScaledExponentMonotone ==
    ASSUME NEW rate \in Nat, NEW s \in Nat, NEW t \in Nat, s <= t
    PROVE  /\ ScaledExponent(ConvertFromBasisPoints(rate), s) \in Nat
           /\ ScaledExponent(ConvertFromBasisPoints(rate), s)
                <= ScaledExponent(ConvertFromBasisPoints(rate), t)
<1> DEFINE r == ConvertFromBasisPoints(rate)
<1>1. r \in Nat
  <2>1. rate * RateScale \in Nat
    BY ScaleAssumption, ProductMonotone
  <2> QED
    BY <2>1, Quotient, ScaleAssumption DEF ConvertFromBasisPoints
<1> HIDE DEF r
<1>2. r * s \in Nat /\ r * t \in Nat /\ r * s <= r * t
  BY <1>1, ProductMonotone
<1>3. ScaledExponent(r, s) \in Nat /\ ScaledExponent(r, s) <= ScaledExponent(r, t)
  BY <1>2, Quotient, QuotientMonotone, ScaleAssumption DEF ScaledExponent
<1> QED
  BY <1>3 DEF r

\* No time, no growth.
LEMMA CurrentIndexAtOnce ==
    ASSUME NEW index, NEW rate
    PROVE  CurrentIndex(index, rate, 0) = index
  BY DEF CurrentIndex

\* Growth by a factor of at least one does not lower an index.
LEMMA MultiplyIndices ==
    ASSUME NEW i \in Nat, NEW d \in Nat, NEW e \in Nat,
           IndexScale <= d, d <= e
    PROVE  /\ MultiplyIndicesDown(i, d) \in Nat
           /\ i <= MultiplyIndicesDown(i, d)
           /\ MultiplyIndicesDown(i, d) <= MultiplyIndicesDown(i, e)
<1>1. IndexScale \in Nat \ {0}
  BY ScaleAssumption
<1>2. MultiplyIndicesDown(i, d) \in Nat
      /\ MultiplyIndicesDown(i, d) <= MultiplyIndicesDown(i, e)
  BY <1>1, FloorFacts, FloorMonotone DEF MultiplyIndicesDown
<1>3. FixedMulFloor(i, IndexScale, IndexScale) = i
  BY <1>1 DEF FixedMulFloor
<1>4. i <= MultiplyIndicesDown(i, d)
  BY <1>1, <1>3, FloorMonotone DEF MultiplyIndicesDown
<1> QED
  BY <1>2, <1>4

(* The real-time index is a natural, never below the stored one, and does  *)
(* not fall as time passes: current_index of continuous_index.rs.          *)
THEOREM CurrentIndexMonotone ==
    ASSUME NEW index \in Nat, NEW rate \in Nat, NEW s \in Nat, NEW t \in Nat,
           s <= t
    PROVE  /\ CurrentIndex(index, rate, s) \in Nat
           /\ index <= CurrentIndex(index, rate, s)
           /\ CurrentIndex(index, rate, s) <= CurrentIndex(index, rate, t)
<1> DEFINE r == ConvertFromBasisPoints(rate)
           d(u) == GetContinuousIndex(r, u)
<1>1. IndexScale \in Nat
  BY ScaleAssumption
<1>2. /\ d(s) \in Nat /\ d(t) \in Nat
      /\ IndexScale <= d(s) /\ IndexScale <= d(t)
      /\ d(s) <= d(t)
  <2>1. /\ ScaledExponent(r, s) \in Nat /\ ScaledExponent(r, t) \in Nat
        /\ ScaledExponent(r, s) <= ScaledExponent(r, t)
    <3>1. t <= t
      OBVIOUS
    <3> QED
      BY <3>1, ScaledExponentMonotone, Zenon
  <2> HIDE DEF r
  <2>2. /\ Exponent(ScaledExponent(r, s)) \in Nat
        /\ Exponent(ScaledExponent(r, t)) \in Nat
        /\ IndexScale <= Exponent(ScaledExponent(r, s))
        /\ IndexScale <= Exponent(ScaledExponent(r, t))
        /\ Exponent(ScaledExponent(r, s)) <= Exponent(ScaledExponent(r, t))
    BY <2>1, ExponentMonotone
  <2> QED
    BY <1>1, <2>2 DEF GetContinuousIndex
<1>3. CASE rate = 0
  BY <1>3 DEF CurrentIndex
<1>4. CASE rate # 0
  <2>1. /\ MultiplyIndicesDown(index, d(s)) \in Nat
        /\ index <= MultiplyIndicesDown(index, d(s))
        /\ MultiplyIndicesDown(index, d(s)) <= MultiplyIndicesDown(index, d(t))
        /\ index <= MultiplyIndicesDown(index, d(t))
    BY <1>2, MultiplyIndices
  <2>2. CASE s = 0
    BY <2>1, <2>2 DEF CurrentIndex
  <2>3. CASE s # 0
    BY <1>4, <2>1, <2>3 DEF CurrentIndex
  <2> QED
    BY <2>2, <2>3
<1> QED
  BY <1>3, <1>4

-----------------------------------------------------------------------------
(* What fits i128.                                                         *)

(* The scales leave room above the index.  Those the contract is built     *)
(* with do: the scales are 10^12, a year has 31536000 seconds, the highest *)
(* rate is 5000 of 10000, and 169536000000000 * 10^24 < 2^127.             *)
Roomy ==
    /\ RateScale = IndexScale
    /\ 2 * MaxRateBps <= BpsDenominator
    /\ SecondsPerYear <= IndexScale
    /\ 169536000000000 * (IndexScale * IndexScale) <= MaxI128

\* A number up to d times k, divided by d.
LEMMA QuotientBound ==
    ASSUME NEW n \in Nat, NEW d \in Nat \ {0}, NEW k \in Nat, n <= d * k
    PROVE  n \div d \in Nat /\ n \div d <= k
<1>1. d * k \in Nat /\ (d * k) \div d = k
  OBVIOUS
<1> QED
  BY <1>1, Quotient, QuotientMonotone

\* Products of multiples of the scale.
LEMMA ScaledProduct ==
    ASSUME NEW S \in Nat, NEW j \in Nat, NEW k \in Nat,
           NEW x \in Nat, NEW y \in Nat, x <= j * S, y <= k * S
    PROVE  /\ x * y \in Nat
           /\ x * y <= (j * k) * (S * S)
<1>1. j * S \in Nat /\ k * S \in Nat
  OBVIOUS
<1>2. x * y \in Nat /\ x * y <= (j * S) * (k * S)
  BY <1>1, ProductMonotone
<1>3. (j * S) * (k * S) = (j * k) * (S * S)
  OBVIOUS
<1> QED
  BY <1>2, <1>3

\* The factor for an exponent of at most fifty.
LEMMA ExponentCapacity ==
    ASSUME Roomy, NEW x \in Nat, x <= 50 * IndexScale
    PROVE  /\ ExponentFits(x)
           /\ Exponent(x) \in Nat
           /\ Exponent(x) <= 282560 * IndexScale
<1> DEFINE S == IndexScale
<1>1. S \in Nat \ {0} /\ 2 * S \in Nat \ {0} /\ 3 * S \in Nat \ {0}
      /\ 4 * S \in Nat \ {0} /\ S * S \in Nat
  BY ScaleAssumption
<1>2. MaxI128 \in Nat
  BY MaxI128Assumption
<1>3. x * x \in Nat /\ x * x <= 2500 * (S * S)
  <2>1. x * x \in Nat /\ x * x <= (50 * 50) * (S * S)
    BY <1>1, ScaledProduct
  <2> QED
    BY <2>1
<1>4. SecondTerm(x) \in Nat /\ SecondTerm(x) <= 1250 * S
  <2>1. 1250 * S \in Nat /\ 2500 * (S * S) = (2 * S) * (1250 * S)
    BY <1>1
  <2> QED
    BY <1>1, <1>3, <2>1, QuotientBound DEF SecondTerm, FixedMulFloor
<1>5. SecondTerm(x) * x \in Nat /\ SecondTerm(x) * x <= 62500 * (S * S)
  <2>1. /\ SecondTerm(x) * x \in Nat
        /\ SecondTerm(x) * x <= (1250 * 50) * (S * S)
    BY <1>1, <1>4, ScaledProduct
  <2> QED
    BY <2>1
<1>6. ThirdTerm(x) \in Nat /\ ThirdTerm(x) <= 20834 * S
  <2>1. 20834 * S \in Nat /\ 62502 * (S * S) = (3 * S) * (20834 * S)
    BY <1>1
  <2>2. 62500 * (S * S) <= 62502 * (S * S)
    BY <1>1
  <2> QED
    BY <1>1, <1>5, <2>1, <2>2, QuotientBound DEF ThirdTerm, FixedMulFloor
<1>7. ThirdTerm(x) * x \in Nat /\ ThirdTerm(x) * x <= 1041700 * (S * S)
  <2>1. /\ ThirdTerm(x) * x \in Nat
        /\ ThirdTerm(x) * x <= (20834 * 50) * (S * S)
    BY <1>1, <1>6, ScaledProduct
  <2> QED
    BY <2>1
<1>8. FourthTerm(x) \in Nat /\ FourthTerm(x) <= 260425 * S
  <2>1. 260425 * S \in Nat /\ 1041700 * (S * S) = (4 * S) * (260425 * S)
    BY <1>1
  <2> QED
    BY <1>1, <1>7, <2>1, QuotientBound DEF FourthTerm, FixedMulFloor
<1>9. Exponent(x) \in Nat /\ Exponent(x) <= 282560 * S
  BY <1>1, <1>4, <1>6, <1>8 DEF Exponent
<1>10. \A n \in Nat : n <= 1041700 * (S * S) => Fits(n)
  BY <1>1, <1>2 DEF Fits, Roomy
<1>11. /\ 2500 * (S * S) <= 1041700 * (S * S)
       /\ 62500 * (S * S) <= 1041700 * (S * S)
       /\ 282560 * S <= 1041700 * (S * S)
  <2>1. S <= S * S
    BY <1>1
  <2> QED
    BY <1>1, <2>1
<1> HIDE DEF S
<1>12. /\ MulFits(x, x)
       /\ MulFits(SecondTerm(x), x)
       /\ MulFits(ThirdTerm(x), x)
       /\ Fits(Exponent(x))
  BY <1>1, <1>3, <1>5, <1>7, <1>9, <1>10, <1>11 DEF MulFits
<1> QED
  BY <1>9, <1>12 DEF ExponentFits, S

(* An index of at most six hundred million that nobody updated for up to a *)
(* century, at any rate the contract accepts, can still be updated: no     *)
(* product of current_index leaves i128, so update_index does not panic.   *)
THEOREM IndexCapacity ==
    ASSUME Roomy,
           NEW index \in Nat, index <= 600000000 * IndexScale,
           NEW rate \in Nat, rate <= MaxRateBps,
           NEW elapsed \in Nat, elapsed <= 100 * SecondsPerYear
    PROVE  CurrentIndexFits(index, rate, elapsed)
<1> DEFINE r == ConvertFromBasisPoints(rate)
           S == IndexScale
           Y == SecondsPerYear
<1>1. S \in Nat \ {0} /\ Y \in Nat \ {0} /\ S * S \in Nat
  BY ScaleAssumption
<1>2. r \in Nat /\ 2 * r <= S
  <2>1. rate * S \in Nat /\ BpsDenominator \in Nat \ {0} /\ MaxRateBps \in Nat
    BY ScaleAssumption, ProductMonotone
  <2>2. r \in Nat /\ BpsDenominator * r <= rate * S
    BY <2>1, Quotient DEF ConvertFromBasisPoints, Roomy
  <2> HIDE DEF r, S
  <2>3. 2 * rate <= BpsDenominator
    BY <2>1 DEF Roomy
  <2>4. (2 * rate) * S <= BpsDenominator * S
    BY <1>1, <2>1, <2>3
  <2>5. BpsDenominator * (2 * r) <= BpsDenominator * S
    BY <1>1, <2>1, <2>2, <2>4
  <2>6. 2 * r <= S
    BY <1>1, <2>1, <2>2, <2>5
  <2> QED
    BY <2>2, <2>6
<1> HIDE DEF r
<1>3. r * elapsed \in Nat /\ r * elapsed <= Y * (50 * S)
  <2>1. r * elapsed \in Nat /\ r * elapsed <= r * (100 * Y)
    BY <1>1, <1>2, ProductMonotone
  <2>2. r * (100 * Y) = (2 * r) * (50 * Y)
    BY <1>1, <1>2
  <2>3. (2 * r) * (50 * Y) <= S * (50 * Y)
    BY <1>1, <1>2, ProductMonotone
  <2>4. S * (50 * Y) = Y * (50 * S)
    BY <1>1
  <2> QED
    BY <1>1, <1>2, <2>1, <2>2, <2>3, <2>4
<1>4. /\ ScaledExponent(r, elapsed) \in Nat
      /\ ScaledExponent(r, elapsed) <= 50 * S
  BY <1>1, <1>3, QuotientBound DEF ScaledExponent
<1>5. /\ ExponentFits(ScaledExponent(r, elapsed))
      /\ Exponent(ScaledExponent(r, elapsed)) \in Nat
      /\ Exponent(ScaledExponent(r, elapsed)) <= 282560 * S
  BY <1>4, ExponentCapacity
<1>6. /\ GetContinuousIndex(r, elapsed) \in Nat
      /\ GetContinuousIndex(r, elapsed) <= 282560 * S
  BY <1>1, <1>5 DEF GetContinuousIndex
<1>7. /\ index * GetContinuousIndex(r, elapsed) \in Nat
      /\ index * GetContinuousIndex(r, elapsed) <= 169536000000000 * (S * S)
  <2>1. /\ index * GetContinuousIndex(r, elapsed) \in Nat
        /\ index * GetContinuousIndex(r, elapsed)
               <= (600000000 * 282560) * (S * S)
    BY <1>1, <1>6, ScaledProduct
  <2> QED
    BY <2>1
<1>8. \A n \in Nat : n <= 169536000000000 * (S * S) => Fits(n)
  BY <1>1, MaxI128Assumption DEF Fits, Roomy
<1>9. Y * (50 * S) <= 169536000000000 * (S * S)
  <2>1. Y <= S
    BY DEF Roomy
  <2>2. Y * (50 * S) <= S * (50 * S)
    BY <1>1, <2>1, ProductMonotone
  <2>3. S * (50 * S) = 50 * (S * S)
    BY <1>1
  <2> QED
    BY <1>1, <2>2, <2>3
<1>10. /\ MulFits(r, elapsed)
       /\ MulFits(index, GetContinuousIndex(r, elapsed))
  BY <1>1, <1>3, <1>7, <1>8, <1>9 DEF MulFits
<1> QED
  BY <1>5, <1>10 DEF CurrentIndexFits, r
=============================================================================
