---------------------------- MODULE GatewayProofs ---------------------------
(***************************************************************************)
(* Theorems about the minter gateway, for every scale, rate, amount, set   *)
(* of holders and of operators, and any length of time.                    *)
(*                                                                         *)
(* The argument: TypeOK is inductive (TypeInvariant).  From it, every step *)
(* of the specification is one of four kinds of step on the yield state    *)
(* (StepEffect): ledger time accrues yield, tokens are exchanged for       *)
(* principal at the current index, yield is paid, or nothing changes.  The *)
(* remaining theorems look at the four kinds only.                         *)
(***************************************************************************)
EXTENDS GatewayProperties, IndexLemmas

USE MaxI128Assumption, ScaleAssumption, TimeAssumption, AssetAssumption,
    InputAssumption

-----------------------------------------------------------------------------
(* The index.                                                              *)

\* The real-time index is a natural, at least the stored one, and does not
\* fall over time.
LEMMA IndexAtFacts ==
    ASSUME YieldTypeOK, NEW s \in Nat, NEW t \in Nat, s <= t
    PROVE  /\ IndexAt(s) \in Nat
           /\ latestIndex <= IndexAt(s)
           /\ IndexAt(s) <= IndexAt(t)
<1>1. latestIndex \in Nat /\ rateBps \in Nat /\ lastUpdateTimestamp \in Nat
  BY DEF YieldTypeOK
<1>2. CASE t <= lastUpdateTimestamp
  BY <1>1, <1>2 DEF IndexAt
<1>3. CASE s <= lastUpdateTimestamp /\ lastUpdateTimestamp < t
  <2>1. t - lastUpdateTimestamp \in Nat
    BY <1>1, <1>3
  <2>2. latestIndex <= CurrentIndex(latestIndex, rateBps, t - lastUpdateTimestamp)
    BY <1>1, <2>1, CurrentIndexMonotone
  <2> QED
    BY <1>1, <1>3, <2>2 DEF IndexAt
<1>4. CASE lastUpdateTimestamp < s
  <2> DEFINE a == s - lastUpdateTimestamp
             b == t - lastUpdateTimestamp
  <2>1. a \in Nat /\ b \in Nat /\ a <= b
    BY <1>1, <1>4
  <2>2. ~(s <= lastUpdateTimestamp) /\ ~(t <= lastUpdateTimestamp)
    BY <1>1, <1>4
  <2> HIDE DEF a, b
  <2>3. /\ CurrentIndex(latestIndex, rateBps, a) \in Nat
        /\ latestIndex <= CurrentIndex(latestIndex, rateBps, a)
        /\ CurrentIndex(latestIndex, rateBps, a)
             <= CurrentIndex(latestIndex, rateBps, b)
    BY <1>1, <2>1, CurrentIndexMonotone
  <2> QED
    BY <2>2, <2>3 DEF IndexAt, a, b
<1> QED
  BY <1>1, <1>2, <1>3, <1>4

\* An index that fits i128 after CurrentIndexFits.
LEMMA CurrentIndexBounded ==
    ASSUME NEW index \in IndexScale..MaxI128, NEW rate \in Nat, NEW e \in Nat,
           CurrentIndexFits(index, rate, e)
    PROVE  CurrentIndex(index, rate, e) \in IndexScale..MaxI128
<1> DEFINE d == GetContinuousIndex(ConvertFromBasisPoints(rate), e)
<1>0. e <= e /\ index \in Nat
  OBVIOUS
<1>1. /\ CurrentIndex(index, rate, e) \in Nat
      /\ index <= CurrentIndex(index, rate, e)
  BY <1>0, CurrentIndexMonotone
<1>2. CASE rate = 0 \/ e = 0
  BY <1>2 DEF CurrentIndex
<1>3. CASE rate # 0 /\ e # 0
  <2>1. CurrentIndex(index, rate, e) = FixedMulFloor(index, d, IndexScale)
    BY <1>3 DEF CurrentIndex, MultiplyIndicesDown
  <2>2. index * d <= MaxI128
    BY <1>3 DEF CurrentIndexFits, MulFits, Fits
  <2>3. d \in Nat
    <3>1. ScaledExponent(ConvertFromBasisPoints(rate), e) \in Nat
      BY <1>0, ScaledExponentMonotone, Zenon
    <3>2. Exponent(ScaledExponent(ConvertFromBasisPoints(rate), e)) \in Nat
      BY <3>1, ExponentMonotone
    <3> QED
      BY <3>2 DEF GetContinuousIndex
  <2> HIDE DEF d
  <2>4. /\ FixedMulFloor(index, d, IndexScale) \in Nat
        /\ FixedMulFloor(index, d, IndexScale) * IndexScale <= index * d
    BY <1>0, <2>3, FloorFacts
  <2>5. ASSUME NEW q \in Nat
        PROVE  q <= q * IndexScale
    <3>1. q * 1 <= q * IndexScale
      BY ProductMonotone
    <3> QED
      BY <3>1
  <2>6. FixedMulFloor(index, d, IndexScale) * IndexScale \in Nat
        /\ index * d \in Nat
    BY <1>0, <2>3, <2>4, ProductMonotone
  <2>7. FixedMulFloor(index, d, IndexScale) <= MaxI128
    BY <2>2, <2>4, <2>5, <2>6
  <2> QED
    BY <1>1, <2>1, <2>7
<1> QED
  BY <1>2, <1>3

(* update_index stores the real-time index and leaves it where it was.     *)
LEMMA UpdateIndexFacts ==
    ASSUME YieldTypeOK, UpdateIndex, now' = now
    PROVE  /\ latestIndex' = GetCurrentIndex
           /\ latestIndex' \in IndexScale..MaxI128
           /\ lastUpdateTimestamp' = now
           /\ GetCurrentIndex' = GetCurrentIndex
<1>1. /\ now \in Nat /\ lastUpdateTimestamp \in 0..now
      /\ latestIndex \in IndexScale..MaxI128 /\ rateBps \in Nat
  BY DEF YieldTypeOK
<1>2. CASE now <= lastUpdateTimestamp
  BY <1>1, <1>2 DEF UpdateIndex, indexVars, GetCurrentIndex, IndexAt
<1>3. CASE now > lastUpdateTimestamp
  <2> DEFINE e == now - lastUpdateTimestamp
  <2>1. /\ CurrentIndexFits(latestIndex, rateBps, e)
        /\ latestIndex' = CurrentIndex(latestIndex, rateBps, e)
        /\ lastUpdateTimestamp' = now
    BY <1>1, <1>3 DEF UpdateIndex
  <2>2. e \in Nat
    BY <1>1, <1>3
  <2>3. latestIndex' \in IndexScale..MaxI128
    <3> HIDE DEF e
    <3> QED
      BY <1>1, <2>1, <2>2, CurrentIndexBounded
  <2>4. latestIndex' = GetCurrentIndex
    BY <1>1, <1>3, <2>1 DEF GetCurrentIndex, IndexAt
  <2>5. GetCurrentIndex' = latestIndex'
    BY <1>1, <2>1 DEF GetCurrentIndex, IndexAt
  <2> QED
    BY <2>1, <2>3, <2>4, <2>5
<1> QED
  BY <1>1, <1>2, <1>3

-----------------------------------------------------------------------------
(* The functions on the accumulators.                                      *)

\* increase_both_accumulators: at most as much worth as tokens, and less by
\* under one unit of principal.
LEMMA IncreaseBothFacts ==
    ASSUME YieldTypeOK, latestIndex' \in IndexScale..MaxI128,
           NEW amount \in Nat, IncreaseBothAccumulators(amount)
    PROVE  /\ totalPrincipal' \in 0..MaxI128
           /\ totalSupply' \in 0..MaxI128
           /\ conversions' = conversions + 1
           /\ \E pv \in Nat : /\ totalPrincipal' = totalPrincipal + pv
                             /\ totalSupply' = totalSupply + amount
                             /\ pv * latestIndex' <= amount * IndexScale
                             /\ amount * IndexScale
                                  < pv * latestIndex' + latestIndex'
<1> DEFINE pv == FixedMulFloor(amount, IndexScale, latestIndex')
<1>1. latestIndex' \in Nat \ {0} /\ IndexScale \in Nat
  OBVIOUS
<1>2. /\ pv \in Nat
      /\ pv * latestIndex' <= amount * IndexScale
      /\ amount * IndexScale < pv * latestIndex' + latestIndex'
  BY <1>1, FloorFacts
<1>3. /\ totalPrincipal' = totalPrincipal + pv
      /\ totalSupply' = totalSupply + amount
      /\ conversions' = conversions + 1
      /\ totalPrincipal + pv <= MaxI128
      /\ totalSupply + amount <= MaxI128
  BY DEF IncreaseBothAccumulators, Fits
<1> HIDE DEF pv
<1>4. totalPrincipal \in Nat /\ totalSupply \in Nat
  BY DEF YieldTypeOK
<1>5. totalPrincipal' \in 0..MaxI128 /\ totalSupply' \in 0..MaxI128
  BY <1>2, <1>3, <1>4
<1>6. \E q \in Nat : /\ totalPrincipal' = totalPrincipal + q
                    /\ totalSupply' = totalSupply + amount
                    /\ q * latestIndex' <= amount * IndexScale
                    /\ amount * IndexScale < q * latestIndex' + latestIndex'
  BY <1>2, <1>3, Zenon
<1> QED
  BY <1>3, <1>5, <1>6, Zenon

\* decrease_both_accumulators: at least as much worth as tokens, and more by
\* under one unit of principal; neither accumulator goes below zero.
LEMMA DecreaseBothFacts ==
    ASSUME YieldTypeOK, latestIndex' \in IndexScale..MaxI128,
           NEW amount \in Nat, DecreaseBothAccumulators(amount)
    PROVE  /\ totalPrincipal' \in 0..MaxI128
           /\ totalSupply' \in 0..MaxI128
           /\ conversions' = conversions + 1
           /\ \E pv \in Nat : /\ totalPrincipal' = totalPrincipal - pv
                             /\ totalSupply' = totalSupply - amount
                             /\ amount * IndexScale <= pv * latestIndex'
                             /\ pv * latestIndex'
                                  < amount * IndexScale + latestIndex'
<1> DEFINE pv == FixedMulCeil(amount, IndexScale, latestIndex')
<1>1. latestIndex' \in Nat \ {0} /\ IndexScale \in Nat
  OBVIOUS
<1>2. /\ pv \in Nat
      /\ amount * IndexScale <= pv * latestIndex'
      /\ pv * latestIndex' < amount * IndexScale + latestIndex'
  BY <1>1, CeilFacts
<1>3. /\ totalPrincipal' = totalPrincipal - pv
      /\ totalSupply' = totalSupply - amount
      /\ conversions' = conversions + 1
      /\ pv <= totalPrincipal
      /\ amount <= totalSupply
  BY DEF DecreaseBothAccumulators
<1> HIDE DEF pv
<1>4. totalPrincipal \in 0..MaxI128 /\ totalSupply \in 0..MaxI128
  BY DEF YieldTypeOK
<1>5. totalPrincipal' \in 0..MaxI128 /\ totalSupply' \in 0..MaxI128
  BY <1>2, <1>3, <1>4
<1>6. \E q \in Nat : /\ totalPrincipal' = totalPrincipal - q
                    /\ totalSupply' = totalSupply - amount
                    /\ amount * IndexScale <= q * latestIndex'
                    /\ q * latestIndex' < amount * IndexScale + latestIndex'
  BY <1>2, <1>3, Zenon
<1> QED
  BY <1>3, <1>5, <1>6, Zenon

\* The yield is what the principal is worth beyond the supply, rounded down.
LEMMA YieldAtFacts ==
    ASSUME NEW principal \in Nat, NEW index \in Nat, NEW supply \in Nat
    PROVE  /\ YieldAt(principal, index, supply) \in Nat
           /\ FixedMulFloor(principal, index, IndexScale) \in Nat
           /\ YieldAt(principal, index, supply)
                >= FixedMulFloor(principal, index, IndexScale) - supply
           /\ YieldAt(principal, index, supply) > 0
                => YieldAt(principal, index, supply)
                     = FixedMulFloor(principal, index, IndexScale) - supply
<1>1. FixedMulFloor(principal, index, IndexScale) \in Nat
  BY FloorFacts
<1>2. principal = 0 => FixedMulFloor(principal, index, IndexScale) = 0
  BY DEF FixedMulFloor
<1> QED
  BY <1>1, <1>2 DEF YieldAt

-----------------------------------------------------------------------------
(* The type invariant.                                                     *)

\* What an operation on the asset leaves well-typed.
LEMMA CreditedType ==
    ASSUME NEW bal \in [Holders -> 0..TrustlineLimit], NEW a, NEW amount \in Nat,
           CanReceive(bal, a, amount)
    PROVE  /\ Credited(bal, a, amount) \in [Holders -> 0..TrustlineLimit]
           /\ \A h \in Holders : h # a => Credited(bal, a, amount)[h] = bal[h]
           /\ a \in Holders => trustline[a] = "authorized"
           /\ Absorbed(a, amount) \in Nat
  BY DEF CanReceive, Credited, Authorized, Absorbed

LEMMA DebitedType ==
    ASSUME NEW bal \in [Holders -> 0..TrustlineLimit], NEW h \in Holders,
           NEW amount \in Nat, amount <= bal[h]
    PROVE  /\ Debited(bal, h, amount) \in [Holders -> 0..TrustlineLimit]
           /\ \A g \in Holders : g # h => Debited(bal, h, amount)[g] = bal[g]
           /\ Debited(bal, h, amount)[h] <= bal[h]
  BY DEF Debited

\* TypeOK holds initially: the constructor over default storage.
LEMMA InitType == Init => TypeOK
<1> SUFFICES ASSUME Init PROVE TypeOK
  OBVIOUS
<1> USE DEF Init
<1>1. YieldTypeOK
  BY DEF YieldInit, YieldTypeOK, Fits
<1>2. AssetTypeOK
  BY DEF AssetInit, AssetTypeOK, Trust
<1>3. RolesTypeOK
  BY DEF RolesInit, RolesTypeOK
<1> QED
  BY <1>1, <1>2, <1>3 DEF TypeOK

-----------------------------------------------------------------------------
(* The four kinds of step.                                                 *)

\* Nothing the yield is computed from changes.
Quiet ==
    /\ UNCHANGED <<now, earned, conversions, totalPrincipal, totalSupply>>
    /\ log'.claimed = log.claimed
    /\ GetCurrentIndex' = GetCurrentIndex

\* Ledger time passes: the index grows and the principal earns.
Accrual ==
    /\ now' # now
    /\ UNCHANGED <<conversions, totalPrincipal, totalSupply>>
    /\ log'.claimed = log.claimed
    /\ GetCurrentIndex' >= GetCurrentIndex
    /\ earned' = earned + totalPrincipal * (GetCurrentIndex' - GetCurrentIndex)

\* amount tokens come for pv units of principal, or go.
Issued(pv, amount) ==
    /\ totalPrincipal' = totalPrincipal + pv
    /\ totalSupply' = totalSupply + amount
    /\ pv * GetCurrentIndex <= amount * IndexScale
    /\ amount * IndexScale < pv * GetCurrentIndex + GetCurrentIndex

Retired(pv, amount) ==
    /\ totalPrincipal' = totalPrincipal - pv
    /\ totalSupply' = totalSupply - amount
    /\ amount * IndexScale <= pv * GetCurrentIndex
    /\ pv * GetCurrentIndex < amount * IndexScale + GetCurrentIndex

Exchange ==
    /\ UNCHANGED <<now, earned>>
    /\ log'.claimed = log.claimed
    /\ GetCurrentIndex' = GetCurrentIndex
    /\ conversions' = conversions + 1
    /\ \E pv, amount \in Nat : Issued(pv, amount) \/ Retired(pv, amount)

\* Yield is paid: the supply reaches what the principal is worth.
Payment ==
    /\ UNCHANGED <<now, earned, conversions, totalPrincipal>>
    /\ GetCurrentIndex' = GetCurrentIndex
    /\ totalSupply' > totalSupply
    /\ log'.claimed - log.claimed = totalSupply' - totalSupply
    /\ totalSupply' = FixedMulFloor(totalPrincipal, GetCurrentIndex, IndexScale)

StepKind == Quiet \/ Accrual \/ Exchange \/ Payment

LogType == [minted : Nat, burned : Nat, reconciled : Nat, claimed : Nat]

\* A step that leaves the yield state alone.
LEMMA YieldUntouched ==
    ASSUME YieldTypeOK, UNCHANGED yieldVars, log'.claimed = log.claimed
    PROVE  YieldTypeOK' /\ Quiet
  BY DEF yieldVars, YieldTypeOK, Quiet, GetCurrentIndex, IndexAt

LEMMA AssetUntouched == AssetTypeOK /\ UNCHANGED assetVars => AssetTypeOK'
  BY DEF assetVars, AssetTypeOK

LEMMA RolesUntouched == RolesTypeOK /\ UNCHANGED roleVars => RolesTypeOK'
  BY DEF roleVars, singleRoles, setRoles, RolesTypeOK

-----------------------------------------------------------------------------
(* One lemma per entry point that touches the accumulators.                *)

LEMMA MintStep ==
    ASSUME TypeOK, NEW caller, NEW to \in Accounts, NEW amount \in Amounts,
           Mint(caller, to, amount)
    PROVE  TypeOK' /\ Exchange
<1> USE DEF Mint
<1>1. amount \in Nat
  BY DEF CheckPositiveAmount
<1>2. /\ YieldTypeOK /\ AssetTypeOK /\ RolesTypeOK
      /\ paused \in BOOLEAN /\ log \in LogType
  BY DEF TypeOK, LogType
<1>3. /\ latestIndex' = GetCurrentIndex
      /\ latestIndex' \in IndexScale..MaxI128
      /\ lastUpdateTimestamp' = now
      /\ GetCurrentIndex' = GetCurrentIndex
  BY <1>2, UpdateIndexFacts
<1>4. /\ totalPrincipal' \in 0..MaxI128
      /\ totalSupply' \in 0..MaxI128
      /\ conversions' = conversions + 1
      /\ \E pv \in Nat : /\ totalPrincipal' = totalPrincipal + pv
                        /\ totalSupply' = totalSupply + amount
                        /\ pv * latestIndex' <= amount * IndexScale
                        /\ amount * IndexScale
                             < pv * latestIndex' + latestIndex'
  BY <1>1, <1>2, <1>3, IncreaseBothFacts
<1>5. YieldTypeOK'
  BY <1>2, <1>3, <1>4 DEF YieldTypeOK
<1>6. AssetTypeOK'
  <2>1. /\ balance' \in [Holders -> 0..TrustlineLimit]
        /\ \A h \in Holders : h # to => balance'[h] = balance[h]
        /\ to \in Holders => trustline[to] = "authorized"
        /\ destroyed' \in Nat
    BY <1>1, <1>2, CreditedType DEF SacMint, AssetTypeOK
  <2> QED
    BY <1>2, <2>1 DEF AssetTypeOK
<1>7. RolesTypeOK'
  BY <1>2, RolesUntouched
<1>8. paused' \in BOOLEAN /\ log' \in LogType /\ log'.claimed = log.claimed
  BY <1>1, <1>2 DEF LogType
<1>9. Exchange
  <2>1. PICK pv \in Nat : Issued(pv, amount)
    BY <1>3, <1>4, Zenon DEF Issued
  <2> QED
    BY <1>1, <1>3, <1>4, <1>8, <2>1 DEF Exchange
<1> QED
  BY <1>5, <1>6, <1>7, <1>8, <1>9 DEF TypeOK, LogType

LEMMA BurnStep ==
    ASSUME TypeOK, NEW caller, NEW from \in Holders, NEW amount \in Amounts,
           Burn(caller, from, amount)
    PROVE  TypeOK' /\ Exchange
<1> USE DEF Burn
<1>1. amount \in Nat
  BY DEF CheckPositiveAmount
<1>2. /\ YieldTypeOK /\ AssetTypeOK /\ RolesTypeOK
      /\ paused \in BOOLEAN /\ log \in LogType
  BY DEF TypeOK, LogType
<1>3. /\ latestIndex' = GetCurrentIndex
      /\ latestIndex' \in IndexScale..MaxI128
      /\ lastUpdateTimestamp' = now
      /\ GetCurrentIndex' = GetCurrentIndex
  BY <1>2, UpdateIndexFacts
<1>4. /\ totalPrincipal' \in 0..MaxI128
      /\ totalSupply' \in 0..MaxI128
      /\ conversions' = conversions + 1
      /\ \E pv \in Nat : /\ totalPrincipal' = totalPrincipal - pv
                        /\ totalSupply' = totalSupply - amount
                        /\ amount * IndexScale <= pv * latestIndex'
                        /\ pv * latestIndex'
                             < amount * IndexScale + latestIndex'
  BY <1>1, <1>2, <1>3, DecreaseBothFacts
<1>5. YieldTypeOK'
  BY <1>2, <1>3, <1>4 DEF YieldTypeOK
<1>6. AssetTypeOK'
  <2>1. /\ trustline[from] # "none"
        /\ balance' = Debited(balance, from, amount)
        /\ amount <= balance[from]
    BY DEF SacClawback, CanClawback
  <2>2. /\ balance' \in [Holders -> 0..TrustlineLimit]
        /\ \A h \in Holders : h # from => balance'[h] = balance[h]
    BY <1>1, <1>2, <2>1, DebitedType DEF AssetTypeOK
  <2> QED
    BY <1>2, <2>1, <2>2 DEF AssetTypeOK
<1>7. RolesTypeOK'
  BY <1>2, RolesUntouched
<1>8. paused' \in BOOLEAN /\ log' \in LogType /\ log'.claimed = log.claimed
  BY <1>1, <1>2 DEF LogType
<1>9. Exchange
  <2>1. PICK pv \in Nat : Retired(pv, amount)
    BY <1>3, <1>4, Zenon DEF Retired
  <2> QED
    BY <1>1, <1>3, <1>4, <1>8, <2>1 DEF Exchange
<1> QED
  BY <1>5, <1>6, <1>7, <1>8, <1>9 DEF TypeOK, LogType

LEMMA ReconcileBurnStep ==
    ASSUME TypeOK, NEW caller, NEW amount \in Amounts,
           ReconcileBurn(caller, amount)
    PROVE  TypeOK' /\ Exchange
<1> USE DEF ReconcileBurn
<1>1. amount \in Nat
  BY DEF CheckPositiveAmount
<1>2. /\ YieldTypeOK /\ AssetTypeOK /\ RolesTypeOK
      /\ paused \in BOOLEAN /\ log \in LogType
  BY DEF TypeOK, LogType
<1>3. /\ latestIndex' = GetCurrentIndex
      /\ latestIndex' \in IndexScale..MaxI128
      /\ lastUpdateTimestamp' = now
      /\ GetCurrentIndex' = GetCurrentIndex
  BY <1>2, UpdateIndexFacts
<1>4. /\ totalPrincipal' \in 0..MaxI128
      /\ totalSupply' \in 0..MaxI128
      /\ conversions' = conversions + 1
      /\ \E pv \in Nat : /\ totalPrincipal' = totalPrincipal - pv
                        /\ totalSupply' = totalSupply - amount
                        /\ amount * IndexScale <= pv * latestIndex'
                        /\ pv * latestIndex'
                             < amount * IndexScale + latestIndex'
  BY <1>1, <1>2, <1>3, DecreaseBothFacts
<1>5. YieldTypeOK'
  BY <1>2, <1>3, <1>4 DEF YieldTypeOK
<1>6. AssetTypeOK'
  BY <1>2, AssetUntouched
<1>7. RolesTypeOK'
  BY <1>2, RolesUntouched
<1>8. paused' \in BOOLEAN /\ log' \in LogType /\ log'.claimed = log.claimed
  BY <1>1, <1>2 DEF LogType
<1>9. Exchange
  <2>1. PICK pv \in Nat : Retired(pv, amount)
    BY <1>3, <1>4, Zenon DEF Retired
  <2> QED
    BY <1>1, <1>3, <1>4, <1>8, <2>1 DEF Exchange
<1> QED
  BY <1>5, <1>6, <1>7, <1>8, <1>9 DEF TypeOK, LogType

LEMMA SetInterestRateStep ==
    ASSUME TypeOK, NEW caller, NEW rate \in Rates, SetInterestRate(caller, rate)
    PROVE  TypeOK' /\ Quiet
<1> USE DEF SetInterestRate
<1>1. /\ YieldTypeOK /\ AssetTypeOK /\ RolesTypeOK
      /\ UpdateIndex /\ now' = now
  BY DEF TypeOK
<1>2. /\ latestIndex' = GetCurrentIndex
      /\ latestIndex' \in IndexScale..MaxI128
      /\ lastUpdateTimestamp' = now
      /\ GetCurrentIndex' = GetCurrentIndex
  BY <1>1, UpdateIndexFacts
<1>3. rateBps' \in 0..MaxRateBps
  BY DEF WriteInterestRate
<1>4. /\ totalPrincipal' = totalPrincipal /\ totalSupply' = totalSupply
      /\ earned' = earned /\ conversions' = conversions
      /\ paused' = paused /\ log' = log
  BY DEF accumulators, gatewayVars
<1>5. YieldTypeOK'
  BY <1>1, <1>2, <1>3, <1>4 DEF YieldTypeOK
<1>6. AssetTypeOK' /\ RolesTypeOK'
  BY <1>1, AssetUntouched, RolesUntouched
<1>7. Quiet
  BY <1>1, <1>2, <1>4 DEF Quiet
<1> QED
  BY <1>4, <1>5, <1>6, <1>7 DEF TypeOK

LEMMA ClaimYieldStep ==
    ASSUME TypeOK, NEW caller, ClaimYield(caller)
    PROVE  TypeOK' /\ (Payment \/ Quiet)
<1> DEFINE y == YieldAt(totalPrincipal,
                        CurrentIndex(latestIndex', rateBps,
                                     now - lastUpdateTimestamp'),
                        totalSupply)
           worth == FixedMulFloor(totalPrincipal, GetCurrentIndex, IndexScale)
<1>1. /\ YieldTypeOK /\ AssetTypeOK /\ RolesTypeOK
      /\ paused \in BOOLEAN /\ log \in LogType
      /\ UpdateIndex
      /\ UNCHANGED <<rateBps, now, earned, trustline, sacAdmin, issuedOutside,
                     roleVars, paused>>
  BY DEF TypeOK, LogType, ClaimYield
<1>2. /\ latestIndex' = GetCurrentIndex
      /\ latestIndex' \in IndexScale..MaxI128
      /\ lastUpdateTimestamp' = now
      /\ GetCurrentIndex' = GetCurrentIndex
  BY <1>1, UpdateIndexFacts
<1>3. /\ totalPrincipal \in 0..MaxI128 /\ totalSupply \in 0..MaxI128
      /\ now \in Nat
  BY <1>1 DEF YieldTypeOK
<1>4. /\ y \in Nat /\ worth \in Nat
      /\ y > 0 => totalSupply + y = worth
  <2>1. CurrentIndex(latestIndex', rateBps, now - lastUpdateTimestamp')
          = GetCurrentIndex
    BY <1>2, <1>3, CurrentIndexAtOnce
  <2>2. GetCurrentIndex \in Nat /\ totalPrincipal \in Nat /\ totalSupply \in Nat
    BY <1>2, <1>3
  <2>3. y = YieldAt(totalPrincipal, GetCurrentIndex, totalSupply)
    BY <2>1
  <2> HIDE DEF y
  <2>4. /\ y \in Nat /\ worth \in Nat
        /\ y > 0 => y = worth - totalSupply
    BY <2>2, <2>3, YieldAtFacts
  <2> HIDE DEF worth
  <2> QED
    BY <2>2, <2>4
<1>5. RolesTypeOK'
  BY <1>1, RolesUntouched
<1>6. CASE y > 0
  <2>1. /\ IncreaseTotalSupply(y) /\ SacMint(yieldRecipient, y)
        /\ log' = [log EXCEPT !.claimed = @ + y]
    BY <1>6 DEF ClaimYield
  <2> HIDE DEF y
  <2>2. /\ totalSupply' = totalSupply + y /\ totalSupply + y <= MaxI128
        /\ totalPrincipal' = totalPrincipal /\ conversions' = conversions
    BY <2>1 DEF IncreaseTotalSupply, Fits
  <2>3. YieldTypeOK'
    BY <1>1, <1>2, <1>3, <1>4, <2>2 DEF YieldTypeOK
  <2>4. AssetTypeOK'
    <3>1. /\ balance' \in [Holders -> 0..TrustlineLimit]
          /\ \A h \in Holders : h # yieldRecipient => balance'[h] = balance[h]
          /\ yieldRecipient \in Holders
               => trustline[yieldRecipient] = "authorized"
          /\ destroyed' \in Nat
      BY <1>1, <1>4, <2>1, CreditedType DEF SacMint, AssetTypeOK
    <3> QED
      BY <1>1, <3>1 DEF AssetTypeOK
  <2>5. log' \in LogType /\ log'.claimed = log.claimed + y
    BY <1>1, <1>4, <2>1 DEF LogType
  <2>6. log.claimed \in Nat
    BY <1>1 DEF LogType
  <2>7. Payment
    <3> HIDE DEF worth
    <3>1. /\ totalSupply' > totalSupply
          /\ log'.claimed - log.claimed = totalSupply' - totalSupply
          /\ totalSupply' = worth
      BY <1>3, <1>4, <1>6, <2>2, <2>5, <2>6
    <3> QED
      BY <1>1, <1>2, <2>2, <3>1 DEF Payment, worth
  <2> QED
    BY <1>1, <1>5, <2>3, <2>4, <2>5, <2>7 DEF TypeOK, LogType
<1>7. CASE y = 0
  <2>1. UNCHANGED <<accumulators, conversions, balance, destroyed, log>>
    BY <1>7 DEF ClaimYield
  <2>2. YieldTypeOK'
    BY <1>1, <1>2, <2>1 DEF YieldTypeOK, accumulators
  <2>3. AssetTypeOK'
    BY <1>1, <2>1 DEF AssetTypeOK
  <2>4. Quiet
    BY <1>1, <1>2, <2>1 DEF Quiet, accumulators
  <2> QED
    BY <1>1, <1>5, <2>1, <2>2, <2>3, <2>4 DEF TypeOK
<1> QED
  BY <1>4, <1>6, <1>7

-----------------------------------------------------------------------------
(* The steps that leave the yield state alone, and time.                   *)

LEMMA ForceTransferStep ==
    ASSUME TypeOK, NEW caller, NEW from \in Holders, NEW to \in Accounts,
           NEW amount \in Amounts, ForceTransfer(caller, from, to, amount)
    PROVE  TypeOK' /\ Quiet
<1> DEFINE clawed == Debited(balance, from, amount)
<1>1. /\ amount \in Nat
      /\ CanClawback(from, amount)
      /\ CanReceive(clawed, to, amount)
      /\ balance' = Credited(clawed, to, amount)
      /\ destroyed' = destroyed + Absorbed(to, amount)
      /\ UNCHANGED <<yieldVars, trustline, sacAdmin, issuedOutside,
                     roleVars, gatewayVars>>
  BY DEF ForceTransfer, CheckPositiveAmount
<1>2. YieldTypeOK /\ AssetTypeOK /\ RolesTypeOK
  BY DEF TypeOK
<1>3. /\ clawed \in [Holders -> 0..TrustlineLimit]
      /\ \A h \in Holders : h # from => clawed[h] = balance[h]
      /\ trustline[from] # "none"
  BY <1>1, <1>2, DebitedType DEF CanClawback, AssetTypeOK
<1> HIDE DEF clawed
<1>4. /\ balance' \in [Holders -> 0..TrustlineLimit]
      /\ \A h \in Holders : h # to => balance'[h] = clawed[h]
      /\ to \in Holders => trustline[to] = "authorized"
      /\ Absorbed(to, amount) \in Nat
  BY <1>1, <1>3, CreditedType
<1>5. AssetTypeOK'
  BY <1>1, <1>2, <1>3, <1>4 DEF AssetTypeOK
<1>6. YieldTypeOK' /\ Quiet
  BY <1>1, <1>2, YieldUntouched DEF gatewayVars
<1>7. RolesTypeOK'
  BY <1>1, <1>2, RolesUntouched
<1> QED
  BY <1>1, <1>5, <1>6, <1>7 DEF TypeOK, gatewayVars

LEMMA SetAuthorizedStep ==
    ASSUME TypeOK, NEW operator, NEW users,
           BlockUsers(operator, users) \/ UnblockUsers(operator, users)
    PROVE  TypeOK' /\ Quiet
<1>1. PICK flag \in BOOLEAN : SacSetAuthorized(users, flag)
  BY DEF BlockUsers, UnblockUsers
<1>2. UNCHANGED <<yieldVars, balance, sacAdmin, destroyed, issuedOutside,
                  roleVars, gatewayVars>>
  BY DEF BlockUsers, UnblockUsers
<1>3. YieldTypeOK /\ AssetTypeOK /\ RolesTypeOK
  BY DEF TypeOK
<1>4. AssetTypeOK'
  <2>1. /\ trustline' \in [Holders -> Trust]
        /\ \A h \in Holders : trustline'[h] = "none" => trustline[h] = "none"
    BY <1>1, <1>3 DEF SacSetAuthorized, AssetTypeOK, Trust
  <2> QED
    BY <1>2, <1>3, <2>1 DEF AssetTypeOK
<1>5. YieldTypeOK' /\ Quiet
  BY <1>2, <1>3, YieldUntouched DEF gatewayVars
<1>6. RolesTypeOK'
  BY <1>2, <1>3, RolesUntouched
<1> QED
  BY <1>2, <1>4, <1>5, <1>6 DEF TypeOK, gatewayVars

LEMMA PauseStep ==
    ASSUME TypeOK, NEW caller, Pause(caller) \/ Unpause(caller)
    PROVE  TypeOK' /\ Quiet
<1>1. /\ paused' \in BOOLEAN
      /\ UNCHANGED <<yieldVars, assetVars, roleVars, log>>
  BY DEF Pause, Unpause
<1>2. YieldTypeOK' /\ Quiet
  BY <1>1, YieldUntouched DEF TypeOK
<1>3. AssetTypeOK' /\ RolesTypeOK'
  BY <1>1, AssetUntouched, RolesUntouched DEF TypeOK
<1> QED
  BY <1>1, <1>2, <1>3 DEF TypeOK

LEMMA TransferSacAdminStep ==
    ASSUME TypeOK, NEW caller, NEW newSacAdmin \in {Gateway} \cup OutsideAdmins,
           TransferSacAdmin(caller, newSacAdmin)
    PROVE  TypeOK' /\ Quiet
<1>1. /\ sacAdmin' \in {Gateway} \cup OutsideAdmins
      /\ UNCHANGED <<yieldVars, trustline, balance, destroyed, issuedOutside,
                     roleVars, gatewayVars>>
  BY DEF TransferSacAdmin, SacSetAdmin
<1>2. YieldTypeOK' /\ Quiet
  BY <1>1, YieldUntouched DEF TypeOK, gatewayVars
<1>3. AssetTypeOK' /\ RolesTypeOK'
  BY <1>1, RolesUntouched DEF TypeOK, AssetTypeOK
<1> QED
  BY <1>1, <1>2, <1>3 DEF TypeOK, gatewayVars

LEMMA RoleStep ==
    ASSUME TypeOK, NEW caller,
           \/ \E addr \in Operators : RoleChange(caller, addr)
           \/ \E addr \in Recipients : RecipientChange(caller, addr)
    PROVE  TypeOK' /\ Quiet
<1>1. UNCHANGED <<yieldVars, assetVars, gatewayVars>>
  BY DEF RoleChange, RecipientChange
<1>2. RolesTypeOK
  BY DEF TypeOK
<1>3. RolesTypeOK'
  <2>1. CASE \E addr \in Recipients : RecipientChange(caller, addr)
    BY <1>2, <2>1 DEF RecipientChange, SetYieldRecipient, RolesTypeOK, setRoles
  <2>2. ASSUME NEW addr \in Operators, RoleChange(caller, addr)
        PROVE  RolesTypeOK'
    <3>1. CASE \/ SetAdmin(caller, addr)
               \/ SetMinter(caller, addr)
               \/ SetYieldRecipientManager(caller, addr)
               \/ SetForcedTransferManager(caller, addr)
      BY <1>2, <3>1 DEF SetAdmin, SetMinter, SetYieldRecipientManager,
                        SetForcedTransferManager, RolesTypeOK, setRoles
    <3>2. CASE \/ AddBlockOperator(caller, addr)
               \/ RemoveBlockOperator(caller, addr)
      BY <1>2, <3>2 DEF AddBlockOperator, RemoveBlockOperator, RolesTypeOK,
                        singleRoles
    <3>3. CASE \/ AddUnblockOperator(caller, addr)
               \/ RemoveUnblockOperator(caller, addr)
      BY <1>2, <3>3 DEF AddUnblockOperator, RemoveUnblockOperator, RolesTypeOK,
                        singleRoles
    <3>4. CASE \/ AddPauser(caller, addr)
               \/ RemovePauser(caller, addr)
      BY <1>2, <3>4 DEF AddPauser, RemovePauser, RolesTypeOK, singleRoles
    <3> QED
      BY <2>2, <3>1, <3>2, <3>3, <3>4 DEF RoleChange
  <2> QED
    BY <2>1, <2>2
<1>4. YieldTypeOK' /\ Quiet
  BY <1>1, YieldUntouched DEF TypeOK, gatewayVars
<1>5. AssetTypeOK'
  BY <1>1, AssetUntouched DEF TypeOK
<1> QED
  BY <1>1, <1>3, <1>4, <1>5 DEF TypeOK, gatewayVars

LEMMA OutsideAssetType ==
    ASSUME TypeOK, OutsideStep
    PROVE  AssetTypeOK'
<1>1. AssetTypeOK
  BY DEF TypeOK
<1>2. ASSUME NEW h \in Holders, OpenTrustline(h) \/ CloseTrustline(h)
      PROVE  AssetTypeOK'
  BY <1>1, <1>2 DEF OpenTrustline, CloseTrustline, AssetTypeOK, Trust
<1>3. ASSUME NEW from \in Holders, NEW to \in Accounts, NEW amount \in Amounts,
             Transfer(from, to, amount)
      PROVE  AssetTypeOK'
  <2> DEFINE debited == Debited(balance, from, amount)
  <2>1. /\ amount \in Nat
        /\ trustline[from] = "authorized"
        /\ balance[from] >= amount
        /\ CanReceive(debited, to, amount)
        /\ balance' = Credited(debited, to, amount)
        /\ destroyed' = destroyed + Absorbed(to, amount)
        /\ UNCHANGED <<trustline, sacAdmin, issuedOutside>>
    BY <1>3 DEF Transfer
  <2>2. /\ debited \in [Holders -> 0..TrustlineLimit]
        /\ \A h \in Holders : h # from => debited[h] = balance[h]
    BY <1>1, <2>1, DebitedType DEF AssetTypeOK
  <2> HIDE DEF debited
  <2>3. /\ balance' \in [Holders -> 0..TrustlineLimit]
        /\ \A h \in Holders : h # to => balance'[h] = debited[h]
        /\ to \in Holders => trustline[to] = "authorized"
        /\ Absorbed(to, amount) \in Nat
    BY <2>1, <2>2, CreditedType
  <2> QED
    BY <1>1, <2>1, <2>2, <2>3 DEF AssetTypeOK
<1>4. ASSUME NEW h \in Holders, NEW amount \in Amounts, OutsideIssue(h, amount)
      PROVE  AssetTypeOK'
  <2>1. /\ amount \in Nat
        /\ CanReceive(balance, h, amount)
        /\ balance' = Credited(balance, h, amount)
        /\ issuedOutside' = issuedOutside + amount
        /\ UNCHANGED <<trustline, sacAdmin, destroyed>>
    BY <1>4 DEF OutsideIssue
  <2>2. /\ balance' \in [Holders -> 0..TrustlineLimit]
        /\ \A g \in Holders : g # h => balance'[g] = balance[g]
        /\ trustline[h] = "authorized"
    BY <1>1, <2>1, CreditedType DEF AssetTypeOK
  <2> QED
    BY <1>1, <2>1, <2>2 DEF AssetTypeOK
<1>5. ASSUME NEW h \in Holders, NEW amount \in Amounts,
             OutsideClawback(h, amount)
      PROVE  AssetTypeOK'
  <2>0. amount > 0
    BY <1>5 DEF OutsideClawback
  <2>1. /\ amount \in Nat
        /\ trustline[h] # "none"
        /\ balance[h] >= amount
        /\ balance' = Debited(balance, h, amount)
        /\ issuedOutside' = issuedOutside - amount
        /\ UNCHANGED <<trustline, sacAdmin, destroyed>>
    <3>1. amount \in Nat
      BY <2>0
    <3> QED
      BY <1>5, <3>1, Zenon DEF OutsideClawback
  <2>2. /\ balance' \in [Holders -> 0..TrustlineLimit]
        /\ \A g \in Holders : g # h => balance'[g] = balance[g]
    BY <1>1, <2>1, DebitedType DEF AssetTypeOK
  <2> QED
    BY <1>1, <2>1, <2>2 DEF AssetTypeOK
<1>6. ASSUME NEW h \in Holders, NEW flag \in BOOLEAN,
             OutsideSetAuthorized(h, flag)
      PROVE  AssetTypeOK'
  BY <1>1, <1>6 DEF OutsideSetAuthorized, AssetTypeOK, Trust
<1>7. CASE ReturnSacAdmin
  BY <1>1, <1>7 DEF ReturnSacAdmin, AssetTypeOK
<1> QED
  BY <1>2, <1>3, <1>4, <1>5, <1>6, <1>7 DEF OutsideStep

LEMMA OutsideStepType ==
    ASSUME TypeOK, OutsideStep
    PROVE  TypeOK' /\ Quiet
<1>1. UNCHANGED <<yieldVars, roleVars, gatewayVars>>
  BY DEF OutsideStep
<1>2. YieldTypeOK' /\ Quiet
  BY <1>1, YieldUntouched DEF TypeOK, gatewayVars
<1>3. RolesTypeOK'
  BY <1>1, RolesUntouched DEF TypeOK
<1> QED
  BY <1>1, <1>2, <1>3, OutsideAssetType DEF TypeOK, gatewayVars

LEMMA TickStep ==
    ASSUME TypeOK, Tick
    PROVE  TypeOK' /\ Accrual
<1>1. YieldTypeOK /\ AssetTypeOK /\ RolesTypeOK
  BY DEF TypeOK
<1>2. /\ now' = now + 1
      /\ earned' = earned + totalPrincipal * (IndexAt(now + 1) - IndexAt(now))
      /\ UNCHANGED <<rateBps, latestIndex, lastUpdateTimestamp,
                     totalPrincipal, totalSupply, conversions>>
      /\ UNCHANGED <<assetVars, roleVars, paused, log>>
  BY DEF Tick, AdvanceTime, indexVars, accumulators, gatewayVars
<1>3. now \in Nat /\ totalPrincipal \in Nat /\ earned \in Nat
  BY <1>1 DEF YieldTypeOK
<1>4. /\ IndexAt(now) \in Nat /\ IndexAt(now + 1) \in Nat
      /\ IndexAt(now) <= IndexAt(now + 1)
  <2>1. now + 1 \in Nat /\ now <= now + 1 /\ now + 1 <= now + 1
    BY <1>3
  <2> QED
    BY <1>1, <1>3, <2>1, IndexAtFacts
<1>5. /\ GetCurrentIndex = IndexAt(now)
      /\ GetCurrentIndex' = IndexAt(now + 1)
  BY <1>2 DEF GetCurrentIndex, IndexAt
<1>6. totalPrincipal * (IndexAt(now + 1) - IndexAt(now)) \in Nat
  BY <1>3, <1>4, ProductMonotone
<1>7. YieldTypeOK'
  BY <1>1, <1>2, <1>3, <1>6 DEF YieldTypeOK
<1>8. Accrual
  BY <1>2, <1>3, <1>4, <1>5 DEF Accrual
<1>9. AssetTypeOK' /\ RolesTypeOK'
  BY <1>1, <1>2, AssetUntouched, RolesUntouched
<1> QED
  BY <1>2, <1>7, <1>8, <1>9 DEF TypeOK

-----------------------------------------------------------------------------
(* Every step keeps the types and is of one of the four kinds.             *)

LEMMA StepEffect ==
    ASSUME TypeOK, [Next]_vars
    PROVE  TypeOK' /\ StepKind
<1> USE DEF StepKind
<1>1. CASE UNCHANGED vars
  <2>1. UNCHANGED <<yieldVars, assetVars, roleVars, paused, log>>
    BY <1>1 DEF vars, gatewayVars
  <2>2. YieldTypeOK' /\ Quiet
    BY <2>1, YieldUntouched DEF TypeOK
  <2> QED
    BY <2>1, <2>2, AssetUntouched, RolesUntouched DEF TypeOK
<1>2. CASE OutsideStep
  BY <1>2, OutsideStepType
<1>3. CASE Tick
  BY <1>3, TickStep
<1>4. ASSUME NEW caller \in Operators, GatewayCall(caller)
      PROVE  TypeOK' /\ StepKind
  <2>1. ASSUME NEW to \in Accounts, NEW amount \in Amounts,
               Mint(caller, to, amount)
        PROVE  TypeOK' /\ StepKind
    BY <2>1, MintStep
  <2>2. ASSUME NEW from \in Holders, NEW amount \in Amounts,
               Burn(caller, from, amount)
        PROVE  TypeOK' /\ StepKind
    BY <2>2, BurnStep
  <2>3. ASSUME NEW rate \in Rates, SetInterestRate(caller, rate)
        PROVE  TypeOK' /\ StepKind
    BY <2>3, SetInterestRateStep
  <2>4. ASSUME NEW amount \in Amounts, ReconcileBurn(caller, amount)
        PROVE  TypeOK' /\ StepKind
    BY <2>4, ReconcileBurnStep
  <2>5. ASSUME NEW from \in Holders, NEW to \in Accounts,
               NEW amount \in Amounts, ForceTransfer(caller, from, to, amount)
        PROVE  TypeOK' /\ StepKind
    BY <2>5, ForceTransferStep
  <2>6. CASE ClaimYield(caller)
    BY <2>6, ClaimYieldStep
  <2>7. ASSUME NEW users,
               BlockUsers(caller, users) \/ UnblockUsers(caller, users)
        PROVE  TypeOK' /\ StepKind
    BY <2>7, SetAuthorizedStep
  <2>8. CASE Pause(caller) \/ Unpause(caller)
    BY <2>8, PauseStep
  <2>9. ASSUME NEW newSacAdmin \in {Gateway} \cup OutsideAdmins,
               TransferSacAdmin(caller, newSacAdmin)
        PROVE  TypeOK' /\ StepKind
    BY <2>9, TransferSacAdminStep
  <2>10. CASE \/ \E addr \in Operators : RoleChange(caller, addr)
              \/ \E addr \in Recipients : RecipientChange(caller, addr)
    BY <2>10, RoleStep
  <2> QED
    BY <1>4, <2>1, <2>2, <2>3, <2>4, <2>5, <2>6, <2>7, <2>8, <2>9, <2>10
    DEF GatewayCall, BlockUser, UnblockUser, BatchBlockUsers, BatchUnblockUsers
<1> QED
  BY <1>1, <1>2, <1>3, <1>4 DEF Next

(* TypeOK holds throughout, for every value of the constants: the rate is  *)
(* within its maximum, the index between one and the greatest i128, the    *)
(* accumulators never negative and never overflowing, balances within      *)
(* their trustlines, roles held by addresses that may hold them.           *)
THEOREM TypeInvariant == Spec => []TypeOK
<1>1. TypeOK /\ [Next]_vars => TypeOK'
  BY StepEffect
<1> QED
  BY InitType, <1>1, PTL DEF Spec

-----------------------------------------------------------------------------
(* The index never falls.                                                  *)

\* What the four kinds of step have in common.
LEMMA KindTypes ==
    ASSUME TypeOK, TypeOK', StepKind
    PROVE  /\ totalPrincipal \in Nat /\ totalPrincipal' \in Nat
           /\ totalSupply \in Nat /\ totalSupply' \in Nat
           /\ log.claimed \in Nat /\ log'.claimed \in Nat
           /\ earned \in Nat /\ earned' \in Nat
           /\ conversions \in Nat
           /\ GetCurrentIndex \in Nat /\ GetCurrentIndex' \in Nat
           /\ GetCurrentIndex <= GetCurrentIndex'
<1>1. /\ totalPrincipal \in Nat /\ totalPrincipal' \in Nat
      /\ totalSupply \in Nat /\ totalSupply' \in Nat
      /\ log.claimed \in Nat /\ log'.claimed \in Nat
      /\ earned \in Nat /\ earned' \in Nat
      /\ conversions \in Nat
      /\ now \in Nat
  BY DEF TypeOK, YieldTypeOK
<1>2. GetCurrentIndex \in Nat
  <2>1. now <= now
    BY <1>1
  <2> QED
    BY <1>1, <2>1, IndexAtFacts DEF TypeOK, GetCurrentIndex
<1>3. GetCurrentIndex' \in Nat
  <2> DEFINE e == now' - lastUpdateTimestamp'
  <2>1. /\ latestIndex' \in Nat /\ rateBps' \in Nat
        /\ ~(now' <= lastUpdateTimestamp') => e \in Nat
    <3>1. YieldTypeOK'
      BY DEF TypeOK
    <3>2. /\ latestIndex' \in IndexScale..MaxI128 /\ rateBps' \in 0..MaxRateBps
          /\ now' \in Nat /\ lastUpdateTimestamp' \in 0..now'
      BY <3>1 DEF YieldTypeOK
    <3>3. e \in Nat
      <4>1. \A a \in Nat : \A b \in 0..a : a - b \in Nat
        OBVIOUS
      <4> QED
        BY <3>2, <4>1
    <3>4. latestIndex' \in Nat /\ rateBps' \in Nat
      BY <3>2
    <3> QED
      BY <3>3, <3>4
  <2>2. CASE now' <= lastUpdateTimestamp'
    BY <2>1, <2>2 DEF GetCurrentIndex, IndexAt
  <2>3. CASE ~(now' <= lastUpdateTimestamp')
    <3>1. GetCurrentIndex' = CurrentIndex(latestIndex', rateBps', e)
      BY <2>3 DEF GetCurrentIndex, IndexAt
    <3>2. e \in Nat
      BY <2>1, <2>3
    <3> HIDE DEF e
    <3>3. e <= e
      BY <3>2
    <3> QED
      BY <2>1, <3>1, <3>2, <3>3, CurrentIndexMonotone
  <2> QED
    BY <2>2, <2>3
<1>4. GetCurrentIndex <= GetCurrentIndex'
  BY <1>2, <1>3 DEF StepKind, Quiet, Accrual, Exchange, Payment
<1> QED
  BY <1>1, <1>2, <1>3, <1>4

(* INV-2 for the real-time index: no call and no passing of time lowers    *)
(* it, whatever the rates set and whenever the index was stored.           *)
THEOREM IndexNeverFallsTheorem == Spec => IndexNeverFalls
<1>1. TypeOK /\ [Next]_vars => [GetCurrentIndex' >= GetCurrentIndex]_vars
  <2> SUFFICES ASSUME TypeOK, [Next]_vars
               PROVE  GetCurrentIndex' >= GetCurrentIndex
    OBVIOUS
  <2>1. TypeOK' /\ StepKind
    BY StepEffect
  <2>2. /\ GetCurrentIndex \in Nat /\ GetCurrentIndex' \in Nat
        /\ GetCurrentIndex <= GetCurrentIndex'
    BY <2>1, KindTypes
  <2> QED
    BY <2>2
<1> QED
  BY <1>1, TypeInvariant, PTL DEF Spec, IndexNeverFalls

-----------------------------------------------------------------------------
(* The gateway implements the yield ledger.                                *)

\* Products over a sum and a difference.
LEMMA Distribute ==
    ASSUME NEW a \in Int, NEW b \in Int, NEW c \in Int
    PROVE  /\ (a + b) * c = a * c + b * c
           /\ (a - b) * c = a * c - b * c
  OBVIOUS

\* An exchange is an issue at most at par or a redemption at least at par,
\* and either gives away less than one unit of principal.
LEMMA ExchangeFacts ==
    ASSUME NEW P \in Nat, NEW Q \in Nat, NEW T \in Nat, NEW U \in Nat,
           NEW i \in Nat, NEW pv \in Nat, NEW a \in Nat,
           \/ /\ Q = P + pv /\ U = T + a
              /\ pv * i <= a * IndexScale
              /\ a * IndexScale < pv * i + i
           \/ /\ Q = P - pv /\ U = T - a
              /\ a * IndexScale <= pv * i
              /\ pv * i < a * IndexScale + i
    PROVE  /\ Q * i - P * i <= U * IndexScale - T * IndexScale
           /\ U * IndexScale - T * IndexScale - (Q * i - P * i) <= i
           /\ \/ P * i <= Q * i
              \/ /\ Q * i <= P * i
                 /\ U * IndexScale <= T * IndexScale
<1>1. /\ P * i \in Nat /\ Q * i \in Nat /\ pv * i \in Nat
      /\ T * IndexScale \in Nat /\ U * IndexScale \in Nat
      /\ a * IndexScale \in Nat
  BY ProductMonotone
<1>2. CASE Q = P + pv /\ U = T + a /\ pv * i <= a * IndexScale
           /\ a * IndexScale < pv * i + i
  <2>1. Q * i = P * i + pv * i /\ U * IndexScale = T * IndexScale + a * IndexScale
    BY <1>2, Distribute
  <2> QED
    BY <1>1, <1>2, <2>1
<1>3. CASE Q = P - pv /\ U = T - a /\ a * IndexScale <= pv * i
           /\ pv * i < a * IndexScale + i
  <2>1. Q * i = P * i - pv * i /\ U * IndexScale = T * IndexScale - a * IndexScale
    BY <1>3, Distribute
  <2> QED
    BY <1>1, <1>3, <2>1
<1> QED
  BY <1>2, <1>3

\* Each kind of step is a step of the ledger or leaves it alone.
LEMMA StepIsLedgerStep ==
    ASSUME TypeOK, TypeOK', StepKind
    PROVE  [Ledger!Next]_Ledger!ledgerVars
<1> DEFINE i == GetCurrentIndex
           j == GetCurrentIndex'
           P == totalPrincipal
           Q == totalPrincipal'
           T == totalSupply
           U == totalSupply'
           c == log.claimed
           k == log'.claimed
<1>1. /\ P \in Nat /\ Q \in Nat /\ T \in Nat /\ U \in Nat
      /\ c \in Nat /\ k \in Nat /\ i \in Nat /\ j \in Nat /\ i <= j
      /\ earned \in Nat /\ earned' \in Nat
  BY KindTypes
<1>2. /\ Worth = P * i /\ Worth' = Q * j
      /\ Outstanding = T * IndexScale /\ Outstanding' = U * IndexScale
      /\ (log.claimed * IndexScale)' = k * IndexScale
  BY DEF Worth, Outstanding
<1>3. /\ P * i \in Nat /\ Q * j \in Nat /\ P * j \in Nat
      /\ T * IndexScale \in Nat /\ U * IndexScale \in Nat
      /\ c * IndexScale \in Nat /\ k * IndexScale \in Nat
  <2> HIDE DEF i, j, P, Q, T, U, c, k
  <2>1. \A x, y \in Nat : x * y \in Nat
    OBVIOUS
  <2> QED
    BY <1>1, <2>1
<1>4. CASE Quiet
  <2>1. UNCHANGED <<Worth, Outstanding, earned, log.claimed * IndexScale>>
    BY <1>4 DEF Quiet, Worth, Outstanding
  <2> QED
    BY <2>1 DEF Ledger!ledgerVars
<1>5. CASE Accrual
  <2>1. /\ Q = P /\ U = T /\ k = c
        /\ earned' = earned + P * (j - i)
    BY <1>5 DEF Accrual
  <2> HIDE DEF i, j, P, Q, T, U, c, k
  <2>2. P * (j - i) = P * j - P * i /\ P * i <= P * j
    BY <1>1, ProductMonotone
  <2>3. /\ earned' >= earned
        /\ Worth' - Worth = earned' - earned
        /\ UNCHANGED Outstanding
        /\ (log.claimed * IndexScale)' = c * IndexScale
    BY <1>1, <1>2, <1>3, <2>1, <2>2
  <2>4. Ledger!Accrue
    BY <2>3 DEF Ledger!Accrue, c
  <2> QED
    BY <2>4 DEF Ledger!Next
<1>6. CASE Exchange
  <2>1. /\ j = i /\ k = c /\ earned' = earned
        /\ \E pv, a \in Nat :
              \/ /\ Q = P + pv /\ U = T + a
                 /\ pv * i <= a * IndexScale
                 /\ a * IndexScale < pv * i + i
              \/ /\ Q = P - pv /\ U = T - a
                 /\ a * IndexScale <= pv * i
                 /\ pv * i < a * IndexScale + i
    BY <1>6 DEF Exchange, Issued, Retired
  <2>2. (log.claimed * IndexScale)' = log.claimed * IndexScale
    BY <1>2, <2>1
  <2> HIDE DEF i, j, P, Q, T, U, c, k
  <2>3. /\ Q * i - P * i <= U * IndexScale - T * IndexScale
        /\ \/ P * i <= Q * i
           \/ /\ Q * i <= P * i
              /\ U * IndexScale <= T * IndexScale
    BY <1>1, <2>1, ExchangeFacts
  <2>4. /\ Worth' - Worth <= Outstanding' - Outstanding
        /\ Outstanding' \in Nat /\ Outstanding \in Nat
        /\ Worth \in Nat /\ Worth' \in Nat
        /\ \/ Worth' >= Worth
           \/ Worth' <= Worth /\ Outstanding' <= Outstanding
    BY <1>2, <1>3, <2>1, <2>3
  <2>5. CASE Worth' >= Worth
    BY <2>1, <2>2, <2>4, <2>5 DEF Ledger!Next, Ledger!Issue
  <2>6. CASE Worth' <= Worth /\ Outstanding' <= Outstanding
    <3>1. \A v, w, x, y \in Nat :
              w - v <= y - x => y >= 0 /\ v - w >= x - y
      OBVIOUS
    <3>2. Outstanding' >= 0 /\ Worth - Worth' >= Outstanding - Outstanding'
      BY <2>4, <3>1, Zenon
    <3> QED
      BY <2>1, <2>2, <2>6, <3>2 DEF Ledger!Next, Ledger!Redeem
  <2> QED
    BY <2>4, <2>5, <2>6
<1>7. CASE Payment
  <2>1. /\ j = i /\ Q = P /\ earned' = earned /\ U > T
        /\ k - c = U - T
        /\ U = FixedMulFloor(P, i, IndexScale)
    BY <1>7 DEF Payment
  <2> HIDE DEF i, j, P, Q, T, U, c, k
  <2>2. U * IndexScale <= P * i
    BY <1>1, <2>1, FloorFacts
  <2>3. /\ k * IndexScale - c * IndexScale = (k - c) * IndexScale
        /\ U * IndexScale - T * IndexScale = (U - T) * IndexScale
    BY <1>1, Distribute
  <2>4. T * IndexScale <= U * IndexScale
    BY <1>1, <2>1, ProductMonotone
  <2>5. /\ Outstanding' >= Outstanding
        /\ k * IndexScale - c * IndexScale = Outstanding' - Outstanding
        /\ Outstanding' <= Worth
        /\ Worth' = Worth
    BY <1>2, <1>3, <2>1, <2>2, <2>3, <2>4
  <2>6. Ledger!Pay
    BY <1>2, <2>1, <2>5 DEF Ledger!Pay, c
  <2> QED
    BY <2>6 DEF Ledger!Next
<1> QED
  BY <1>4, <1>5, <1>6, <1>7 DEF StepKind

(* The gateway implements the abstract yield ledger: whatever the rates,   *)
(* amounts, callers and times, it issues at most at par, redeems at least  *)
(* at par and pays only what the principal is worth beyond the supply.     *)
THEOREM LedgerRefinement == Spec => ImplementsYieldLedger
<1>1. Init => Ledger!Init
  <2> SUFFICES ASSUME Init PROVE Ledger!Init
    OBVIOUS
  <2>1. /\ totalPrincipal = 0 /\ totalSupply = 0 /\ earned = 0
        /\ log.claimed = 0 /\ latestIndex = IndexScale /\ rateBps = 0
    BY DEF Init, YieldInit
  <2>2. GetCurrentIndex = IndexScale
    BY <2>1 DEF GetCurrentIndex, IndexAt, CurrentIndex
  <2> QED
    BY <2>1, <2>2 DEF Ledger!Init, Worth, Outstanding
<1>2. TypeOK /\ [Next]_vars => [Ledger!Next]_Ledger!ledgerVars
  BY StepEffect, StepIsLedgerStep
<1> QED
  BY <1>1, <1>2, TypeInvariant, PTL DEF Spec, ImplementsYieldLedger, Ledger!Spec

-----------------------------------------------------------------------------
(* What is paid, and what is lost to rounding.                             *)

(* The inductive invariant.  ClaimedWithinEarned alone is not inductive: a *)
(* claim raises what is paid, and it is Solvent that says the worth it is  *)
(* paid from was earned.                                                   *)
Solvent == Worth - Outstanding + log.claimed * IndexScale <= earned

Accounted == Solvent /\ ClaimedWithinEarned /\ RoundingLossBounded

LEMMA AccountedInit == Init => Accounted
<1> SUFFICES ASSUME Init PROVE Accounted
  OBVIOUS
<1>1. /\ totalPrincipal = 0 /\ totalSupply = 0 /\ earned = 0
      /\ conversions = 0
      /\ log.claimed = 0 /\ latestIndex = IndexScale /\ rateBps = 0
  BY DEF Init, YieldInit
<1>2. GetCurrentIndex = IndexScale
  BY <1>1 DEF GetCurrentIndex, IndexAt, CurrentIndex
<1> QED
  BY <1>1, <1>2 DEF Accounted, Solvent, ClaimedWithinEarned,
                    RoundingLossBounded, Worth, Outstanding

LEMMA AccountedStep ==
    ASSUME TypeOK, TypeOK', StepKind, Accounted
    PROVE  Accounted'
<1> DEFINE i == GetCurrentIndex
           j == GetCurrentIndex'
           P == totalPrincipal
           Q == totalPrincipal'
           T == totalSupply
           U == totalSupply'
           c == log.claimed
           k == log'.claimed
           n == conversions
           m == conversions'
           W == P * i
           V == Q * j
           O == T * IndexScale
           N == U * IndexScale
           C == c * IndexScale
           K == k * IndexScale
<1>1. /\ P \in Nat /\ Q \in Nat /\ T \in Nat /\ U \in Nat
      /\ c \in Nat /\ k \in Nat /\ i \in Nat /\ j \in Nat /\ i <= j
      /\ n \in Nat /\ earned \in Nat /\ earned' \in Nat
  BY KindTypes
<1>2. /\ W - O + C <= earned
      /\ C <= earned
      /\ earned + O - C - W <= n * i
  BY DEF Accounted, Solvent, ClaimedWithinEarned, RoundingLossBounded, Worth,
         Outstanding
<1>3. SUFFICES /\ V - N + K <= earned'
               /\ K <= earned'
               /\ earned' + N - K - V <= m * j
  BY DEF Accounted, Solvent, ClaimedWithinEarned, RoundingLossBounded, Worth,
         Outstanding
<1>4. /\ Quiet => Q = P /\ U = T /\ k = c /\ m = n /\ j = i /\ earned' = earned
      /\ Accrual => /\ Q = P /\ U = T /\ k = c /\ m = n
                    /\ earned' = earned + P * (j - i)
      /\ Exchange => /\ k = c /\ m = n + 1 /\ j = i /\ earned' = earned
                     /\ \E pv, a \in Nat :
                           \/ /\ Q = P + pv /\ U = T + a
                              /\ pv * i <= a * IndexScale
                              /\ a * IndexScale < pv * i + i
                           \/ /\ Q = P - pv /\ U = T - a
                              /\ a * IndexScale <= pv * i
                              /\ pv * i < a * IndexScale + i
      /\ Payment => /\ Q = P /\ m = n /\ j = i /\ earned' = earned
                    /\ k - c = U - T
                    /\ U = FixedMulFloor(P, i, IndexScale)
  BY DEF Quiet, Accrual, Exchange, Issued, Retired, Payment
<1> HIDE DEF i, j, P, Q, T, U, c, k, n, m
<1>5. /\ W \in Nat /\ O \in Nat /\ N \in Nat /\ C \in Nat /\ K \in Nat
      /\ V \in Nat /\ n * i \in Nat /\ P * j \in Nat /\ n * j \in Nat
  <2>1. \A x, y \in Nat : x * y \in Nat
    OBVIOUS
  <2> QED
    BY <1>1, <2>1
<1>6. CASE Quiet
  BY <1>2, <1>4, <1>6
<1>7. CASE Accrual
  <2>1. P * (j - i) = P * j - P * i /\ n * i <= n * j
    BY <1>1, ProductMonotone
  <2>2. V = P * j /\ N = O /\ K = C /\ m * j = n * j
        /\ earned' = earned + (P * j - W)
    BY <1>4, <1>7, <2>1
  <2> HIDE DEF W, V, O, N, C, K
  <2> QED
    BY <1>1, <1>2, <1>5, <2>1, <2>2 DEF W
<1>8. CASE Exchange
  <2>1. /\ Q * i - P * i <= U * IndexScale - T * IndexScale
        /\ U * IndexScale - T * IndexScale - (Q * i - P * i) <= i
    BY <1>1, <1>4, <1>8, ExchangeFacts
  <2>2. m * j = n * i + i
    BY <1>1, <1>4, <1>8, Distribute
  <2>3. /\ V - W <= N - O /\ N - O - (V - W) <= i
        /\ K = C /\ earned' = earned
    BY <1>4, <1>8, <2>1
  <2> HIDE DEF W, V, O, N, C, K
  <2> QED
    BY <1>1, <1>2, <1>5, <2>2, <2>3
<1>9. CASE Payment
  <2>1. N <= W
    BY <1>1, <1>4, <1>9, FloorFacts
  <2>2. /\ K - C = (k - c) * IndexScale
        /\ N - O = (U - T) * IndexScale
    BY <1>1, Distribute
  <2>3. K - C = N - O /\ V = W /\ m * j = n * i /\ earned' = earned
    BY <1>4, <1>9, <2>2
  <2> HIDE DEF W, V, O, N, C, K
  <2> QED
    BY <1>1, <1>2, <1>5, <2>1, <2>3
<1> QED
  BY <1>6, <1>7, <1>8, <1>9 DEF StepKind

LEMMA AccountedInvariant == Spec => []Accounted
<1>1. TypeOK /\ Accounted /\ [Next]_vars => Accounted'
  BY StepEffect, AccountedStep
<1> QED
  BY AccountedInit, <1>1, TypeInvariant, PTL DEF Spec

(* The recipient is never paid more than the principal has earned.         *)
THEOREM ClaimedWithinEarnedTheorem == Spec => []ClaimedWithinEarned
<1>1. Accounted => ClaimedWithinEarned
  BY DEF Accounted
<1> QED
  BY <1>1, AccountedInvariant, PTL

(* Of what the principal has earned, less than one unit of principal is    *)
(* lost for every mint, burn and reconciliation made.                      *)
THEOREM RoundingLossTheorem == Spec => []RoundingLossBounded
<1>1. Accounted => RoundingLossBounded
  BY DEF Accounted
<1> QED
  BY <1>1, AccountedInvariant, PTL

(* Of the supply at most what rounding has kept, one unit of principal for *)
(* each conversion, is refused with BurnExceedsPrincipal.                  *)
THEOREM RetireTheorem == Spec => []SupplyCanBeRetired
<1>1. TypeOK /\ Accounted => SupplyCanBeRetired
  <2> SUFFICES ASSUME TypeOK, Accounted, NEW amount \in 0..totalSupply,
                      amount * IndexScale + conversions * GetCurrentIndex
                          <= Outstanding
               PROVE  FixedMulCeil(amount, IndexScale, GetCurrentIndex)
                          <= totalPrincipal
    BY DEF SupplyCanBeRetired
  <2> DEFINE i == GetCurrentIndex
             pv == FixedMulCeil(amount, IndexScale, i)
  <2>1. /\ totalPrincipal \in Nat /\ totalSupply \in Nat /\ amount \in Nat
        /\ conversions \in Nat /\ earned \in Nat /\ log.claimed \in Nat
        /\ IndexScale \in Nat \ {0}
    BY ScaleAssumption DEF TypeOK, YieldTypeOK
  <2>2. i \in Nat \ {0}
    <3>1. /\ YieldTypeOK /\ now \in Nat /\ latestIndex \in Nat
          /\ IndexScale <= latestIndex
      BY <2>1 DEF TypeOK, YieldTypeOK
    <3>2. IndexAt(now) \in Nat /\ latestIndex <= IndexAt(now)
      BY <3>1, IndexAtFacts
    <3> QED
      BY <2>1, <3>1, <3>2 DEF GetCurrentIndex
  <2>3. Outstanding - conversions * i <= Worth
    <3> DEFINE C == log.claimed * IndexScale
    <3>1. /\ C <= earned
          /\ earned + Outstanding - C - Worth <= conversions * i
      BY DEF Accounted, ClaimedWithinEarned, RoundingLossBounded
    <3>2. /\ C \in Nat /\ conversions * i \in Nat
          /\ Outstanding \in Nat /\ Worth \in Nat
      BY <2>1, <2>2, ProductMonotone DEF Outstanding, Worth
    <3> HIDE DEF C
    <3> QED
      BY <2>1, <3>1, <3>2
  <2>4. amount * IndexScale <= totalPrincipal * i
    <3>1. /\ amount * IndexScale \in Nat /\ conversions * i \in Nat
          /\ Outstanding \in Nat /\ Worth \in Nat
      BY <2>1, <2>2, ProductMonotone DEF Outstanding, Worth
    <3>2. amount * IndexScale <= Worth
      BY <2>3, <3>1
    <3> QED
      BY <3>2 DEF Worth
  <2> HIDE DEF i
  <2>5. pv \in Nat /\ pv * i < amount * IndexScale + i
    BY <2>1, <2>2, CeilFacts
  <2> HIDE DEF pv
  <2>6. pv * i < (totalPrincipal + 1) * i
    <3>1. /\ pv * i \in Nat /\ amount * IndexScale \in Nat
          /\ totalPrincipal * i \in Nat
      BY <2>1, <2>2, <2>5, ProductMonotone
    <3>2. (totalPrincipal + 1) * i = totalPrincipal * i + i
      BY <2>1, <2>2
    <3> QED
      BY <2>2, <2>4, <2>5, <3>1, <3>2
  <2>7. ~(totalPrincipal + 1 <= pv)
    <3>1. ASSUME totalPrincipal + 1 <= pv
          PROVE  (totalPrincipal + 1) * i <= pv * i
      BY <2>1, <2>2, <2>5, <3>1, ProductMonotone
    <3>2. pv * i \in Nat /\ (totalPrincipal + 1) * i \in Nat
      BY <2>1, <2>2, <2>5, ProductMonotone
    <3> QED
      BY <2>6, <3>1, <3>2
  <2> QED
    BY <2>1, <2>5, <2>7 DEF pv, i
<1> QED
  BY <1>1, AccountedInvariant, TypeInvariant, PTL

-----------------------------------------------------------------------------
(* The index can be updated.                                               *)

\* The products of update_index fit, up to an index of six hundred million
\* and a century since the last update.
UpdateFits ==
    /\ latestIndex <= 600000000 * IndexScale
    /\ now - lastUpdateTimestamp <= 100 * SecondsPerYear
    => CurrentIndexFits(latestIndex, rateBps, now - lastUpdateTimestamp)

(* With the scales the contract is built with, no entry point panics in    *)
(* update_index (yield_state.rs) as long as the index is at most six       *)
(* hundred million and some call updates it once in a century.             *)
THEOREM UpdateFitsTheorem == Roomy => (Spec => []UpdateFits)
<1> SUFFICES ASSUME Roomy PROVE Spec => []UpdateFits
  OBVIOUS
<1>1. TypeOK => UpdateFits
  <2> SUFFICES ASSUME TypeOK,
                      latestIndex <= 600000000 * IndexScale,
                      now - lastUpdateTimestamp <= 100 * SecondsPerYear
               PROVE  CurrentIndexFits(latestIndex, rateBps,
                                       now - lastUpdateTimestamp)
    BY DEF UpdateFits
  <2>1. /\ latestIndex \in Nat
        /\ rateBps \in Nat /\ rateBps <= MaxRateBps
        /\ now - lastUpdateTimestamp \in Nat
    BY DEF TypeOK, YieldTypeOK
  <2> QED
    BY <2>1, IndexCapacity
<1> QED
  BY <1>1, TypeInvariant, PTL

-----------------------------------------------------------------------------
(* No call creates claimable yield.                                        *)

\* A factor can be cancelled.
LEMMA CancelScale ==
    ASSUME NEW a \in Int, NEW b \in Int, a * IndexScale < b * IndexScale
    PROVE  a < b
<1> SUFFICES ASSUME b <= a PROVE FALSE
  OBVIOUS
<1>1. a - b \in Nat
  OBVIOUS
<1>2. (a - b) * IndexScale \in Nat
  BY <1>1, ProductMonotone
<1>3. (a - b) * IndexScale = a * IndexScale - b * IndexScale
  BY Distribute
<1>4. a * IndexScale \in Int /\ b * IndexScale \in Int
  OBVIOUS
<1> QED
  BY <1>2, <1>3, <1>4

\* Worth that grows no more than what is outstanding adds no yield.
LEMMA YieldDoesNotRise ==
    ASSUME NEW P \in Nat, NEW Q \in Nat, NEW T \in Nat, NEW U \in Nat,
           NEW i \in Nat,
           Q * i - P * i <= U * IndexScale - T * IndexScale
    PROVE  YieldAt(Q, i, U) <= YieldAt(P, i, T)
<1> DEFINE p == FixedMulFloor(P, i, IndexScale)
           q == FixedMulFloor(Q, i, IndexScale)
<1>1. /\ p \in Nat /\ P * i < p * IndexScale + IndexScale
      /\ q \in Nat /\ q * IndexScale <= Q * i
  BY FloorFacts
<1>2. /\ YieldAt(P, i, T) \in Nat /\ YieldAt(P, i, T) >= p - T
      /\ YieldAt(Q, i, U) \in Nat
      /\ YieldAt(Q, i, U) > 0 => YieldAt(Q, i, U) = q - U
  BY YieldAtFacts
<1> HIDE DEF p, q
<1>3. P * i \in Nat /\ Q * i \in Nat
  BY ProductMonotone
<1>4. q * IndexScale < p * IndexScale + IndexScale
                         + (U * IndexScale - T * IndexScale)
  <2>1. /\ p * IndexScale \in Nat /\ q * IndexScale \in Nat
        /\ U * IndexScale \in Nat /\ T * IndexScale \in Nat
    BY <1>1, ProductMonotone
  <2> QED
    BY <1>1, <1>3, <2>1
<1>5. p * IndexScale + IndexScale + (U * IndexScale - T * IndexScale)
        = (p + 1 + (U - T)) * IndexScale
  BY <1>1
<1>6. q < p + 1 + (U - T)
  <2>1. q \in Int /\ p + 1 + (U - T) \in Int
    BY <1>1
  <2>2. q * IndexScale < (p + 1 + (U - T)) * IndexScale
    BY <1>4, <1>5
  <2> QED
    BY <2>1, <2>2, CancelScale
<1> QED
  BY <1>1, <1>2, <1>6

\* accrued_yield is the yield at the real-time index.
LEMMA AccruedYieldIs ==
    ASSUME TypeOK, TypeOK'
    PROVE  /\ GetAccruedYield = YieldAt(totalPrincipal, GetCurrentIndex, totalSupply)
           /\ GetAccruedYield' = YieldAt(totalPrincipal', GetCurrentIndex',
                                         totalSupply')
<1>1. /\ now \in Nat /\ lastUpdateTimestamp \in 0..now
      /\ now' \in Nat /\ lastUpdateTimestamp' \in 0..now'
  BY DEF TypeOK, YieldTypeOK
<1>2. GetCurrentIndex
        = CurrentIndex(latestIndex, rateBps, now - lastUpdateTimestamp)
  BY <1>1 DEF GetCurrentIndex, IndexAt, CurrentIndex
<1>3. now' <= lastUpdateTimestamp' => now' - lastUpdateTimestamp' = 0
  <2>1. \A a \in Nat : \A b \in 0..a : a <= b => a - b = 0
    OBVIOUS
  <2> QED
    BY <1>1, <2>1, Zenon
<1>4. GetCurrentIndex'
        = CurrentIndex(latestIndex', rateBps', now' - lastUpdateTimestamp')
  <2>1. CASE now' <= lastUpdateTimestamp'
    <3>1. GetCurrentIndex' = latestIndex'
      BY <2>1 DEF GetCurrentIndex, IndexAt
    <3>2. CurrentIndex(latestIndex', rateBps', now' - lastUpdateTimestamp')
            = latestIndex'
      BY <2>1, <1>3 DEF CurrentIndex
    <3> QED
      BY <3>1, <3>2
  <2>2. CASE ~(now' <= lastUpdateTimestamp')
    BY <2>2 DEF GetCurrentIndex, IndexAt
  <2> QED
    BY <2>1, <2>2
<1> QED
  BY <1>2, <1>4 DEF GetAccruedYield, YieldAt

(* At a given ledger time no sequence of mints, burns, reconciliations,    *)
(* rate changes, claims and other calls raises accrued_yield: the rounding *)
(* of the present values, floor for a mint and ceiling for a burn, and the *)
(* index-before-state order (INV-9) suffice for every amount and index.    *)
THEOREM NoInstantYieldTheorem == Spec => NoInstantYield
<1>1. TypeOK /\ [Next]_vars
        => [now' = now => GetAccruedYield' <= GetAccruedYield]_vars
  <2> SUFFICES ASSUME TypeOK, [Next]_vars, now' = now
               PROVE  GetAccruedYield' <= GetAccruedYield
    OBVIOUS
  <2> DEFINE i == GetCurrentIndex
             P == totalPrincipal
             Q == totalPrincipal'
             T == totalSupply
             U == totalSupply'
  <2>1. TypeOK' /\ StepKind
    BY StepEffect
  <2>2. P \in Nat /\ Q \in Nat /\ T \in Nat /\ U \in Nat /\ i \in Nat
    BY <2>1, KindTypes
  <2>3. GetCurrentIndex' = i
    BY <2>1 DEF StepKind, Quiet, Accrual, Exchange, Payment
  <2>4. Q * i - P * i <= U * IndexScale - T * IndexScale
    <3>1. CASE Quiet
      <4>1. Q = P /\ U = T
        BY <3>1 DEF Quiet
      <4>2. P * i \in Int /\ T * IndexScale \in Int
        BY <2>2
      <4> QED
        BY <4>1, <4>2
    <3>2. CASE Accrual
      BY <3>2 DEF Accrual
    <3>3. CASE Exchange
      <4>1. \E pv, a \in Nat :
               \/ /\ Q = P + pv /\ U = T + a
                  /\ pv * i <= a * IndexScale
                  /\ a * IndexScale < pv * i + i
               \/ /\ Q = P - pv /\ U = T - a
                  /\ a * IndexScale <= pv * i
                  /\ pv * i < a * IndexScale + i
        BY <3>3 DEF Exchange, Issued, Retired
      <4> HIDE DEF i, P, Q, T, U
      <4> QED
        BY <2>2, <4>1, ExchangeFacts
    <3>4. CASE Payment
      <4>1. Q = P /\ T <= U
        BY <2>2, <3>4 DEF Payment
      <4> HIDE DEF i, P, Q, T, U
      <4>2. /\ T * IndexScale \in Nat /\ U * IndexScale \in Nat
            /\ T * IndexScale <= U * IndexScale
            /\ P * i \in Nat
        BY <2>2, <4>1, ProductMonotone
      <4> QED
        BY <4>1, <4>2
    <3> QED
      BY <2>1, <3>1, <3>2, <3>3, <3>4 DEF StepKind
  <2>5. YieldAt(Q, i, U) <= YieldAt(P, i, T)
    BY <2>2, <2>4, YieldDoesNotRise
  <2> QED
    BY <2>1, <2>3, <2>5, AccruedYieldIs
<1> QED
  BY <1>1, TypeInvariant, PTL DEF Spec, NoInstantYield
=============================================================================
