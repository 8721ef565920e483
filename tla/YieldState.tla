----------------------------- MODULE YieldState -----------------------------
(***************************************************************************)
(* yield_state.rs: the YieldStateValue record the gateway keeps in         *)
(* instance storage, the ledger clock it is read against, and the          *)
(* functions the entry points call on it.                                  *)
(*                                                                         *)
(* An entry point is one transaction and calls several of these functions  *)
(* in a row, each reading what the one before it wrote.  UpdateIndex comes *)
(* first and determines latestIndex'; the functions that follow it read    *)
(* latestIndex'.                                                           *)
(***************************************************************************)
EXTENDS ContinuousIndex

VARIABLES rateBps, latestIndex, lastUpdateTimestamp, totalPrincipal,
          totalSupply,
          now,          \* env.ledger().timestamp()
          earned,       \* history: the yield the principal has earned so far,
                        \*   in token units times IndexScale
          conversions   \* history: present-value conversions made so far

CONSTANTS DeployTime,   \* the ledger time of the constructor
          MaxTime       \* bound: the last ledger time of a behaviour

ASSUME TimeAssumption == DeployTime \in Nat /\ MaxTime \in Nat

indexVars == <<latestIndex, lastUpdateTimestamp>>
accumulators == <<totalPrincipal, totalSupply>>
yieldVars == <<rateBps, latestIndex, lastUpdateTimestamp, totalPrincipal,
               totalSupply, now, earned, conversions>>

YieldTypeOK ==
    /\ rateBps \in 0..MaxRateBps
    /\ latestIndex \in IndexScale..MaxI128
    /\ now \in Nat
    /\ lastUpdateTimestamp \in 0..now
    /\ totalPrincipal \in 0..MaxI128
    /\ totalSupply \in 0..MaxI128
    /\ earned \in Nat
    /\ conversions \in Nat

\* read_yield_state before the first write: YieldStateValue::default().
YieldInit ==
    /\ rateBps = 0
    /\ latestIndex = IndexScale
    /\ lastUpdateTimestamp = 0
    /\ totalPrincipal = 0
    /\ totalSupply = 0
    /\ now = DeployTime
    /\ earned = 0
    /\ conversions = 0

-----------------------------------------------------------------------------
(* Views.                                                                  *)

IndexAt(t) ==
    IF t <= lastUpdateTimestamp
    THEN latestIndex
    ELSE CurrentIndex(latestIndex, rateBps, t - lastUpdateTimestamp)

GetCurrentIndex == IndexAt(now)

YieldAt(principal, index, supply) ==
    LET worth == FixedMulFloor(principal, index, IndexScale)
    IN  IF principal = 0 \/ worth < supply THEN 0 ELSE worth - supply

GetAccruedYield ==
    YieldAt(totalPrincipal,
            CurrentIndex(latestIndex, rateBps, now - lastUpdateTimestamp),
            totalSupply)

-----------------------------------------------------------------------------
(* update_index: the timestamp moves even when the rate is 0 and the index *)
(* stands still.                                                           *)

\* Mutated: the call is forgotten.
SkipUpdateIndex == UNCHANGED indexVars

\* Mutated: the timestamp moves, the index is not stored.
StampOnly ==
    /\ lastUpdateTimestamp' = now
    /\ UNCHANGED latestIndex

\* Mutated: nothing is stored unless the index changes.
UpdateIndexOnGrowth ==
    LET current == CurrentIndex(latestIndex, rateBps, now - lastUpdateTimestamp)
    IN  IF current = latestIndex
        THEN UNCHANGED indexVars
        ELSE /\ latestIndex' = current
             /\ lastUpdateTimestamp' = now

UpdateIndex ==
    \/ /\ now <= lastUpdateTimestamp
       /\ UNCHANGED indexVars
    \/ /\ now > lastUpdateTimestamp
       /\ CurrentIndexFits(latestIndex, rateBps, now - lastUpdateTimestamp)
       /\ latestIndex' = CurrentIndex(latestIndex, rateBps,
                                      now - lastUpdateTimestamp)
       /\ lastUpdateTimestamp' = now

-----------------------------------------------------------------------------
(* The accumulators.  A mint rounds its present value down, a burn up.     *)

IncreaseBothAccumulators(amount) ==
    LET pv == FixedMulFloor(amount, IndexScale, latestIndex')
    IN  /\ MulFits(amount, IndexScale)
        /\ Fits(totalPrincipal + pv)
        /\ Fits(totalSupply + amount)
        /\ totalPrincipal' = totalPrincipal + pv
        /\ totalSupply' = totalSupply + amount
        /\ conversions' = conversions + 1

\* Mutated: the claimed amount is not counted.
LeaveTotalSupply(amount) == UNCHANGED <<accumulators, conversions>>

IncreaseTotalSupply(amount) ==
    /\ Fits(totalSupply + amount)
    /\ totalSupply' = totalSupply + amount
    /\ UNCHANGED <<totalPrincipal, conversions>>

\* Mutated: only the principal is reduced.
DecreasePrincipal(amount) ==
    LET pv == FixedMulCeil(amount, IndexScale, latestIndex')
    IN  /\ amount <= totalSupply
        /\ pv <= totalPrincipal
        /\ totalPrincipal' = totalPrincipal - pv
        /\ conversions' = conversions + 1
        /\ UNCHANGED totalSupply

DecreaseBothAccumulators(amount) ==
    LET pv == FixedMulCeil(amount, IndexScale, latestIndex')
    IN  /\ amount <= totalSupply                   \* else BurnExceedsSupply
        /\ MulFits(amount, IndexScale)
        /\ pv <= totalPrincipal                    \* else BurnExceedsPrincipal
        /\ totalPrincipal' = totalPrincipal - pv
        /\ totalSupply' = totalSupply - amount
        /\ conversions' = conversions + 1

\* Mutated: without the maximum.
WriteUncheckedRate(rate) == rateBps' = rate

WriteInterestRate(rate) ==
    /\ rate <= MaxRateBps                          \* else RateExceedsMax
    /\ rateBps' = rate

-----------------------------------------------------------------------------
(* A ledger closes one unit of time later.  earned follows the real-time   *)
(* index, whenever and however often the contract stores it.               *)

AdvanceTime ==
    /\ now < MaxTime
    /\ now' = now + 1
    /\ earned' = earned + totalPrincipal * (IndexAt(now + 1) - IndexAt(now))
    /\ UNCHANGED <<rateBps, indexVars, accumulators, conversions>>
=============================================================================
