---------------------------- MODULE ControlProofs ---------------------------
(***************************************************************************)
(* Theorems about supply and control: what the events and the balances add *)
(* up to, what a pause stops, and what a caller may bring about by its     *)
(* roles.  They need no arithmetic of the index, only TypeOK (TypeInvariant) *)
(* and a look at what every entry point and every outside step changes.    *)
(*                                                                         *)
(* The balances are summed by recursion over sets of holders.  That the    *)
(* sums exist and follow single balances is an induction over those sets,  *)
(* made with a set, the ones it holds of, in place of a predicate.         *)
(***************************************************************************)
EXTENDS GatewayProofs, FiniteSetTheorems, WellFoundedInduction

USE MaxI128Assumption, ScaleAssumption, InputAssumption, AssetAssumption

-----------------------------------------------------------------------------
(* The events.                                                             *)

\* What a step adds to total_supply and to the sums of the events.
Counted ==
    \/ UNCHANGED <<totalSupply, log>>
    \/ \E a \in Nat :
          \/ totalSupply' = totalSupply + a
             /\ \/ log' = [log EXCEPT !.minted = @ + a]
                \/ log' = [log EXCEPT !.claimed = @ + a]
          \/ totalSupply' = totalSupply - a
             /\ \/ log' = [log EXCEPT !.burned = @ + a]
                \/ log' = [log EXCEPT !.reconciled = @ + a]

LEMMA ClaimEffect ==
    ASSUME TypeOK, NEW caller, ClaimYield(caller)
    PROVE  \/ UNCHANGED <<totalSupply, log, balance>>
           \/ \E a \in Nat \ {0} : /\ totalSupply' = totalSupply + a
                                  /\ log' = [log EXCEPT !.claimed = @ + a]
<1> DEFINE i == CurrentIndex(latestIndex', rateBps, now - lastUpdateTimestamp')
           a == YieldAt(totalPrincipal, i, totalSupply)
<1>1. YieldTypeOK /\ UpdateIndex /\ UNCHANGED <<rateBps, now>>
  BY DEF TypeOK, ClaimYield
<1>2. /\ latestIndex' = GetCurrentIndex /\ latestIndex' \in IndexScale..MaxI128
      /\ lastUpdateTimestamp' = now
  BY <1>1, UpdateIndexFacts
<1>3. totalPrincipal \in Nat /\ totalSupply \in Nat /\ now \in Nat
  BY <1>1 DEF YieldTypeOK
<1>4. i \in Nat
  <2>1. i = GetCurrentIndex
    BY <1>2, <1>3, CurrentIndexAtOnce
  <2> QED
    BY <1>2, <2>1
<1>5. a \in Nat
  <2> HIDE DEF i
  <2> QED
    BY <1>3, <1>4, YieldAtFacts
<1>6. \/ /\ a > 0
         /\ totalSupply' = totalSupply + a
         /\ log' = [log EXCEPT !.claimed = @ + a]
      \/ UNCHANGED <<totalSupply, log, balance>>
  BY DEF ClaimYield, IncreaseTotalSupply, accumulators
<1> HIDE DEF a
<1>7. a > 0 => a \in Nat \ {0}
  BY <1>5
<1> QED
  BY <1>6, <1>7

LEMMA ClaimCounted ==
    ASSUME TypeOK, NEW caller, ClaimYield(caller)
    PROVE  Counted
  BY ClaimEffect DEF Counted

LEMMA CallCounted ==
    ASSUME TypeOK, NEW caller \in Operators, GatewayCall(caller)
    PROVE  Counted
<1>1. ASSUME NEW to \in Accounts, NEW amount \in Amounts,
             Mint(caller, to, amount)
      PROVE  Counted
  <2>1. /\ amount \in Nat /\ totalSupply' = totalSupply + amount
        /\ log' = [log EXCEPT !.minted = @ + amount]
    BY <1>1 DEF Mint, CheckPositiveAmount, IncreaseBothAccumulators
  <2> QED
    BY <2>1 DEF Counted
<1>2. ASSUME NEW from \in Holders, NEW amount \in Amounts,
             Burn(caller, from, amount)
      PROVE  Counted
  <2>1. /\ amount \in Nat /\ totalSupply' = totalSupply - amount
        /\ log' = [log EXCEPT !.burned = @ + amount]
    BY <1>2 DEF Burn, CheckPositiveAmount, DecreaseBothAccumulators
  <2> QED
    BY <2>1 DEF Counted
<1>3. ASSUME NEW amount \in Amounts, ReconcileBurn(caller, amount)
      PROVE  Counted
  <2>1. /\ amount \in Nat /\ totalSupply' = totalSupply - amount
        /\ log' = [log EXCEPT !.reconciled = @ + amount]
    BY <1>3 DEF ReconcileBurn, CheckPositiveAmount, DecreaseBothAccumulators
  <2> QED
    BY <2>1 DEF Counted
<1>4. CASE ClaimYield(caller)
  BY <1>4, ClaimCounted
<1>5. ASSUME NEW rate \in Rates, SetInterestRate(caller, rate)
      PROVE  Counted
  BY <1>5 DEF SetInterestRate, Counted, accumulators, gatewayVars
<1>6. ASSUME NEW from, NEW to, NEW amount, ForceTransfer(caller, from, to, amount)
      PROVE  Counted
  BY <1>6 DEF ForceTransfer, Counted, yieldVars, accumulators, gatewayVars
<1>7. ASSUME NEW users, BlockUsers(caller, users) \/ UnblockUsers(caller, users)
      PROVE  Counted
  BY <1>7 DEF BlockUsers, UnblockUsers, Counted, yieldVars, accumulators,
              gatewayVars
<1>8. CASE Pause(caller) \/ Unpause(caller)
  BY <1>8 DEF Pause, Unpause, Counted, yieldVars, accumulators
<1>9. ASSUME NEW newSacAdmin, TransferSacAdmin(caller, newSacAdmin)
      PROVE  Counted
  BY <1>9 DEF TransferSacAdmin, Counted, yieldVars, accumulators, gatewayVars
<1>10. ASSUME NEW addr, RoleChange(caller, addr) \/ RecipientChange(caller, addr)
       PROVE  Counted
  BY <1>10 DEF RoleChange, RecipientChange, Counted, yieldVars, accumulators,
               gatewayVars
<1> QED
  BY <1>1, <1>2, <1>3, <1>4, <1>5, <1>6, <1>7, <1>8, <1>9, <1>10
  DEF GatewayCall, BlockUser, UnblockUser, BatchBlockUsers, BatchUnblockUsers

LEMMA EventsStep ==
    ASSUME TypeOK, EventsGiveSupply, [Next]_vars
    PROVE  EventsGiveSupply'
<1>1. Counted
  <2>1. CASE UNCHANGED vars
    BY <2>1 DEF vars, yieldVars, accumulators, gatewayVars, Counted
  <2>2. CASE OutsideStep
    BY <2>2 DEF OutsideStep, yieldVars, accumulators, gatewayVars, Counted
  <2>3. CASE Tick
    BY <2>3 DEF Tick, AdvanceTime, accumulators, gatewayVars, Counted
  <2> QED
    BY <2>1, <2>2, <2>3, CallCounted DEF Next
<1>2. /\ totalSupply \in Nat
      /\ log \in [minted : Nat, burned : Nat, reconciled : Nat, claimed : Nat]
  BY DEF TypeOK, YieldTypeOK
<1> QED
  BY <1>1, <1>2 DEF Counted, EventsGiveSupply

(* Whoever adds up the amounts of the mint, burn, reconcile and            *)
(* yield_claimed events knows total_supply, after any history of calls.    *)
THEOREM EventsTheorem == Spec => []EventsGiveSupply
<1>1. Init => EventsGiveSupply
  BY DEF Init, YieldInit, EventsGiveSupply
<1>2. TypeOK /\ EventsGiveSupply /\ [Next]_vars => EventsGiveSupply'
  BY EventsStep
<1> QED
  BY <1>1, <1>2, TypeInvariant, PTL DEF Spec

-----------------------------------------------------------------------------
(* A pause.                                                                *)

\* While it is paused the minter and the claim are refused; what is left
\* moves none of their sums and not the rate.
LEMMA PausedCall ==
    ASSUME TypeOK, paused, NEW caller \in Operators, GatewayCall(caller)
    PROVE  /\ log'.minted = log.minted
           /\ log'.burned = log.burned
           /\ log'.claimed = log.claimed
           /\ rateBps' = rateBps
<1>1. ASSUME NEW to, NEW amount,
             Mint(caller, to, amount) \/ Burn(caller, to, amount)
      PROVE  FALSE
  BY <1>1 DEF Mint, Burn, WhenNotPaused
<1>2. ASSUME NEW rate, SetInterestRate(caller, rate) \/ ClaimYield(caller)
      PROVE  FALSE
  BY <1>2 DEF SetInterestRate, ClaimYield, WhenNotPaused
<1>3. ASSUME NEW amount \in Amounts, ReconcileBurn(caller, amount)
      PROVE  /\ rateBps' = rateBps
             /\ log' = [log EXCEPT !.reconciled = @ + amount]
  BY <1>3 DEF ReconcileBurn
<1>4. ASSUME NEW from, NEW to, NEW amount, ForceTransfer(caller, from, to, amount)
      PROVE  rateBps' = rateBps /\ log' = log
  BY <1>4 DEF ForceTransfer, yieldVars, gatewayVars
<1>5. ASSUME NEW users, BlockUsers(caller, users) \/ UnblockUsers(caller, users)
      PROVE  rateBps' = rateBps /\ log' = log
  BY <1>5 DEF BlockUsers, UnblockUsers, yieldVars, gatewayVars
<1>6. ASSUME Pause(caller) \/ Unpause(caller)
      PROVE  rateBps' = rateBps /\ log' = log
  BY <1>6 DEF Pause, Unpause, yieldVars
<1>7. ASSUME NEW newSacAdmin, TransferSacAdmin(caller, newSacAdmin)
      PROVE  rateBps' = rateBps /\ log' = log
  BY <1>7 DEF TransferSacAdmin, yieldVars, gatewayVars
<1>8. ASSUME NEW addr, RoleChange(caller, addr) \/ RecipientChange(caller, addr)
      PROVE  rateBps' = rateBps /\ log' = log
  BY <1>8 DEF RoleChange, RecipientChange, yieldVars, gatewayVars
<1>9. log \in [minted : Nat, burned : Nat, reconciled : Nat, claimed : Nat]
  BY DEF TypeOK
<1> QED
  BY <1>1, <1>2, <1>3, <1>4, <1>5, <1>6, <1>7, <1>8, <1>9
  DEF GatewayCall, BlockUser, UnblockUser, BatchBlockUsers, BatchUnblockUsers

(* No supply is created or retired by the minter or the claim, and the     *)
(* rate stands still, while the gateway is paused, whoever calls it.       *)
THEOREM PauseTheorem == Spec => PauseFreezesSupply
<1>1. TypeOK /\ [Next]_vars
        => [paused => /\ log'.minted = log.minted
                      /\ log'.burned = log.burned
                      /\ log'.claimed = log.claimed
                      /\ rateBps' = rateBps]_vars
  <2> SUFFICES ASSUME TypeOK, Next, paused
               PROVE  /\ log'.minted = log.minted
                      /\ log'.burned = log.burned
                      /\ log'.claimed = log.claimed
                      /\ rateBps' = rateBps
    OBVIOUS
  <2>1. CASE OutsideStep \/ Tick
    BY <2>1 DEF OutsideStep, Tick, AdvanceTime, yieldVars, gatewayVars
  <2> QED
    BY <2>1, PausedCall DEF Next
<1> QED
  BY <1>1, TypeInvariant, PTL DEF Spec, PauseFreezesSupply

-----------------------------------------------------------------------------
(* Who may do what.                                                        *)

\* What an entry point leaves alone asks no role of its caller.
LEMMA TrustlinesKept ==
    ASSUME UNCHANGED trustline
    PROVE  \A h \in Holders : Authorized(h)' <=> Authorized(h)
  BY DEF Authorized

LEMMA RolesKept ==
    ASSUME UNCHANGED roleVars
    PROVE  ~Appointed /\ UNCHANGED yieldRecipient
  BY DEF roleVars, singleRoles, Appointed

LEMMA SupplyRoles ==
    ASSUME TypeOK, NEW caller \in Operators, NEW a, NEW amount \in Amounts,
           \/ Mint(caller, a, amount) \/ Burn(caller, a, amount)
           \/ ReconcileBurn(caller, amount)
    PROVE  Entitled(caller)
<1>1. /\ log \in [minted : Nat, burned : Nat, reconciled : Nat, claimed : Nat]
      /\ totalSupply \in Nat /\ amount \in Int
  BY DEF TypeOK, YieldTypeOK
<1>2. UNCHANGED <<trustline, sacAdmin, roleVars, paused>>
  BY DEF Mint, Burn, ReconcileBurn, assetVars
<1>3. /\ ~Appointed /\ UNCHANGED yieldRecipient
      /\ \A h \in Holders : Authorized(h)' <=> Authorized(h)
  BY <1>2, RolesKept, TrustlinesKept
<1>4. ASSUME Mint(caller, a, amount)
      PROVE  Entitled(caller)
  <2>1. /\ caller = minter /\ amount > 0
        /\ totalSupply' = totalSupply + amount
        /\ log' = [log EXCEPT !.minted = @ + amount]
    BY <1>4 DEF Mint, RequireRoleHolder, CheckPositiveAmount,
                IncreaseBothAccumulators
  <2>2. totalSupply' # totalSupply
    BY <1>1, <2>1
  <2>3. log'.claimed = log.claimed /\ log'.reconciled = log.reconciled
    BY <1>1, <2>1
  <2> QED
    BY <1>2, <1>3, <2>1, <2>2, <2>3, Zenon DEF Entitled
<1>5. ASSUME Burn(caller, a, amount)
      PROVE  Entitled(caller)
  <2>1. /\ caller = minter /\ amount > 0
        /\ totalSupply' = totalSupply - amount
        /\ log' = [log EXCEPT !.burned = @ + amount]
    BY <1>5 DEF Burn, RequireRoleHolder, CheckPositiveAmount,
                DecreaseBothAccumulators
  <2>2. totalSupply' # totalSupply
    BY <1>1, <2>1
  <2>3. log'.claimed = log.claimed /\ log'.reconciled = log.reconciled
    BY <1>1, <2>1
  <2> QED
    BY <1>2, <1>3, <2>1, <2>2, <2>3, Zenon DEF Entitled
<1>6. ASSUME ReconcileBurn(caller, amount)
      PROVE  Entitled(caller)
  <2>1. /\ caller = admin /\ UNCHANGED <<rateBps, balance>>
        /\ log' = [log EXCEPT !.reconciled = @ + amount]
    BY <1>6 DEF ReconcileBurn, RequireAdmin, assetVars
  <2>2. /\ log'.minted = log.minted /\ log'.burned = log.burned
        /\ log'.claimed = log.claimed
    BY <1>1, <2>1
  <2> QED
    BY <1>2, <1>3, <2>1, <2>2, Zenon DEF Entitled
<1> QED
  BY <1>4, <1>5, <1>6

LEMMA RateRoles ==
    ASSUME NEW caller, NEW rate, SetInterestRate(caller, rate)
    PROVE  Entitled(caller)
<1>1. caller = minter /\ UNCHANGED <<assetVars, roleVars, log, paused>>
  BY DEF SetInterestRate, RequireRoleHolder, gatewayVars
<1>2. UNCHANGED <<trustline, balance, sacAdmin>>
  BY <1>1 DEF assetVars
<1>3. /\ ~Appointed /\ UNCHANGED yieldRecipient
      /\ \A h \in Holders : Authorized(h)' <=> Authorized(h)
  BY <1>1, <1>2, RolesKept, TrustlinesKept
<1> QED
  BY <1>1, <1>2, <1>3, Zenon DEF Entitled

LEMMA CustodyRoles ==
    ASSUME TypeOK, NEW caller \in Operators, NEW from, NEW to, NEW amount,
           NEW users, NEW newSacAdmin,
           \/ ForceTransfer(caller, from, to, amount) \/ ClaimYield(caller)
           \/ BlockUsers(caller, users) \/ UnblockUsers(caller, users)
           \/ Pause(caller) \/ Unpause(caller)
           \/ TransferSacAdmin(caller, newSacAdmin)
    PROVE  Entitled(caller)
<1>1. /\ log \in [minted : Nat, burned : Nat, reconciled : Nat, claimed : Nat]
      /\ totalSupply \in Nat /\ trustline \in [Holders -> Trust]
  BY DEF TypeOK, YieldTypeOK, AssetTypeOK
<1>2. UNCHANGED <<rateBps, roleVars>>
  BY DEF ForceTransfer, ClaimYield, BlockUsers, UnblockUsers, Pause, Unpause,
         TransferSacAdmin, yieldVars
<1>3. ~Appointed /\ UNCHANGED yieldRecipient
  BY <1>2, RolesKept
<1>4. ASSUME ForceTransfer(caller, from, to, amount)
      PROVE  Entitled(caller)
  <2>1. /\ caller = forcedTransferManager
        /\ UNCHANGED <<trustline, sacAdmin, log, paused>>
    BY <1>4 DEF ForceTransfer, RequireRoleHolder, gatewayVars
  <2>2. \A h \in Holders : Authorized(h)' <=> Authorized(h)
    BY <2>1, TrustlinesKept
  <2> QED
    BY <1>2, <1>3, <2>1, <2>2, Zenon DEF Entitled
<1>5. ASSUME ClaimYield(caller)
      PROVE  Entitled(caller)
  <2>1. /\ caller = yieldRecipientManager
        /\ UNCHANGED <<trustline, sacAdmin, paused>>
    BY <1>5 DEF ClaimYield, RequireRoleHolder
  <2>2. \A h \in Holders : Authorized(h)' <=> Authorized(h)
    BY <2>1, TrustlinesKept
  <2>3. CASE UNCHANGED <<totalSupply, log, balance>>
    BY <1>2, <1>3, <2>1, <2>2, <2>3, Zenon DEF Entitled
  <2>4. CASE \E a \in Nat \ {0} : /\ totalSupply' = totalSupply + a
                                /\ log' = [log EXCEPT !.claimed = @ + a]
    <3>1. /\ totalSupply' # totalSupply
          /\ log'.minted = log.minted /\ log'.burned = log.burned
          /\ log'.reconciled = log.reconciled
      BY <1>1, <2>4
    <3> QED
      BY <1>2, <1>3, <2>1, <2>2, <3>1, Zenon DEF Entitled
  <2> QED
    BY <1>5, <2>3, <2>4, ClaimEffect
<1>6. ASSUME BlockUsers(caller, users)
      PROVE  Entitled(caller)
  <2>1. /\ caller \in blockOperators
        /\ UNCHANGED <<balance, sacAdmin, log, paused>>
        /\ trustline' = [h \in Holders |-> IF h \notin users THEN trustline[h]
                                          ELSE "unauthorized"]
    BY <1>6 DEF BlockUsers, RequireMember, SacSetAuthorized, gatewayVars
  <2>2. \A h \in Holders : Authorized(h)' => Authorized(h)
    BY <2>1 DEF Authorized
  <2> QED
    BY <1>2, <1>3, <2>1, <2>2, Zenon DEF Entitled
<1>7. ASSUME UnblockUsers(caller, users)
      PROVE  Entitled(caller)
  <2>1. /\ caller \in unblockOperators
        /\ UNCHANGED <<balance, sacAdmin, log, paused>>
        /\ trustline' = [h \in Holders |-> IF h \notin users THEN trustline[h]
                                          ELSE "authorized"]
    BY <1>7 DEF UnblockUsers, RequireMember, SacSetAuthorized, gatewayVars
  <2>2. \A h \in Holders : Authorized(h) => Authorized(h)'
    BY <2>1 DEF Authorized
  <2> QED
    BY <1>2, <1>3, <2>1, <2>2, Zenon DEF Entitled
<1>8. ASSUME \/ Pause(caller) \/ Unpause(caller)
             \/ TransferSacAdmin(caller, newSacAdmin)
      PROVE  Entitled(caller)
  <2>1. /\ UNCHANGED <<balance, trustline, log>>
        /\ paused' # paused => caller \in pausers
        /\ sacAdmin' # sacAdmin => caller = admin
    BY <1>8 DEF Pause, Unpause, TransferSacAdmin, RequireMember, RequireAdmin,
                assetVars, gatewayVars
  <2>2. \A h \in Holders : Authorized(h)' <=> Authorized(h)
    BY <2>1, TrustlinesKept
  <2> QED
    BY <1>2, <1>3, <2>1, <2>2, Zenon DEF Entitled
<1> QED
  BY <1>4, <1>5, <1>6, <1>7, <1>8

LEMMA AppointmentRoles ==
    ASSUME NEW caller, NEW addr,
           RoleChange(caller, addr) \/ RecipientChange(caller, addr)
    PROVE  Entitled(caller)
<1>1. UNCHANGED <<rateBps, balance, trustline, sacAdmin, log, paused>>
  BY DEF RoleChange, RecipientChange, yieldVars, assetVars, gatewayVars
<1>2. \A h \in Holders : Authorized(h)' <=> Authorized(h)
  BY <1>1, TrustlinesKept
<1>3. RoleChange(caller, addr) => caller = admin /\ UNCHANGED yieldRecipient
  BY DEF RoleChange, SetAdmin, SetMinter, SetYieldRecipientManager,
         SetForcedTransferManager, AddBlockOperator, RemoveBlockOperator,
         AddUnblockOperator, RemoveUnblockOperator, AddPauser, RemovePauser,
         RequireAdmin, singleRoles
<1>4. RecipientChange(caller, addr)
          => caller = yieldRecipientManager /\ ~Appointed
  BY DEF RecipientChange, SetYieldRecipient, RequireRoleHolder, Appointed
<1> QED
  BY <1>1, <1>2, <1>3, <1>4, Zenon DEF Entitled

(* A call has only the effects its caller's roles are for, for any number  *)
(* of addresses and after any grants, removals and rotations: no role      *)
(* stands in for another and the admin for none.                           *)
THEOREM RolesTheorem == Spec => EffectsNeedRoles
<1>1. ASSUME TypeOK, NEW caller \in Operators, GatewayCall(caller)
      PROVE  Entitled(caller)
  <2>1. ASSUME NEW a, NEW amount \in Amounts,
               \/ Mint(caller, a, amount) \/ Burn(caller, a, amount)
               \/ ReconcileBurn(caller, amount)
        PROVE  Entitled(caller)
    BY <1>1, <2>1, SupplyRoles
  <2>2. ASSUME NEW rate, SetInterestRate(caller, rate)
        PROVE  Entitled(caller)
    BY <2>2, RateRoles
  <2>3. ASSUME NEW from, NEW to, NEW amount,
               ForceTransfer(caller, from, to, amount) \/ ClaimYield(caller)
        PROVE  Entitled(caller)
    BY <1>1, <2>3, CustodyRoles
  <2>4. ASSUME NEW users, BlockUsers(caller, users) \/ UnblockUsers(caller, users)
        PROVE  Entitled(caller)
    BY <1>1, <2>4, CustodyRoles
  <2>5. ASSUME NEW newSacAdmin,
               \/ Pause(caller) \/ Unpause(caller)
               \/ TransferSacAdmin(caller, newSacAdmin)
        PROVE  Entitled(caller)
    BY <1>1, <2>5, CustodyRoles
  <2>6. ASSUME NEW addr, RoleChange(caller, addr) \/ RecipientChange(caller, addr)
        PROVE  Entitled(caller)
    BY <2>6, AppointmentRoles
  <2> QED
    BY <1>1, <2>1, <2>2, <2>3, <2>4, <2>5, <2>6
    DEF GatewayCall, BlockUser, UnblockUser, BatchBlockUsers, BatchUnblockUsers
<1>2. TypeOK /\ [Next]_vars
        => [\A caller \in Operators :
               ~Entitled(caller) => ~GatewayCall(caller)]_vars
  BY <1>1
<1> QED
  BY <1>2, TypeInvariant, PTL DEF Spec, EffectsNeedRoles

-----------------------------------------------------------------------------
(* Sums over the holders.  MapThenSumSet chooses a function that is equal  *)
(* to its own definition by recursion over the sets of holders.  That the  *)
(* function exists, and what it does when one balance changes, is shown by *)
(* induction on the number of holders, which rests on the well-foundedness *)
(* of < on the naturals.                                                   *)

LEMMA Below ==
    ASSUME NEW m \in Nat, NEW n \in Nat, m < n
    PROVE  <<m, n>> \in OpToRel(<, Nat)
  BY Zenon DEF OpToRel

\* Every set of naturals that is not empty has a least element.
LEMMA LeastNumber ==
    ASSUME NEW T, T \subseteq Nat, T # {}
    PROVE  \E n \in T : \A m \in T : n <= m
<1> DEFINE R == OpToRel(<, Nat)
<1>1. IsWellFoundedOn(R, Nat)
  BY NatLessThanWellFounded, Zenon
<1>2. ASSUME NEW m \in Nat, NEW n \in Nat, m < n PROVE <<m,n>> \in R
  BY <1>2, Below, Zenon
<1> HIDE DEF R
<1>3. \E n \in T : \A m \in T : ~ (<<m, n>> \in R)
  BY <1>1, WFMin, Zenon
<1>4. PICK n \in T : \A m \in T : ~ (<<m, n>> \in R)
  BY <1>3
<1>5. ASSUME NEW m \in T PROVE n <= m
  <2>1. m \in Nat /\ n \in Nat
    OBVIOUS
  <2>2. ~(m < n)
    BY <2>1, <1>2, <1>4
  <2> QED
    BY <2>1, <2>2
<1> QED
  BY <1>5

\* What MapThenSumSet computes: the sums of f over every set of holders, each
\* from the sum over a set with one holder less.
Rest(s) == s \ {CHOOSE x \in s : TRUE}
Body(f, g, s) == IF s = {} THEN 0 ELSE f[CHOOSE x \in s : TRUE] + g[Rest(s)]
Sums(f) == CHOOSE g : g = [s \in SUBSET Holders |-> Body(f, g, s)]

\* What is left of a set is smaller than the set.
LEMMA RestSmaller ==
    ASSUME NEW s \in SUBSET Holders, s # {}
    PROVE  /\ Rest(s) \in SUBSET Holders /\ (CHOOSE x \in s : TRUE) \in s
           /\ Cardinality(s) \in Nat /\ Cardinality(Rest(s)) \in Nat
           /\ Cardinality(Rest(s)) < Cardinality(s)
<1>1. IsFiniteSet(s)
  BY AssetAssumption, FS_Subset
<1>2. (CHOOSE x \in s : TRUE) \in s
  OBVIOUS
<1>3. /\ Cardinality(Rest(s)) = Cardinality(s) - 1 /\ IsFiniteSet(Rest(s))
  BY <1>1, <1>2, FS_RemoveElement DEF Rest
<1>4. Cardinality(s) \in Nat /\ Cardinality(Rest(s)) \in Nat
  BY <1>1, <1>3, FS_CardinalityType
<1> QED
  BY <1>2, <1>3, <1>4 DEF Rest

\* Induction over the sets of holders, as the inclusion of a set: a smallest
\* set outside T would have its rest in T.
LEMMA SubsetInduction ==
    ASSUME NEW T, {} \in T,
           \A s \in SUBSET Holders : s # {} /\ Rest(s) \in T => s \in T
    PROVE  SUBSET Holders \subseteq T
<1> SUFFICES ASSUME NEW w \in SUBSET Holders, w \notin T PROVE FALSE
  OBVIOUS
<1> DEFINE N == {Cardinality(s) : s \in (SUBSET Holders) \ T}
<1>1. N \subseteq Nat
  BY AssetAssumption, FS_Subset, FS_CardinalityType
<1>2. N # {}
  OBVIOUS
<1>3. PICK n \in N : \A m \in N : n <= m
  <2> HIDE DEF N
  <2> QED
    BY <1>1, <1>2, LeastNumber
<1>4. PICK s \in (SUBSET Holders) \ T : n = Cardinality(s)
  BY <1>3
<1>5. s # {} /\ Rest(s) \in (SUBSET Holders) \ T
  BY <1>4, RestSmaller
<1>6. Cardinality(Rest(s)) \in N
  BY <1>5
<1>7. Cardinality(Rest(s)) < Cardinality(s) /\ Cardinality(s) \in Nat /\ Cardinality(Rest(s)) \in Nat
  BY <1>5, RestSmaller
<1> QED
  BY <1>3, <1>4, <1>6, <1>7

\* The equation of Sums has a solution: one for the sets of at most n holders,
\* for every n.
LEMMA SumsExist ==
    ASSUME NEW f
    PROVE  \E g : g = [s \in SUBSET Holders |-> Body(f, g, s)]
<1> DEFINE OK(n) == \E g : \A s \in SUBSET Holders :
                        Cardinality(s) <= n => g[s] = Body(f, g, s)
           T == {n \in Nat : ~OK(n)}
<1>1. OK(0)
  <2> DEFINE g == [s \in SUBSET Holders |-> 0]
  <2>1. \A s \in SUBSET Holders : Cardinality(s) <= 0 => s = {}
    BY RestSmaller
  <2>2. \A s \in SUBSET Holders : Cardinality(s) <= 0 => g[s] = Body(f, g, s)
    BY <2>1 DEF Body
  <2> QED
    BY <2>2
<1>2. ASSUME NEW n \in Nat, OK(n) PROVE OK(n + 1)
  <2>1. PICK g : \A s \in SUBSET Holders :
                     Cardinality(s) <= n => g[s] = Body(f, g, s)
    BY <1>2
  <2> DEFINE h == [s \in SUBSET Holders |-> Body(f, g, s)]
  <2>2. ASSUME NEW s \in SUBSET Holders, Cardinality(s) <= n + 1
        PROVE  h[s] = Body(f, h, s)
    <3>1. CASE s = {}
      BY <3>1 DEF Body
    <3>2. CASE s # {}
      <4>1. Rest(s) \in SUBSET Holders /\ Cardinality(Rest(s)) <= n
        BY <2>2, <3>2, RestSmaller
      <4>2. h[Rest(s)] = g[Rest(s)]
        BY <2>1, <4>1
      <4> QED
        BY <3>2, <4>2 DEF Body
    <3> QED
      BY <3>1, <3>2
  <2> HIDE DEF h
  <2> QED
    BY <2>2
<1>3. \A n \in Nat : OK(n)
  <2> SUFFICES ASSUME T # {} PROVE FALSE
    OBVIOUS
  <2>1. PICK n \in T : \A m \in T : n <= m
    <3>1. T \subseteq Nat
      OBVIOUS
    <3> HIDE DEF T
    <3> QED
      BY <3>1, LeastNumber
  <2>2. n # 0 /\ n \in Nat /\ ~OK(n)
    BY <1>1
  <2> HIDE DEF OK
  <2>3. OK(n - 1)
    BY <2>1, <2>2
  <2> QED
    BY <1>2, <2>2, <2>3
<1>4. PICK g : \A s \in SUBSET Holders : g[s] = Body(f, g, s)
  <2>1. \A s \in SUBSET Holders : Cardinality(s) <= Cardinality(Holders)
    BY AssetAssumption, FS_Subset
  <2>2. Cardinality(Holders) \in Nat
    BY AssetAssumption, FS_CardinalityType
  <2>3. OK(Cardinality(Holders))
    BY <1>3, <2>2
  <2> QED
    BY <2>1, <2>3
<1> DEFINE h == [s \in SUBSET Holders |-> Body(f, g, s)]
<1>5. ASSUME NEW s \in SUBSET Holders PROVE Body(f, g, s) = Body(f, h, s)
  BY <1>4, RestSmaller DEF Body
<1>6. h = [s \in SUBSET Holders |-> Body(f, h, s)]
  BY <1>5
<1> QED
  BY <1>6

LEMMA SumsRec ==
    ASSUME NEW f
    PROVE  /\ Sums(f)[{}] = 0
           /\ \A s \in SUBSET Holders :
                 s # {} => Sums(f)[s] = f[CHOOSE x \in s : TRUE] + Sums(f)[Rest(s)]
<1>1. Sums(f) = [s \in SUBSET Holders |-> Body(f, Sums(f), s)]
  BY SumsExist DEF Sums
<1> HIDE DEF Sums
<1> QED
  BY <1>1 DEF Body

LEMMA SumsInt ==
    ASSUME NEW f \in [Holders -> Int]
    PROVE  \A s \in SUBSET Holders : Sums(f)[s] \in Int
<1> DEFINE T == {s \in SUBSET Holders : Sums(f)[s] \in Int}
<1>1. {} \in T
  BY SumsRec
<1>2. ASSUME NEW s \in SUBSET Holders, s # {}, Rest(s) \in T PROVE s \in T
  BY <1>2, SumsRec, RestSmaller
<1>3. SUBSET Holders \subseteq T
  <2> HIDE DEF T
  <2> QED
    BY <1>1, <1>2, SubsetInduction
<1> QED
  BY <1>3

\* One summand changes: the sum moves by as much.
LEMMA SumsChanged ==
    ASSUME NEW f \in [Holders -> Int], NEW g \in [Holders -> Int],
           NEW h \in Holders, \A k \in Holders : k # h => g[k] = f[k]
    PROVE  Sums(g)[Holders] = Sums(f)[Holders] + (g[h] - f[h])
<1> DEFINE T == {s \in SUBSET Holders :
                   Sums(g)[s] = Sums(f)[s] + (IF h \in s THEN g[h] - f[h] ELSE 0)}
<1>1. {} \in T
  BY SumsRec
<1>2. ASSUME NEW s \in SUBSET Holders, s # {}, Rest(s) \in T PROVE s \in T
  <2> DEFINE x == CHOOSE x \in s : TRUE
  <2>1. /\ Sums(f)[s] = f[x] + Sums(f)[Rest(s)]
        /\ Sums(g)[s] = g[x] + Sums(g)[Rest(s)]
    BY <1>2, SumsRec
  <2>2. /\ Sums(f)[Rest(s)] \in Int /\ Sums(g)[Rest(s)] \in Int
        /\ f[x] \in Int /\ g[x] \in Int /\ x \in s
        /\ f[h] \in Int /\ g[h] \in Int
    BY <1>2, SumsInt, RestSmaller
  <2>3. Rest(s) = s \ {x}
    BY DEF Rest
  <2>4. Sums(g)[Rest(s)] = Sums(f)[Rest(s)] + (IF h \in Rest(s) THEN g[h] - f[h] ELSE 0)
    BY <1>2
  <2> HIDE DEF x
  <2>5. CASE x = h
    BY <2>1, <2>2, <2>3, <2>4, <2>5
  <2>6. CASE x # h
    <3>1. g[x] = f[x] /\ (h \in Rest(s) <=> h \in s)
      BY <2>2, <2>3, <2>6
    <3> QED
      BY <2>1, <2>2, <2>4, <3>1
  <2> QED
    BY <2>5, <2>6
<1>3. SUBSET Holders \subseteq T
  <2> HIDE DEF T
  <2> QED
    BY <1>1, <1>2, SubsetInduction
<1> QED
  BY <1>3, SumsInt

LEMMA SumsZero ==
    ASSUME NEW f, \A h \in Holders : f[h] = 0
    PROVE  Sums(f)[Holders] = 0
<1> DEFINE T == {s \in SUBSET Holders : Sums(f)[s] = 0}
<1>1. {} \in T
  BY SumsRec
<1>2. ASSUME NEW s \in SUBSET Holders, s # {}, Rest(s) \in T PROVE s \in T
  BY <1>2, SumsRec, RestSmaller
<1>3. SUBSET Holders \subseteq T
  <2> HIDE DEF T
  <2> QED
    BY <1>1, <1>2, SubsetInduction
<1> QED
  BY <1>3

-----------------------------------------------------------------------------
(* The supply.                                                             *)

LEMMA CirculatingIs ==
    /\ Circulating = Sums(balance)[Holders]
    /\ Circulating' = Sums(balance')[Holders]
  BY DEF Circulating, Sums, Body, Rest, MapThenSumSet, MapThenFoldSet

LEMMA CreditSums ==
    ASSUME NEW bal \in [Holders -> Int], NEW a \in Accounts, NEW amount \in Int
    PROVE  /\ Credited(bal, a, amount) \in [Holders -> Int]
           /\ Sums(Credited(bal, a, amount))[Holders]
                = Sums(bal)[Holders] + (amount - Absorbed(a, amount))
<1>1. CASE a = Issuer
  <2>1. Credited(bal, a, amount) = bal /\ Absorbed(a, amount) = amount
    BY <1>1 DEF Credited, Absorbed
  <2> QED
    BY <2>1, SumsInt
<1>2. CASE a \in Holders
  <2> DEFINE after == Credited(bal, a, amount)
  <2>1. /\ after = [bal EXCEPT ![a] = @ + amount]
        /\ Absorbed(a, amount) = 0
    BY <1>2, AssetAssumption DEF Credited, Absorbed
  <2> HIDE DEF after
  <2>2. /\ after \in [Holders -> Int]
        /\ after[a] - bal[a] = amount
        /\ \A k \in Holders : k # a => after[k] = bal[k]
    BY <1>2, <2>1
  <2>3. Sums(after)[Holders] = Sums(bal)[Holders] + (after[a] - bal[a])
    BY <1>2, <2>2, SumsChanged
  <2> QED
    BY <2>1, <2>2, <2>3 DEF after
<1> QED
  BY <1>1, <1>2 DEF Accounts

LEMMA DebitSums ==
    ASSUME NEW bal \in [Holders -> Int], NEW h \in Holders, NEW amount \in Int
    PROVE  /\ Debited(bal, h, amount) \in [Holders -> Int]
           /\ Sums(Debited(bal, h, amount))[Holders]
                = Sums(bal)[Holders] - amount
<1> DEFINE after == Debited(bal, h, amount)
<1>1. after = [bal EXCEPT ![h] = @ - amount]
  BY DEF Debited
<1> HIDE DEF after
<1>2. /\ after \in [Holders -> Int]
      /\ after[h] - bal[h] = -amount
      /\ \A k \in Holders : k # h => after[k] = bal[k]
  BY <1>1
<1>3. Sums(after)[Holders] = Sums(bal)[Holders] + (after[h] - bal[h])
  BY <1>2, SumsChanged
<1>4. Sums(bal)[Holders] \in Int
  BY SumsInt
<1> QED
  BY <1>2, <1>3, <1>4 DEF after

\* What is in circulation, what was destroyed, issued by others, reconciled,
\* and total_supply itself move together.
Booked(supply, circulating, gone, outside, reconciled) ==
    /\ Circulating' = Circulating + circulating
    /\ totalSupply' = totalSupply + supply
    /\ destroyed' = destroyed + gone
    /\ issuedOutside' = issuedOutside + outside
    /\ log'.reconciled = log.reconciled + reconciled
    /\ supply = circulating + gone - reconciled - outside

SupplyBooked ==
    \E supply, circulating, gone, outside, reconciled \in Int :
        Booked(supply, circulating, gone, outside, reconciled)

LEMMA SupplyTypes ==
    ASSUME TypeOK
    PROVE  /\ balance \in [Holders -> Int]
           /\ Circulating \in Int
           /\ Sums(balance)[Holders] = Circulating
           /\ totalSupply \in Nat /\ destroyed \in Nat /\ issuedOutside \in Int
           /\ log \in [minted : Nat, burned : Nat, reconciled : Nat,
                       claimed : Nat]
<1>1. balance \in [Holders -> Int]
  BY DEF TypeOK, AssetTypeOK
<1>2. Circulating \in Int /\ Sums(balance)[Holders] = Circulating
  BY <1>1, SumsInt, CirculatingIs
<1> QED
  BY <1>1, <1>2 DEF TypeOK, AssetTypeOK, YieldTypeOK

LEMMA UntouchedBooked ==
    ASSUME TypeOK,
           UNCHANGED <<balance, destroyed, issuedOutside, totalSupply, log>>
    PROVE  SupplyBooked
<1>1. Circulating' = Circulating
  BY CirculatingIs
<1>2. Booked(0, 0, 0, 0, 0)
  BY <1>1, SupplyTypes DEF Booked
<1> QED
  BY <1>2 DEF SupplyBooked

\* The SAC's mint, with total_supply: Mint and ClaimYield.
LEMMA IssueBooked ==
    ASSUME TypeOK, NEW to \in Accounts, NEW amount \in Int,
           SacMint(to, amount), totalSupply' = totalSupply + amount,
           log'.reconciled = log.reconciled, UNCHANGED issuedOutside
    PROVE  SupplyBooked
<1> DEFINE gone == Absorbed(to, amount)
<1>1. gone \in Int
  BY DEF Absorbed
<1>2. /\ balance' = Credited(balance, to, amount)
      /\ destroyed' = destroyed + gone
  BY DEF SacMint
<1>3. Circulating' = Circulating + (amount - gone)
  BY <1>2, SupplyTypes, CirculatingIs, CreditSums
<1> HIDE DEF gone
<1>4. Booked(amount, amount - gone, gone, 0, 0)
  BY <1>1, <1>2, <1>3, SupplyTypes DEF Booked
<1> QED
  BY <1>1, <1>4 DEF SupplyBooked

\* Tokens moved between accounts: Transfer and ForceTransfer.
LEMMA MoveBooked ==
    ASSUME TypeOK, NEW from \in Holders, NEW to \in Accounts, NEW amount \in Int,
           balance' = Credited(Debited(balance, from, amount), to, amount),
           destroyed' = destroyed + Absorbed(to, amount),
           UNCHANGED <<issuedOutside, totalSupply, log>>
    PROVE  SupplyBooked
<1> DEFINE gone == Absorbed(to, amount)
           debited == Debited(balance, from, amount)
<1>1. gone \in Int
  BY DEF Absorbed
<1>2. /\ debited \in [Holders -> Int]
      /\ Sums(debited)[Holders] = Circulating - amount
  BY SupplyTypes, DebitSums
<1> HIDE DEF debited
<1>3. Sums(balance')[Holders] = Sums(debited)[Holders] + (amount - gone)
  BY <1>2, CreditSums DEF debited
<1> HIDE DEF gone
<1>4. Circulating' = Circulating - gone
  BY <1>1, <1>2, <1>3, SupplyTypes, CirculatingIs
<1>5. Booked(0, -gone, gone, 0, 0)
  BY <1>1, <1>4, SupplyTypes DEF Booked, gone
<1> QED
  BY <1>1, <1>5 DEF SupplyBooked

\* The outside world: transfers, and what others issue and claw back.
LEMMA OutsideBooked ==
    ASSUME TypeOK, OutsideStep
    PROVE  SupplyBooked
<1>1. UNCHANGED <<totalSupply, log>>
  BY DEF OutsideStep, yieldVars, accumulators, gatewayVars
<1>2. ASSUME NEW from \in Holders, NEW to \in Accounts, NEW amount \in Amounts,
             Transfer(from, to, amount)
      PROVE  SupplyBooked
  <2>1. /\ amount \in Int
        /\ balance' = Credited(Debited(balance, from, amount), to, amount)
        /\ destroyed' = destroyed + Absorbed(to, amount)
        /\ UNCHANGED issuedOutside
    BY <1>2 DEF Transfer
  <2> QED
    BY <1>1, <2>1, MoveBooked
<1>3. ASSUME NEW h \in Holders, NEW amount \in Amounts, OutsideIssue(h, amount)
      PROVE  SupplyBooked
  <2>1. /\ amount \in Int /\ balance' = Credited(balance, h, amount)
        /\ issuedOutside' = issuedOutside + amount /\ destroyed' = destroyed
    BY <1>3 DEF OutsideIssue
  <2>2. h \in Accounts /\ Absorbed(h, amount) = 0
    BY AssetAssumption DEF Accounts, Absorbed
  <2>3. Circulating' = Circulating + amount
    BY <2>1, <2>2, SupplyTypes, CirculatingIs, CreditSums
  <2>4. Booked(0, amount, 0, amount, 0)
    BY <1>1, <2>1, <2>3, SupplyTypes DEF Booked
  <2> QED
    BY <2>1, <2>4 DEF SupplyBooked
<1>4. ASSUME NEW h \in Holders, NEW amount \in Amounts, OutsideClawback(h, amount)
      PROVE  SupplyBooked
  <2>1. /\ amount \in Int /\ balance' = Debited(balance, h, amount)
        /\ issuedOutside' = issuedOutside - amount /\ destroyed' = destroyed
    BY <1>4 DEF OutsideClawback
  <2>2. Circulating' = Circulating - amount
    BY <2>1, SupplyTypes, CirculatingIs, DebitSums
  <2>3. Booked(0, -amount, 0, -amount, 0)
    BY <1>1, <2>1, <2>2, SupplyTypes DEF Booked
  <2> QED
    BY <2>1, <2>3 DEF SupplyBooked
<1>5. ASSUME NEW h, NEW flag,
             \/ OpenTrustline(h) \/ CloseTrustline(h)
             \/ OutsideSetAuthorized(h, flag) \/ ReturnSacAdmin
      PROVE  SupplyBooked
  <2>1. UNCHANGED <<balance, destroyed, issuedOutside>>
    BY <1>5 DEF OpenTrustline, CloseTrustline, OutsideSetAuthorized,
                ReturnSacAdmin
  <2> QED
    BY <1>1, <2>1, UntouchedBooked
<1> QED
  BY <1>2, <1>3, <1>4, <1>5 DEF OutsideStep

LEMMA ClaimBooked ==
    ASSUME TypeOK, NEW caller, ClaimYield(caller)
    PROVE  SupplyBooked
<1> DEFINE i == CurrentIndex(latestIndex', rateBps, now - lastUpdateTimestamp')
           a == YieldAt(totalPrincipal, i, totalSupply)
<1>1. /\ yieldRecipient \in Recipients /\ UNCHANGED issuedOutside
      /\ \/ UNCHANGED <<totalSupply, balance, destroyed, log>>
         \/ /\ a > 0 /\ totalSupply' = totalSupply + a
            /\ SacMint(yieldRecipient, a)
            /\ log' = [log EXCEPT !.claimed = @ + a]
            /\ Authorized(yieldRecipient)
  BY DEF TypeOK, RolesTypeOK, ClaimYield, IncreaseTotalSupply, accumulators,
         RequireDestinationTrustlineAuthorized
<1>2. a \in Int
  <2>1. YieldTypeOK /\ UpdateIndex /\ UNCHANGED <<rateBps, now>>
    BY DEF TypeOK, ClaimYield
  <2>2. /\ latestIndex' = GetCurrentIndex /\ latestIndex' \in IndexScale..MaxI128
        /\ lastUpdateTimestamp' = now
    BY <2>1, UpdateIndexFacts
  <2>3. totalPrincipal \in Nat /\ totalSupply \in Nat /\ now \in Nat
    BY <2>1 DEF YieldTypeOK
  <2>4. i \in Nat
    BY <2>2, <2>3, CurrentIndexAtOnce
  <2> HIDE DEF i
  <2> QED
    BY <2>3, <2>4, YieldAtFacts
<1> HIDE DEF a
<1>3. CASE UNCHANGED <<totalSupply, balance, destroyed, log>>
  BY <1>1, <1>3, UntouchedBooked
<1>4. CASE /\ a > 0 /\ totalSupply' = totalSupply + a
           /\ SacMint(yieldRecipient, a)
           /\ log' = [log EXCEPT !.claimed = @ + a]
           /\ Authorized(yieldRecipient)
  <2>1. yieldRecipient \in Accounts
    BY <1>4 DEF Authorized, Accounts
  <2>2. log'.reconciled = log.reconciled
    BY <1>4, SupplyTypes
  <2> QED
    BY <1>1, <1>2, <1>4, <2>1, <2>2, IssueBooked
<1> QED
  BY <1>1, <1>3, <1>4

LEMMA CallBooked ==
    ASSUME TypeOK, NEW caller \in Operators, GatewayCall(caller)
    PROVE  SupplyBooked
<1>1. ASSUME NEW to \in Accounts, NEW amount \in Amounts,
             Mint(caller, to, amount)
      PROVE  SupplyBooked
  <2>1. /\ amount \in Int /\ totalSupply' = totalSupply + amount
        /\ SacMint(to, amount) /\ UNCHANGED issuedOutside
        /\ log' = [log EXCEPT !.minted = @ + amount]
    BY <1>1 DEF Mint, IncreaseBothAccumulators
  <2>2. log'.reconciled = log.reconciled
    BY <2>1, SupplyTypes
  <2> QED
    BY <2>1, <2>2, IssueBooked
<1>2. ASSUME NEW from \in Holders, NEW amount \in Amounts,
             Burn(caller, from, amount)
      PROVE  SupplyBooked
  <2>1. /\ amount \in Int /\ totalSupply' = totalSupply - amount
        /\ balance' = Debited(balance, from, amount)
        /\ UNCHANGED <<destroyed, issuedOutside>>
        /\ log' = [log EXCEPT !.burned = @ + amount]
    BY <1>2 DEF Burn, SacClawback, DecreaseBothAccumulators
  <2>2. Circulating' = Circulating - amount
    BY <2>1, SupplyTypes, CirculatingIs, DebitSums
  <2>3. Booked(-amount, -amount, 0, 0, 0)
    BY <2>1, <2>2, SupplyTypes DEF Booked
  <2>4. -amount \in Int /\ 0 \in Int
    BY <2>1
  <2> QED
    BY <2>1, <2>3, <2>4, Zenon DEF SupplyBooked
<1>3. ASSUME NEW amount \in Amounts, ReconcileBurn(caller, amount)
      PROVE  SupplyBooked
  <2>1. /\ amount \in Int /\ totalSupply' = totalSupply - amount
        /\ UNCHANGED <<balance, destroyed, issuedOutside>>
        /\ log' = [log EXCEPT !.reconciled = @ + amount]
    BY <1>3 DEF ReconcileBurn, DecreaseBothAccumulators, assetVars
  <2>2. Circulating' = Circulating
    BY <2>1, CirculatingIs
  <2>3. Booked(-amount, 0, 0, 0, amount)
    BY <2>1, <2>2, SupplyTypes DEF Booked
  <2>4. -amount \in Int /\ 0 \in Int
    BY <2>1
  <2> QED
    BY <2>1, <2>3, <2>4, Zenon DEF SupplyBooked
<1>4. CASE ClaimYield(caller)
  BY <1>4, ClaimBooked
<1>5. ASSUME NEW from \in Holders, NEW to \in Accounts, NEW amount \in Amounts,
             ForceTransfer(caller, from, to, amount)
      PROVE  SupplyBooked
  <2>1. /\ amount \in Int
        /\ balance' = Credited(Debited(balance, from, amount), to, amount)
        /\ destroyed' = destroyed + Absorbed(to, amount)
        /\ UNCHANGED <<issuedOutside, totalSupply, log>>
    BY <1>5 DEF ForceTransfer, yieldVars, accumulators, gatewayVars
  <2> QED
    BY <2>1, MoveBooked
<1>6. ASSUME NEW rate, NEW users, NEW newSacAdmin, NEW addr,
             \/ SetInterestRate(caller, rate)
             \/ BlockUsers(caller, users) \/ UnblockUsers(caller, users)
             \/ Pause(caller) \/ Unpause(caller)
             \/ TransferSacAdmin(caller, newSacAdmin)
             \/ RoleChange(caller, addr) \/ RecipientChange(caller, addr)
      PROVE  SupplyBooked
  <2>1. UNCHANGED <<balance, destroyed, issuedOutside, totalSupply, log>>
    BY <1>6 DEF SetInterestRate, BlockUsers, UnblockUsers, Pause, Unpause,
         TransferSacAdmin, RoleChange, RecipientChange, yieldVars, accumulators,
         assetVars, gatewayVars
  <2> QED
    BY <2>1, UntouchedBooked
<1> QED
  BY <1>1, <1>2, <1>3, <1>4, <1>5, <1>6
  DEF GatewayCall, BlockUser, UnblockUser, BatchBlockUsers, BatchUnblockUsers

LEMMA SupplyStep ==
    ASSUME TypeOK, SupplyBookkeeping, [Next]_vars
    PROVE  SupplyBookkeeping'
<1>1. SupplyBooked
  <2>1. CASE UNCHANGED vars \/ Tick
    <3>1. UNCHANGED <<balance, destroyed, issuedOutside, totalSupply, log>>
      BY <2>1 DEF vars, Tick, AdvanceTime, yieldVars, accumulators, assetVars,
                  gatewayVars
    <3> QED
      BY <3>1, UntouchedBooked
  <2> QED
    BY <2>1, OutsideBooked, CallBooked DEF Next
<1> QED
  BY <1>1, SupplyTypes DEF SupplyBooked, Booked, SupplyBookkeeping

(* For any number of holders, any limits and any history of calls,         *)
(* transfers, burns at the issuer, reconciliations and outside issuance,   *)
(* total_supply is what the holders' balances add up to and what was       *)
(* destroyed unreconciled, less what was issued past the gateway.          *)
THEOREM SupplyTheorem == Spec => []SupplyBookkeeping
<1>1. Init => SupplyBookkeeping
  <2> SUFFICES ASSUME Init PROVE SupplyBookkeeping
    OBVIOUS
  <2>1. /\ totalSupply = 0 /\ destroyed = 0 /\ issuedOutside = 0
        /\ log.reconciled = 0 /\ \A h \in Holders : balance[h] = 0
    BY DEF Init, YieldInit, AssetInit
  <2>2. Circulating = 0
    BY <2>1, SumsZero, CirculatingIs
  <2> QED
    BY <2>1, <2>2 DEF SupplyBookkeeping
<1>2. TypeOK /\ SupplyBookkeeping /\ [Next]_vars => SupplyBookkeeping'
  BY SupplyStep
<1> QED
  BY <1>1, <1>2, TypeInvariant, PTL DEF Spec
=============================================================================
