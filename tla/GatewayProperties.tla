-------------------------- MODULE GatewayProperties -------------------------
(***************************************************************************)
(* What the minter gateway promises.  The INV-n are the invariants listed  *)
(* in docs/MGUSD-IMPLEMENTATION-OVERVIEW.md.                               *)
(***************************************************************************)
EXTENDS MinterGateway

-----------------------------------------------------------------------------
(* Yield.                                                                  *)

\* What the principal is worth, and what is outstanding, in token units
\* times IndexScale.
Worth == totalPrincipal * GetCurrentIndex
Outstanding == totalSupply * IndexScale

(* The real-time index never falls: not when time passes, not when a call  *)
(* stores it, and not when the rate changes, to a lower one or to 0.       *)
(* (INV-2; update_index at the old rate before set_interest_rate writes.)  *)
IndexNeverFalls == [][GetCurrentIndex' >= GetCurrentIndex]_vars

(* No call creates claimable yield: at one ledger time accrued_yield can   *)
(* only go down, whatever mints, burns, reconciliations, rate changes and  *)
(* claims are made and in whatever order.  Both roundings of the present   *)
(* value and the index-before-state order (INV-9) are needed for it.       *)
NoInstantYield == [][now' = now => GetAccruedYield' <= GetAccruedYield]_vars

(* Over any history the recipient is paid at most what the principal has   *)
(* earned at the rates in force while it was outstanding (INV-6, INV-9).   *)
ClaimedWithinEarned == log.claimed * IndexScale <= earned

(* Nothing earned disappears either: what is neither paid out nor          *)
(* claimable is rounding, less than one unit of principal for each mint,   *)
(* burn and reconciliation made.                                           *)
RoundingLossBounded ==
    earned + Outstanding - log.claimed * IndexScale - Worth
        <= conversions * GetCurrentIndex

(* Nor does rounding keep the supply from being retired: leaving aside one *)
(* unit of principal for each conversion made, what is left of             *)
(* total_supply can be burned or reconciled, claimed yield included.  No   *)
(* history of mints, claims, rate changes and burns makes                  *)
(* BurnExceedsPrincipal refuse more of it.                                 *)
SupplyCanBeRetired ==
    \A amount \in 0..totalSupply :
        amount * IndexScale + conversions * GetCurrentIndex <= Outstanding
            => FixedMulCeil(amount, IndexScale, GetCurrentIndex)
                   <= totalPrincipal

(* The gateway implements the abstract yield ledger: issues at most at     *)
(* par, redeems at least at par, pays only out of what the principal is    *)
(* worth beyond what is outstanding.                                       *)
Ledger == INSTANCE YieldLedger
              WITH worth <- Worth,
                   outstanding <- Outstanding,
                   earned <- earned,
                   paid <- log.claimed * IndexScale

ImplementsYieldLedger == Ledger!Spec

-----------------------------------------------------------------------------
(* Supply.                                                                 *)

(* total_supply and the balances at the SAC differ exactly by what was     *)
(* destroyed at the issuer and not yet reconciled, and by what was issued  *)
(* past the gateway: every entry point moves the accumulator and the SAC   *)
(* together (INV-11, INV-12).                                              *)
SupplyBookkeeping ==
    totalSupply = Circulating + destroyed - log.reconciled - issuedOutside

(* An indexer that adds up the amounts of the mint, burn, reconcile and    *)
(* yield_claimed events knows total_supply.                                *)
EventsGiveSupply ==
    totalSupply = log.minted + log.claimed - log.burned - log.reconciled

-----------------------------------------------------------------------------
(* Control.                                                                *)

(* While the gateway is paused no supply is created or retired by the      *)
(* minter or the claim, and the rate stands still; reconciliation alone    *)
(* lowers total_supply.                                                    *)
PauseFreezesSupply ==
    [][paused => /\ log'.minted = log.minted
                 /\ log'.burned = log.burned
                 /\ log'.claimed = log.claimed
                 /\ rateBps' = rateBps]_vars

\* A change of any role but the yield recipient.
Appointed ==
    \/ admin' # admin
    \/ minter' # minter
    \/ yieldRecipientManager' # yieldRecipientManager
    \/ forcedTransferManager' # forcedTransferManager
    \/ setRoles' # setRoles

\* What the roles an address holds in a state entitle it to bring about.
Entitled(caller) ==
    /\ log'.minted # log.minted \/ log'.burned # log.burned \/ rateBps' # rateBps
           => caller = minter
    /\ log'.claimed # log.claimed \/ yieldRecipient' # yieldRecipient
           => caller = yieldRecipientManager
    /\ log'.reconciled # log.reconciled \/ sacAdmin' # sacAdmin \/ Appointed
           => caller = admin
    /\ balance' # balance /\ totalSupply' = totalSupply
           => caller = forcedTransferManager
    /\ (\E h \in Holders : ~Authorized(h) /\ Authorized(h)')
           => caller \in unblockOperators
    /\ (\E h \in Holders : Authorized(h) /\ ~Authorized(h)')
           => caller \in blockOperators
    /\ paused' # paused => caller \in pausers

(* Whatever grants, removals and rotations came before, a call has no      *)
(* other effects than the roles of its caller are for: the minter alone    *)
(* mints, burns and sets the rate, the forced transfer manager alone moves *)
(* tokens and leaves the supply, unblock operators alone authorize and     *)
(* block operators alone take that away, neither in place of the other     *)
(* (INV-14), and the admin who appoints them stands in for none of them.   *)
EffectsNeedRoles ==
    [][\A caller \in Operators : ~Entitled(caller) => ~GatewayCall(caller)]_vars

-----------------------------------------------------------------------------
(* What the documents say and the code does not do.                        *)

(* overview, Burn: a burn cannot exceed what was minted, which prevents    *)
(* burning claimed yield.                                                  *)
BurnedAtMostMinted == log.burned <= log.minted
=============================================================================
