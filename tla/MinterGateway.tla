---------------------------- MODULE MinterGateway ---------------------------
(***************************************************************************)
(* contract.rs: the entry points of the minter gateway, each one a         *)
(* transaction.  An error or a panic reverts the transaction, so a call    *)
(* the code refuses is a disabled action: every check the code makes is a  *)
(* guard, in the order the code makes it where the order matters.          *)
(*                                                                         *)
(* The gateway composes the yield state and the roles it stores with the   *)
(* Stellar asset it administers, which others act on too.                  *)
(***************************************************************************)
EXTENDS YieldState, StellarAsset, Roles, FiniteSets

CONSTANTS Amounts,        \* amounts callers pass
          Rates,          \* rates in basis points callers pass
          MaxBatchSize,   \* MAX_BATCH_SIZE
          MaxMinted       \* bound: the sum of all mint events

ASSUME InputAssumption ==
    /\ Amounts \subseteq Int
    /\ Rates \subseteq Nat
    /\ MaxBatchSize \in Nat
    /\ MaxMinted \in Nat

VARIABLES paused,
          log     \* sums of the amounts in the events emitted so far

gatewayVars == <<paused, log>>
vars == <<yieldVars, assetVars, roleVars, gatewayVars>>

TypeOK ==
    /\ YieldTypeOK
    /\ AssetTypeOK
    /\ RolesTypeOK
    /\ paused \in BOOLEAN
    /\ log \in [minted : Nat, burned : Nat, reconciled : Nat, claimed : Nat]

Init ==
    /\ YieldInit
    /\ AssetInit
    /\ RolesInit
    /\ paused = FALSE
    /\ log = [minted |-> 0, burned |-> 0, reconciled |-> 0, claimed |-> 0]

\* Mutated: when_not_paused is not called.
IgnorePause == TRUE

WhenNotPaused == ~paused
CheckPositiveAmount(amount) == amount > 0
RequireDestinationTrustlineAuthorized(a) == Authorized(a)

-----------------------------------------------------------------------------
(* The minter.                                                             *)

Mint(caller, to, amount) ==
    /\ WhenNotPaused
    /\ CheckPositiveAmount(amount)
    /\ RequireRoleHolder(caller, minter)
    /\ log.minted + amount <= MaxMinted
    /\ UpdateIndex
    /\ RequireDestinationTrustlineAuthorized(to)
    /\ IncreaseBothAccumulators(amount)
    /\ SacMint(to, amount)
    /\ log' = [log EXCEPT !.minted = @ + amount]
    /\ UNCHANGED <<rateBps, now, earned, trustline, sacAdmin, issuedOutside,
                   roleVars, paused>>

Burn(caller, from, amount) ==
    /\ WhenNotPaused
    /\ CheckPositiveAmount(amount)
    /\ RequireRoleHolder(caller, minter)
    /\ UpdateIndex
    /\ DecreaseBothAccumulators(amount)
    /\ SacClawback(from, amount)
    /\ log' = [log EXCEPT !.burned = @ + amount]
    /\ UNCHANGED <<rateBps, now, earned, trustline, sacAdmin, destroyed,
                   issuedOutside, roleVars, paused>>

\* The early return for an unchanged rate comes before the index update.
SetInterestRate(caller, rate) ==
    /\ WhenNotPaused
    /\ RequireRoleHolder(caller, minter)
    /\ rateBps # rate
    /\ UpdateIndex
    /\ WriteInterestRate(rate)
    /\ UNCHANGED <<accumulators, now, earned, conversions, assetVars,
                   roleVars, gatewayVars>>

-----------------------------------------------------------------------------
(* The admin's reconciliation, and the forced transfer manager.            *)

ReconcileBurn(caller, amount) ==
    /\ RequireAdmin(caller)
    /\ CheckPositiveAmount(amount)
    /\ UpdateIndex
    /\ DecreaseBothAccumulators(amount)
    /\ log' = [log EXCEPT !.reconciled = @ + amount]
    /\ UNCHANGED <<rateBps, now, earned, assetVars, roleVars, paused>>

ForceTransfer(caller, from, to, amount) ==
    LET clawed == Debited(balance, from, amount)
    IN  /\ CheckPositiveAmount(amount)
        /\ RequireRoleHolder(caller, forcedTransferManager)
        /\ RequireDestinationTrustlineAuthorized(to)
        /\ CanClawback(from, amount)
        /\ CanReceive(clawed, to, amount)
        /\ balance' = Credited(clawed, to, amount)
        /\ destroyed' = destroyed + Absorbed(to, amount)
        /\ UNCHANGED <<yieldVars, trustline, sacAdmin, issuedOutside,
                       roleVars, gatewayVars>>

-----------------------------------------------------------------------------
(* The yield recipient manager.                                            *)

ClaimYield(caller) ==
    LET unclaimed == YieldAt(totalPrincipal,
                             CurrentIndex(latestIndex', rateBps,
                                          now - lastUpdateTimestamp'),
                             totalSupply)
    IN  /\ WhenNotPaused
        /\ RequireRoleHolder(caller, yieldRecipientManager)
        /\ UpdateIndex
        /\ MulFits(totalPrincipal, latestIndex')
        /\ \/ /\ unclaimed > 0
              /\ RequireDestinationTrustlineAuthorized(yieldRecipient)
              /\ IncreaseTotalSupply(unclaimed)
              /\ SacMint(yieldRecipient, unclaimed)
              /\ log' = [log EXCEPT !.claimed = @ + unclaimed]
           \/ /\ unclaimed = 0
              /\ UNCHANGED <<accumulators, conversions, balance, destroyed, log>>
        /\ UNCHANGED <<rateBps, now, earned, trustline, sacAdmin,
                       issuedOutside, roleVars, paused>>

-----------------------------------------------------------------------------
(* Block and unblock operators, single and in batches.                     *)

BlockUsers(operator, users) ==
    /\ RequireMember(operator, blockOperators)
    /\ SacSetAuthorized(users, FALSE)
    /\ UNCHANGED <<yieldVars, balance, sacAdmin, destroyed, issuedOutside,
                   roleVars, gatewayVars>>

\* Mutated: the block operators unblock too.
UnblockByBlockers(operator, users) ==
    /\ RequireMember(operator, blockOperators \cup unblockOperators)
    /\ SacSetAuthorized(users, TRUE)
    /\ UNCHANGED <<yieldVars, balance, sacAdmin, destroyed, issuedOutside,
                   roleVars, gatewayVars>>

UnblockUsers(operator, users) ==
    /\ RequireMember(operator, unblockOperators)
    /\ SacSetAuthorized(users, TRUE)
    /\ UNCHANGED <<yieldVars, balance, sacAdmin, destroyed, issuedOutside,
                   roleVars, gatewayVars>>

BlockUser(operator, user) == BlockUsers(operator, {user})

UnblockUser(operator, user) == UnblockUsers(operator, {user})

BatchBlockUsers(operator, users) ==
    /\ Cardinality(users) <= MaxBatchSize          \* else BatchTooLargeError
    /\ BlockUsers(operator, users)

BatchUnblockUsers(operator, users) ==
    /\ Cardinality(users) <= MaxBatchSize          \* else BatchTooLargeError
    /\ UnblockUsers(operator, users)

-----------------------------------------------------------------------------
(* Pausers, and the admin's hand-over of the SAC.                          *)

Pause(caller) ==
    /\ RequireMember(caller, pausers)
    /\ ~paused
    /\ paused' = TRUE
    /\ UNCHANGED <<yieldVars, assetVars, roleVars, log>>

Unpause(caller) ==
    /\ RequireMember(caller, pausers)
    /\ paused
    /\ paused' = FALSE
    /\ UNCHANGED <<yieldVars, assetVars, roleVars, log>>

TransferSacAdmin(caller, newSacAdmin) ==
    /\ RequireAdmin(caller)
    /\ SacSetAdmin(newSacAdmin)
    /\ UNCHANGED <<yieldVars, trustline, balance, destroyed, issuedOutside,
                   roleVars, gatewayVars>>

-----------------------------------------------------------------------------
(* The whole system: entry points, other uses of the asset, ledger time.   *)

RoleChange(caller, addr) ==
    /\ \/ SetAdmin(caller, addr)
       \/ SetMinter(caller, addr)
       \/ SetYieldRecipientManager(caller, addr)
       \/ SetForcedTransferManager(caller, addr)
       \/ AddBlockOperator(caller, addr)
       \/ RemoveBlockOperator(caller, addr)
       \/ AddUnblockOperator(caller, addr)
       \/ RemoveUnblockOperator(caller, addr)
       \/ AddPauser(caller, addr)
       \/ RemovePauser(caller, addr)
    /\ UNCHANGED <<yieldVars, assetVars, gatewayVars>>

RecipientChange(caller, addr) ==
    /\ SetYieldRecipient(caller, addr)
    /\ UNCHANGED <<yieldVars, assetVars, gatewayVars>>

OutsideStep ==
    /\ \/ \E h \in Holders : \/ OpenTrustline(h)
                             \/ CloseTrustline(h)
       \/ \E from \in Holders, to \in Accounts, amount \in Amounts :
              Transfer(from, to, amount)
       \/ \E h \in Holders, amount \in Amounts : \/ OutsideIssue(h, amount)
                                                 \/ OutsideClawback(h, amount)
       \/ \E h \in Holders, flag \in BOOLEAN : OutsideSetAuthorized(h, flag)
       \/ ReturnSacAdmin
    /\ UNCHANGED <<yieldVars, roleVars, gatewayVars>>

Tick == AdvanceTime /\ UNCHANGED <<assetVars, roleVars, gatewayVars>>

GatewayCall(caller) ==
    \/ \E to \in Accounts, amount \in Amounts : Mint(caller, to, amount)
    \/ \E from \in Holders, amount \in Amounts : Burn(caller, from, amount)
    \/ \E rate \in Rates : SetInterestRate(caller, rate)
    \/ \E amount \in Amounts : ReconcileBurn(caller, amount)
    \/ \E from \in Holders, to \in Accounts, amount \in Amounts :
           ForceTransfer(caller, from, to, amount)
    \/ ClaimYield(caller)
    \/ \E user \in Accounts : \/ BlockUser(caller, user)
                              \/ UnblockUser(caller, user)
    \/ \E users \in SUBSET Accounts : \/ BatchBlockUsers(caller, users)
                                      \/ BatchUnblockUsers(caller, users)
    \/ Pause(caller)
    \/ Unpause(caller)
    \/ \E newSacAdmin \in {Gateway} \cup OutsideAdmins :
           TransferSacAdmin(caller, newSacAdmin)
    \/ \E addr \in Operators : RoleChange(caller, addr)
    \/ \E addr \in Recipients : RecipientChange(caller, addr)

Next ==
    \/ \E caller \in Operators : GatewayCall(caller)
    \/ OutsideStep
    \/ Tick

Spec == Init /\ [][Next]_vars
=============================================================================
