---------------------------- MODULE StellarAsset ----------------------------
(***************************************************************************)
(* The Stellar Asset Contract the gateway administers, with the trustlines *)
(* its balances live in.  It is host code, not part of the repository:     *)
(* what is written here is what contract.rs relies on when it calls it and *)
(* what the tests beside it observe (test_issuer.rs,                       *)
(* test_preflight_trustline.rs, test_blocklist.rs).                        *)
(*                                                                         *)
(* The asset has AUTH_REQUIRED, AUTH_REVOCABLE and AUTH_CLAWBACK_ENABLED.  *)
(* Its issuer holds no trustline: the SAC reports it authorized and lets   *)
(* it receive, and whatever it receives ceases to exist.                   *)
(***************************************************************************)
EXTENDS Integers, FiniteSets, FiniteSetsExt

CONSTANTS Holders,         \* accounts that may hold the asset
          Issuer,          \* the SAC issuer
          Gateway,         \* this contract, the SAC admin after deployment
          OutsideAdmins,   \* addresses SAC adminship may be handed to
          IssuerLive,      \* TRUE: the issuer key has not been renounced
          TrustlineLimit,  \* the most a trustline holds
          MaxOutside       \* bound: net amount issued outside the gateway

\* A ledger has finitely many accounts.
ASSUME AssetAssumption ==
    /\ IsFiniteSet(Holders)
    /\ IssuerLive \in BOOLEAN
    /\ TrustlineLimit \in Nat
    /\ MaxOutside \in Nat
    /\ Issuer \notin Holders
    /\ Gateway \notin OutsideAdmins

VARIABLES trustline, balance, sacAdmin,
          destroyed,      \* history: tokens the issuer received
          issuedOutside   \* history: tokens issued, less those clawed back,
                          \*   by others than the gateway

assetVars == <<trustline, balance, sacAdmin, destroyed, issuedOutside>>

Accounts == Holders \cup {Issuer}

Trust == {"none", "unauthorized", "authorized"}

AssetTypeOK ==
    /\ trustline \in [Holders -> Trust]
    /\ balance \in [Holders -> 0..TrustlineLimit]
    /\ \A h \in Holders : trustline[h] = "none" => balance[h] = 0
    /\ sacAdmin \in {Gateway} \cup OutsideAdmins
    /\ destroyed \in Nat
    /\ issuedOutside \in Int

AssetInit ==
    /\ trustline = [h \in Holders |-> "none"]
    /\ balance = [h \in Holders |-> 0]
    /\ sacAdmin = Gateway
    /\ destroyed = 0
    /\ issuedOutside = 0

Circulating == MapThenSumSet(LAMBDA h : balance[h], Holders)

-----------------------------------------------------------------------------
(* What the SAC's functions check and do, on balances bal.                 *)

\* try_authorized(a) = Ok(Ok(true))
Authorized(a) == a = Issuer \/ (a \in Holders /\ trustline[a] = "authorized")

CanReceive(bal, a, amount) ==
    /\ Authorized(a)
    /\ a \in Holders => bal[a] + amount <= TrustlineLimit

Credited(bal, a, amount) ==
    IF a = Issuer THEN bal ELSE [bal EXCEPT ![a] = @ + amount]

Absorbed(a, amount) == IF a = Issuer THEN amount ELSE 0

Debited(bal, h, amount) == [bal EXCEPT ![h] = @ - amount]

\* mint(to, amount) by the SAC admin
SacMint(to, amount) ==
    /\ sacAdmin = Gateway
    /\ CanReceive(balance, to, amount)
    /\ balance' = Credited(balance, to, amount)
    /\ destroyed' = destroyed + Absorbed(to, amount)

\* clawback(from, amount) by the SAC admin: no authorization of from needed
CanClawback(from, amount) ==
    /\ sacAdmin = Gateway
    /\ from \in Holders
    /\ trustline[from] # "none"
    /\ balance[from] >= amount

SacClawback(from, amount) ==
    /\ CanClawback(from, amount)
    /\ balance' = Debited(balance, from, amount)

\* set_authorized(user, flag) for each user: the first one without a
\* trustline, the issuer among them, traps and undoes the others.
SacSetAuthorized(users, flag) ==
    /\ sacAdmin = Gateway
    /\ \A u \in users : u \in Holders /\ trustline[u] # "none"
    /\ trustline' = [h \in Holders |->
                        IF h \notin users THEN trustline[h]
                        ELSE IF flag THEN "authorized" ELSE "unauthorized"]

SacSetAdmin(newSacAdmin) ==
    /\ sacAdmin = Gateway
    /\ sacAdmin' = newSacAdmin

-----------------------------------------------------------------------------
(* What goes on at the SAC without the gateway.                            *)

OpenTrustline(h) ==
    /\ trustline[h] = "none"
    /\ trustline' = [trustline EXCEPT ![h] = "unauthorized"]
    /\ UNCHANGED <<balance, sacAdmin, destroyed, issuedOutside>>

CloseTrustline(h) ==
    /\ trustline[h] # "none"
    /\ balance[h] = 0
    /\ trustline' = [trustline EXCEPT ![h] = "none"]
    /\ UNCHANGED <<balance, sacAdmin, destroyed, issuedOutside>>

\* A holder's own transfer; to the issuer it destroys the tokens.
Transfer(from, to, amount) ==
    LET debited == Debited(balance, from, amount)
    IN  /\ amount > 0
        /\ trustline[from] = "authorized"
        /\ balance[from] >= amount
        /\ from # to
        /\ CanReceive(debited, to, amount)
        /\ balance' = Credited(debited, to, amount)
        /\ destroyed' = destroyed + Absorbed(to, amount)
        /\ UNCHANGED <<trustline, sacAdmin, issuedOutside>>

OutsideControl == IssuerLive \/ sacAdmin \in OutsideAdmins

OutsideIssue(to, amount) ==
    /\ OutsideControl
    /\ amount > 0
    /\ to \in Holders
    /\ issuedOutside + amount <= MaxOutside
    /\ CanReceive(balance, to, amount)
    /\ balance' = Credited(balance, to, amount)
    /\ issuedOutside' = issuedOutside + amount
    /\ UNCHANGED <<trustline, sacAdmin, destroyed>>

OutsideClawback(from, amount) ==
    /\ OutsideControl
    /\ amount > 0
    /\ trustline[from] # "none"
    /\ balance[from] >= amount
    /\ balance' = Debited(balance, from, amount)
    /\ issuedOutside' = issuedOutside - amount
    /\ UNCHANGED <<trustline, sacAdmin, destroyed>>

OutsideSetAuthorized(h, flag) ==
    /\ OutsideControl
    /\ trustline[h] # "none"
    /\ trustline' = [trustline EXCEPT
                        ![h] = IF flag THEN "authorized" ELSE "unauthorized"]
    /\ UNCHANGED <<balance, sacAdmin, destroyed, issuedOutside>>

\* The outside SAC admin hands the adminship back.
ReturnSacAdmin ==
    /\ sacAdmin \in OutsideAdmins
    /\ sacAdmin' = Gateway
    /\ UNCHANGED <<trustline, balance, destroyed, issuedOutside>>
=============================================================================
