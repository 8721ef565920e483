----------------------------- MODULE Deployment -----------------------------
(***************************************************************************)
(* Bringing the gateway up, and giving the issuer up: deployFull of the    *)
(* SDK with the preflights of deploy-full.ts, the steps of deploy-pipeline *)
(* as deploy-renounce runs them behind its checks and deploy-testnet       *)
(* without any, and add-issuer-signer.ts.                                  *)
(*                                                                         *)
(* A run of a tool is a sequence of steps.  A check reads the chain and    *)
(* aborts or goes on; a submission lands and is reported, lands and is     *)
(* reported as an error, lands after the error, or never lands.  An error  *)
(* ends the run (set -e, throw), and runs may follow each other on what    *)
(* the earlier ones left.  Meanwhile others open trustlines.               *)
(***************************************************************************)
EXTENDS Naturals, FiniteSets

CONSTANTS Outsiders,         \* accounts that may open a trustline
          HorizonAnswers,    \* subset of {"ok", "error"}
          SkipsCarefully,    \* TRUE: --skip-deploy is used on complete
                             \*   deployments only
          Issuer, NoSac,     \* the SAC's admin at first, and before it exists
          MaxRuns            \* bound: runs of a tool

ASSUME DeploymentAssumption ==
    /\ HorizonAnswers \subseteq {"ok", "error"}
    /\ SkipsCarefully \in BOOLEAN
    /\ MaxRuns \in Nat
    /\ Issuer \notin Nat
    /\ NoSac \notin Nat \cup {Issuer}

VARIABLES flags,           \* the issuer's account flags
          masterSigns,     \* its master key has a weight
          secondSigner,    \* it has another signer
          sacAdmin,        \* of the asset's contract
          gateways,        \* gateways deployed, numbered from 1
          line,            \* how each outsider's trustline was opened
          inFlight,        \* issuer transactions that may still land
          mode,            \* the current run: the tool and what it is asked
          step,            \* its next step, or how the last run ended
          gateway,         \* its WRAPPER_CONTRACT_ID, 0 before step 4
          runs,
          completed,       \* gateways of the runs that passed the smoke test
          windowOpeners    \* history: who opened a trustline between the
                           \*   current run's last check and its step 1

accountVars == <<flags, masterSigns, secondSigner>>
chainVars == <<accountVars, sacAdmin, gateways, line, inFlight>>
runVars == <<mode, step, gateway, runs, completed, windowOpeners>>
vars == <<chainVars, runVars>>

AuthFlags == {"required", "revocable", "clawback"}

Modes == [tool : {"sdk", "script", "testnet"},
          deploy : BOOLEAN, renounce : BOOLEAN]

Steps == {"checkFlags", "checkHolders", "configure", "deploySac", "upload",
          "deployGateway", "handOver", "smoke", "renounce", "verifyAccount",
          "verifyAdmin"}

Ends == {"none", "error", "contaminated", "complete", "renounced"}

TypeOK ==
    /\ flags \subseteq AuthFlags \cup {"immutable"}
    /\ masterSigns \in BOOLEAN
    /\ secondSigner \in BOOLEAN
    /\ gateways \in 0..MaxRuns
    /\ sacAdmin \in {NoSac, Issuer} \cup 1..gateways
    /\ line \in [Outsiders -> {"none", "preFlag", "clawbackable"}]
    /\ inFlight \subseteq [op : {"configure", "renounce", "handOver"},
                           to : 0..gateways]
    /\ mode \in Modes
    /\ step \in Steps \cup Ends
    /\ gateway \in 0..gateways
    /\ step \in {"handOver", "smoke", "complete", "renounced"} =>
           gateway # 0
    /\ runs \in 0..MaxRuns
    /\ completed \subseteq 1..gateways
    /\ windowOpeners \subseteq Outsiders

Init ==
    /\ flags = {}
    /\ masterSigns = TRUE
    /\ secondSigner = FALSE
    /\ sacAdmin = NoSac
    /\ gateways = 0
    /\ line = [o \in Outsiders |-> "none"]
    /\ inFlight = {}
    /\ mode = [tool |-> "script", deploy |-> TRUE, renounce |-> FALSE]
    /\ step = "none"
    /\ gateway = 0
    /\ runs = 0
    /\ completed = {}
    /\ windowOpeners = {}

Idle == step \in Ends

\* The issuer's setOptions and the SAC's set_admin, when they land.
Configured == flags' = flags \cup AuthFlags

Landing(tx) ==
    /\ masterSigns
    /\ \/ /\ tx.op = "configure"
          /\ "immutable" \notin flags
          /\ Configured
          /\ UNCHANGED <<masterSigns, sacAdmin>>
       \/ /\ tx.op = "renounce"
          /\ "immutable" \notin flags
          /\ flags' = flags \cup {"immutable"}
          /\ masterSigns' = FALSE
          /\ UNCHANGED sacAdmin
       \/ /\ tx.op = "handOver"
          /\ sacAdmin = Issuer
          /\ sacAdmin' = tx.to
          /\ UNCHANGED <<flags, masterSigns>>

-----------------------------------------------------------------------------
(* How a step ends.                                                        *)

GoTo(next) ==
    /\ step' = next
    /\ UNCHANGED <<mode, gateway, runs, completed, windowOpeners>>

Fail == GoTo("error")

\* A check that reads cond on the chain.
Check(cond, next) ==
    /\ \/ cond /\ GoTo(next)
       \/ ~cond /\ GoTo("contaminated")
       \/ Fail
    /\ UNCHANGED chainVars

\* Mutated: an error of the step does not end the run.
SubmitAnyway(tx, next) ==
    /\ UNCHANGED <<secondSigner, gateways, line>>
    /\ \/ Landing(tx) /\ inFlight' = {} /\ GoTo(next)
       \/ /\ inFlight' \in {inFlight, inFlight \cup {tx}}
          /\ GoTo(next)
          /\ UNCHANGED <<flags, masterSigns, sacAdmin>>

\* A transaction of the issuer.  Those in flight were built on the same
\* sequence number: when one lands the others no longer can.
Submit(tx, next) ==
    /\ UNCHANGED <<secondSigner, gateways, line>>
    /\ \/ Landing(tx) /\ inFlight' = {} /\ (GoTo(next) \/ Fail)
       \/ /\ inFlight' \in {inFlight, inFlight \cup {tx}}
          /\ Fail
          /\ UNCHANGED <<flags, masterSigns, sacAdmin>>

-----------------------------------------------------------------------------
(* A run begins.                                                           *)

FirstStep(m) ==
    IF ~m.deploy THEN "renounce"
    ELSE IF m.tool = "testnet" THEN "configure" ELSE "checkFlags"

Start(m, g) ==
    /\ Idle
    /\ runs < MaxRuns
    /\ m.tool # "script" => m.deploy /\ ~m.renounce
    /\ ~m.deploy => m.renounce /\ g \in 1..gateways
    /\ ~m.deploy /\ SkipsCarefully => g \in completed
    /\ m.deploy => g = 0
    /\ mode' = m
    /\ gateway' = g
    /\ step' = FirstStep(m)
    /\ runs' = runs + 1
    /\ windowOpeners' = {}
    /\ UNCHANGED <<completed, chainVars>>

-----------------------------------------------------------------------------
(* The preflights.                                                         *)

AssertIssuerFlagsClean ==
    step = "checkFlags" /\ Check(flags = {}, "checkHolders")

\* Mutated: the assets are not looked at.
AnyIssuer == TRUE

NotContaminated == \A o \in Outsiders : line[o] = "none"

\* The SDK throws when Horizon does not answer.  The script reads the sum
\* out of whatever body it got, and an error body sums to 0.
LooksClean(answer) ==
    NotContaminated \/ (answer = "error" /\ mode.tool = "script")

AssertIssuerNotContaminated ==
    /\ step = "checkHolders"
    /\ \E answer \in HorizonAnswers : Check(LooksClean(answer), "configure")

-----------------------------------------------------------------------------
(* The five steps of the deployment, and the smoke test.                   *)

ConfigureIssuer ==
    /\ step = "configure"
    /\ Submit([op |-> "configure", to |-> 0], "deploySac")

\* One SAC per asset: a second deployment of it fails.
DeploySac ==
    /\ step = "deploySac"
    /\ \/ /\ sacAdmin = NoSac
          /\ sacAdmin' = Issuer
          /\ GoTo("upload") \/ Fail
       \/ Fail /\ UNCHANGED sacAdmin
    /\ UNCHANGED <<accountVars, gateways, line, inFlight>>

\* The SDK also compares the hash with the local one, and may throw.
UploadWasm ==
    /\ step = "upload"
    /\ GoTo("deployGateway") \/ Fail
    /\ UNCHANGED chainVars

\* Mutated: the id of the new gateway is lost.
DeployNamelessGateway ==
    /\ step = "deployGateway"
    /\ \/ gateways' = gateways + 1 /\ GoTo("handOver")
       \/ gateways' \in {gateways, gateways + 1} /\ Fail
    /\ UNCHANGED <<accountVars, sacAdmin, line, inFlight>>

\* (One that lands later is a gateway nobody uses.)
DeployGateway ==
    /\ step = "deployGateway"
    /\ \/ /\ gateways' = gateways + 1
          /\ gateway' = gateways + 1
          /\ step' = "handOver"
          /\ UNCHANGED <<mode, runs, completed, windowOpeners>>
       \/ gateways' \in {gateways, gateways + 1} /\ Fail
    /\ UNCHANGED <<accountVars, sacAdmin, line, inFlight>>

HandOverSacAdmin ==
    /\ step = "handOver"
    /\ Submit([op |-> "handOver", to |-> gateway], "smoke")

SmokeTest ==
    /\ step = "smoke"
    /\ \/ /\ completed' = completed \cup {gateway}
          /\ step' = IF mode.renounce THEN "renounce" ELSE "complete"
          /\ UNCHANGED <<mode, gateway, runs, windowOpeners>>
       \/ Fail
    /\ UNCHANGED chainVars

-----------------------------------------------------------------------------
(* Renouncing, and the verification after it.                              *)

Renounce ==
    /\ step = "renounce"
    /\ Submit([op |-> "renounce", to |-> 0], "verifyAccount")

Signers == (IF masterSigns THEN {"master"} ELSE {})
           \cup (IF secondSigner THEN {"second"} ELSE {})

\* Mutated: the signers are counted, not looked at.
FewSigners == Cardinality(Signers) <= 1

\* None, or the master key with weight 0.
NoSigners == ~masterSigns /\ ~secondSigner

\* One answer of Horizon has the signers and the flags.
VerifyAccount ==
    /\ step = "verifyAccount"
    /\ Check(NoSigners /\ flags = AuthFlags \cup {"immutable"}, "verifyAdmin")

VerifyAdmin == step = "verifyAdmin" /\ Check(sacAdmin = gateway, "renounced")

-----------------------------------------------------------------------------
(* Meanwhile.                                                              *)

\* A trustline can be clawed back only if it was opened under the flag.
OpenTrustline(o) ==
    /\ line[o] = "none"
    /\ line' = [line EXCEPT ![o] = IF "clawback" \in flags
                                   THEN "clawbackable" ELSE "preFlag"]
    /\ windowOpeners' = IF step = "configure" THEN windowOpeners \cup {o}
                        ELSE windowOpeners
    /\ UNCHANGED <<accountVars, sacAdmin, gateways, inFlight, mode, step,
                   gateway, runs, completed>>

LandLate(tx) ==
    /\ tx \in inFlight
    /\ Landing(tx)
    /\ inFlight' = {}
    /\ UNCHANGED <<secondSigner, gateways, line, runVars>>

Expire(tx) ==
    /\ tx \in inFlight
    /\ inFlight' = inFlight \ {tx}
    /\ UNCHANGED <<accountVars, sacAdmin, gateways, line, runVars>>

\* Anyone may deploy an asset's contract, and a deployment reported as an
\* error may land later.
OthersDeploySac ==
    /\ sacAdmin = NoSac
    /\ sacAdmin' = Issuer
    /\ UNCHANGED <<accountVars, gateways, line, inFlight, runVars>>

\* add-issuer-signer.ts, at any time
AddIssuerSigner ==
    /\ "immutable" \notin flags
    /\ masterSigns
    /\ ~secondSigner
    /\ secondSigner' = TRUE
    /\ inFlight' = {}
    /\ UNCHANGED <<flags, masterSigns, sacAdmin, gateways, line, runVars>>

-----------------------------------------------------------------------------
Run ==
    \/ AssertIssuerFlagsClean
    \/ AssertIssuerNotContaminated
    \/ ConfigureIssuer
    \/ DeploySac
    \/ UploadWasm
    \/ DeployGateway
    \/ HandOverSacAdmin
    \/ SmokeTest
    \/ Renounce
    \/ VerifyAccount
    \/ VerifyAdmin

Meanwhile ==
    \/ \E o \in Outsiders : OpenTrustline(o)
    \/ \E tx \in inFlight : LandLate(tx) \/ Expire(tx)
    \/ OthersDeploySac
    \/ AddIssuerSigner

Next ==
    \/ \E m \in Modes, g \in 0..MaxRuns : Start(m, g)
    \/ Run
    \/ Meanwhile

Spec == Init /\ [][Next]_vars

-----------------------------------------------------------------------------
(* Properties.                                                             *)

(* A deployment that completed is wired: the issuer has the three flags,   *)
(* the SAC exists and its admin is the gateway of that very run.  So an    *)
(* issuer has one such gateway, however often deployment is tried and      *)
(* whatever earlier runs left or lands late.                               *)
CompleteDeploymentIsWired ==
    \A g \in completed : AuthFlags \subseteq flags /\ sacAdmin = g

(* A holder a completed deployment cannot claw back opened its trustline   *)
(* between the last check of that deployment and its first step: nothing   *)
(* an earlier run left escapes the check (STEL1-6), an unchecked testnet   *)
(* deployment that stopped half way included.                              *)
ContaminatedInTheWindowOnly ==
    step = "complete" /\ mode.tool # "testnet" =>
        \A o \in Outsiders : line[o] = "preFlag" => o \in windowOpeners

(* Once the master key is given up the SAC is administered by a gateway:   *)
(* there is no order of failures, repetitions and late landings that burns *)
(* the key while the issuer still is the admin.                            *)
RenouncedIssuerHandedOver == ~masterSigns => sacAdmin \in 1..gateways

(* What the verification reports as renounced nobody signs for, with the   *)
(* flags locked as the pipeline set them, also when a second signer was    *)
(* added while it ran.                                                     *)
ReportedRenouncedIsSealed ==
    step = "renounced" =>
        /\ ~masterSigns /\ ~secondSigner
        /\ flags = AuthFlags \cup {"immutable"}
        /\ sacAdmin = gateway

(* Whatever fails, is repeated or lands late, the issuer goes through one  *)
(* life: its SAC is handed over once, a deployment completes on the        *)
(* gateway it was handed to with the flags set, the key is given up after  *)
(* a completed deployment only, and then nothing of the account changes    *)
(* any more.                                                               *)
Life == INSTANCE IssuerLifecycle
            WITH Careful <- SkipsCarefully, signers <- Signers,
                 admin <- sacAdmin, reported <- (step = "renounced")

ImplementsLifecycle == Life!Spec

(* deploy-renounce.sh: a deployment without renounce is followed by a      *)
(* renounce by running the script again with --renounce-issuer --execute.  *)
CompleteDeploymentCanBeRenounced ==
    completed # {} /\ mode.tool = "script" /\ mode.deploy /\ mode.renounce
        => step # "contaminated"
=============================================================================
