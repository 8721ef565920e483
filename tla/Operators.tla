----------------------------- MODULE Operators -----------------------------
(***************************************************************************)
(* The operator's command lines: set-admin, transfer-admin, pause,         *)
(* unpause, block-user, unblock-user, invoke-mint, invoke-burn,            *)
(* update-home-domain, setup-trustline and trustline-self, run side by     *)
(* side against one gateway.                                               *)
(*                                                                         *)
(* A run reads the chain through a node that may be behind, asks its       *)
(* operator, builds and simulates a transaction, waits for a signature,    *)
(* sends it, polls for its ledger and, in some tools, reads the chain      *)
(* again.  Between any two of these the others go on.  What a call of the  *)
(* SDK may report is the subject of module Submission: a result that is    *)
(* the ledger's, or an error after which the transaction may still land.   *)
(***************************************************************************)
EXTENDS Naturals, Sequences, FiniteSets, GatewayInterface

CONSTANTS Keys,            \* accounts of operators and users
          Commands,        \* what operators run: see CommandType
          FirstAdmin, Minter, Pausers, BlockOperators, UnblockOperators,
          Domains, Assets, Wrappers,
          SacToken,        \* the token contract each wrapper answers
          NameOf,          \* the asset each token contract says it is
          SacOf,           \* the contract of each asset on this network
          MaxRuns,         \* bound: commands run
          MaxOutside       \* bound: transactions of other tools

CommandType == [tool : STRING, key : Keys,
                signer : Keys,       \* whose key the Fireblocks vault holds
                arg : Keys \cup Domains \cup Assets \cup Wrappers,
                filled : BOOLEAN]    \* no VARS or .env entry is missing

ArgumentsOf(tool) ==
    CASE tool = "updateHomeDomain" -> Domains
      [] tool = "trustline" -> Assets
      [] tool = "trustlineSelf" -> Wrappers
      [] OTHER -> Keys

ASSUME OperatorsAssumption ==
    /\ Commands \subseteq CommandType
    /\ \A c \in Commands : c.arg \in ArgumentsOf(c.tool)
    \* trustline-self signs with a local key, not with a vault's.
    /\ \A c \in Commands : c.tool = "trustlineSelf" => c.signer = c.key
    /\ FirstAdmin \in Keys /\ Minter \in Keys
    /\ Pausers \subseteq Keys
    /\ BlockOperators \subseteq Keys /\ UnblockOperators \subseteq Keys
    /\ MaxRuns \in Nat /\ MaxOutside \in Nat

VARIABLES ledgers,         \* the chain, one transaction per ledger
          node, horizon,   \* last ledger the RPC node and Horizon have seen
          runs,            \* the commands started, a run being its index
          at,              \* where each run is, or how it ended
          base,            \* the ledger its first reading came from
          number,          \* sequence number of its transaction
          inFlight         \* runs whose transaction may still land

chain == <<ledgers, node, horizon>>
vars == <<chain, runs, at, base, number, inFlight>>

Rotations == {"setAdmin", "transferAdmin"}
Pausing == {"pause", "unpause"}
Trusting == {"trustline", "trustlineSelf"}

ChecksVault == {"transferAdmin", "updateHomeDomain"}
Preflighted == Rotations \cup Pausing \cup {"updateHomeDomain", "trustlineSelf"}
Postchecked == Rotations \cup Pausing \cup {"updateHomeDomain"}
ReadsHorizon == {"updateHomeDomain"}
Throwing == {"updateHomeDomain", "trustlineSelf"}

Ends == {"refused", "unread", "aborted", "unchanged", "error", "ok", "alarm",
         "unchecked"}
Phases == {"vault", "preflight", "confirm", "build", "sign", "poll",
           "postcheck"}

Run == DOMAIN runs
Tool(r) == runs[r].tool
Last == ledgers[Len(ledgers)]

LandedAt(r) == {i \in DOMAIN ledgers : ledgers[i].run = r}

TypeOK ==
    /\ \A i \in DOMAIN ledgers :
           ledgers[i] \in [admin : Keys, paused : BOOLEAN,
                           blocked : SUBSET Keys, balance : [Keys -> Nat],
                           domain : Domains, lines : SUBSET (Keys \X Assets),
                           seq : [Keys -> Nat], run : 0..MaxRuns,
                           ok : BOOLEAN]
    /\ node \in DOMAIN ledgers
    /\ horizon \in DOMAIN ledgers
    /\ runs \in Seq(Commands)
    /\ at \in [Run -> Phases \cup Ends]
    /\ base \in [Run -> 0..Len(ledgers)]
    /\ number \in [Run -> Nat]
    /\ inFlight \subseteq Run
    \* Only what waited for its signature, or longer, has reached a ledger.
    /\ \A r \in Run : LandedAt(r) # {} =>
           at[r] \in {"poll", "postcheck", "error", "ok", "alarm", "unchecked"}
    \* A tool with a preflight reads the chain before it asks.
    /\ \A r \in Run : Tool(r) \in Preflighted
                      /\ at[r] \in Phases \ {"vault", "preflight"} =>
                          base[r] > 0

Init ==
    /\ \E domain \in Domains :
           ledgers = << [admin |-> FirstAdmin, paused |-> FALSE,
                         blocked |-> {}, balance |-> [k \in Keys |-> 0],
                         domain |-> domain, lines |-> {},
                         seq |-> [k \in Keys |-> 0],
                         run |-> 0, ok |-> TRUE] >>
    /\ node = 1
    /\ horizon = 1
    /\ runs = << >>
    /\ at = << >>
    /\ base = << >>
    /\ number = << >>
    /\ inFlight = {}

-----------------------------------------------------------------------------
(* The gateway and the accounts, as far as the commands can tell.          *)

\* What a simulation finds out.  It records the authorization an entry point
\* asks for and does not check it, so that it never refuses a rotation.
Simulates(l, c) ==
    /\ c.tool = "pause" => c.key \in Pausers /\ ~l.paused
    /\ c.tool = "unpause" => c.key \in Pausers /\ l.paused
    /\ c.tool = "block" => c.key \in BlockOperators
    /\ c.tool = "unblock" => c.key \in UnblockOperators
    /\ c.tool \in {"mint", "burn"} => c.key = Minter /\ ~l.paused
    /\ c.tool = "mint" => c.arg \notin l.blocked
    /\ c.tool = "burn" => l.balance[c.key] > 0

Permitted(l, c) ==
    /\ c.tool \in Rotations => c.key = l.admin
    /\ Simulates(l, c)

Effect(l, c) ==
    [l EXCEPT
       !.admin = IF c.tool \in Rotations THEN c.arg ELSE @,
       !.paused = (c.tool = "pause") \/ (@ /\ c.tool # "unpause"),
       !.blocked = IF c.tool = "block" THEN @ \cup {c.arg}
                   ELSE @ \ {a \in Keys : c.tool = "unblock" /\ a = c.arg},
       !.balance = [k \in Keys |->
                      @[k] + (IF c.tool = "mint" /\ k = c.arg THEN 1 ELSE 0)
                           - (IF c.tool = "burn" /\ k = c.key THEN 1 ELSE 0)],
       !.domain = IF c.tool = "updateHomeDomain" THEN c.arg ELSE @,
       !.lines = @ \cup (IF c.tool = "trustline" THEN {<<c.key, c.arg>>}
                         ELSE IF c.tool = "trustlineSelf"
                         THEN {<<c.key, NameOf[SacToken[c.arg]]>>}
                         ELSE {})]

\* The ledger after run r's transaction of command c, failed or not.
Close(r, c) ==
    LET ok == Permitted(Last, c)
    IN  ledgers' = Append(ledgers,
                          [(IF ok THEN Effect(Last, c) ELSE Last) EXCEPT
                             !.seq[c.key] = @ + 1, !.run = r, !.ok = ok])

Outsiders == [tool : {"pause", "unpause"}, key : Pausers, arg : {FirstAdmin}]

\* A transaction of another tool: a pauser uses the stellar CLI.
Outside ==
    /\ Cardinality({i \in DOMAIN ledgers : ledgers[i].run = 0}) <= MaxOutside
    /\ \E c \in Outsiders : Permitted(Last, c) /\ Close(0, c)
    /\ UNCHANGED <<node, horizon, runs, at, base, number, inFlight>>

Land(r) ==
    /\ r \in inFlight
    /\ number[r] = Last.seq[runs[r].key] + 1
    /\ Close(r, runs[r])
    /\ inFlight' = inFlight \ {r}
    /\ UNCHANGED <<node, horizon, runs, at, base, number>>

\* The time bounds pass, or the sequence number is another's.
Drop(r) ==
    /\ r \in inFlight
    /\ inFlight' = inFlight \ {r}
    /\ UNCHANGED <<chain, runs, at, base, number>>

NodeSees ==
    /\ node' \in node + 1..Len(ledgers)
    /\ UNCHANGED <<ledgers, horizon, runs, at, base, number, inFlight>>

HorizonSees ==
    /\ horizon' \in horizon + 1..Len(ledgers)
    /\ UNCHANGED <<ledgers, node, runs, at, base, number, inFlight>>

-----------------------------------------------------------------------------
(* A run, from its VARS block to its exit code.                            *)

AfterPreflight(tool) ==
    IF tool \in Trusting THEN "build" ELSE "confirm"

\* Mutated: nothing is read before the operator is asked.
SkipPreflight(tool) == AfterPreflight(tool)

AfterVault(tool) ==
    IF tool \in Preflighted THEN "preflight" ELSE AfterPreflight(tool)

AfterStart(tool) == IF tool \in ChecksVault THEN "vault" ELSE AfterVault(tool)

\* Every entry of the .env the tool reads is there.
Filled(c) == c.filled

\* The VARS block too; transfer-admin also refuses to rotate to the key it
\* rotates from.
Configured(c) ==
    /\ Filled(c)
    /\ c.tool = "transferAdmin" => c.arg # c.key

Start(c) ==
    /\ Len(runs) < MaxRuns
    /\ runs' = Append(runs, c)
    /\ at' = Append(at, IF Configured(c) THEN AfterStart(c.tool)
                                         ELSE "refused")
    /\ base' = Append(base, 0)
    /\ number' = Append(number, 0)
    /\ UNCHANGED <<chain, inFlight>>

GoTo(r, phase) ==
    /\ at' = [at EXCEPT ![r] = phase]
    /\ UNCHANGED <<chain, runs, number, inFlight>>

AssertVaultMatchesPubkey(r) == runs[r].signer = runs[r].key

CheckVault(r) ==
    /\ at[r] = "vault"
    /\ GoTo(r, IF AssertVaultMatchesPubkey(r) THEN AfterVault(Tool(r))
                                              ELSE "refused")
    /\ UNCHANGED base

View(r) == IF Tool(r) \in ReadsHorizon THEN horizon ELSE node

\* Mutated: the token contract is taken at its word.
TrustName(sac) == NameOf[sac] \in Assets

\* trustline-self derives the contract of the asset the token contract says
\* it is, on its own network, and compares the two.
DerivedSacMatches(sac) == NameOf[sac] \in Assets /\ SacOf[NameOf[sac]] = sac

\* Mutated: the admin on the chain is not compared with the vault's key.
PassAnyAdmin(l, c) == TRUE

\* queryPauser simulates an entry point of its own name.
PreflightPasses(l, c) ==
    /\ c.tool \in Rotations => l.admin = c.key
    /\ c.tool \in Pausing => "pauser" \in EntryPoints /\ c.key \in Pausers
    /\ c.tool = "updateHomeDomain" => l.domain # c.arg
    /\ c.tool = "trustlineSelf" => DerivedSacMatches(SacToken[c.arg])

Preflight(r) ==
    /\ at[r] = "preflight"
    /\ base' = [base EXCEPT ![r] = View(r)]
    /\ GoTo(r, IF PreflightPasses(ledgers[View(r)], runs[r])
               THEN AfterPreflight(Tool(r))
               ELSE IF Tool(r) = "updateHomeDomain" THEN "unchanged"
               ELSE "refused")

Confirm(r) ==
    /\ at[r] = "confirm"
    /\ \/ GoTo(r, "build")
       \/ GoTo(r, "aborted")
    /\ UNCHANGED base

\* The dry run of trustline-self prints its envelope.
DryRun(r) ==
    /\ at[r] = "build"
    /\ Tool(r) = "trustlineSelf"
    /\ GoTo(r, "aborted")
    /\ UNCHANGED base

\* Mutated: a transaction is signed whatever its simulation found.
Unsimulated(l, c) == TRUE

SimulateAndPrepare(l, c) == Simulates(l, c)

\* Account and simulation come from the node.  A classic operation is not
\* simulated.
Build(r) ==
    /\ at[r] = "build"
    /\ base' = [base EXCEPT ![r] = IF @ = 0 THEN node ELSE @]
    /\ \/ /\ SimulateAndPrepare(ledgers[node], runs[r])
          /\ at' = [at EXCEPT ![r] = "sign"]
          /\ number' = [number EXCEPT
                          ![r] = ledgers[node].seq[runs[r].key] + 1]
       \/ at' = [at EXCEPT ![r] = "error"] /\ UNCHANGED number
    /\ UNCHANGED <<chain, runs, inFlight>>

\* trustline-self builds at the node, and submits to Horizon.
Gate(r) == IF Tool(r) = "trustlineSelf" THEN horizon ELSE node

\* The vault's key signs for the account: another key's signature and a used
\* sequence number are refused.  No approval, or none in time, is an error as
\* well.
Send(r) ==
    /\ at[r] = "sign"
    /\ \/ /\ runs[r].signer = runs[r].key
          /\ number[r] = ledgers[Gate(r)].seq[runs[r].key] + 1
          /\ inFlight' = inFlight \cup {r}
          /\ at' = [at EXCEPT ![r] = "poll"]
       \/ at' = [at EXCEPT ![r] = "error"] /\ UNCHANGED inFlight
    /\ UNCHANGED <<chain, runs, base, number>>

\* Mutated: a tool is done when its transaction is in a ledger.
DoneWhenLanded(tool, ok) == "ok"

\* printResult prints SUCCESS or FAILED and returns.
PrintResult(tool, ok) ==
    IF tool \in Throwing /\ ~ok THEN "error"
    ELSE IF tool \in Postchecked THEN "postcheck" ELSE "ok"

PollResult(r) ==
    /\ at[r] = "poll"
    /\ \E i \in LandedAt(r) :
           /\ i <= Gate(r)
           /\ GoTo(r, PrintResult(Tool(r), ledgers[i].ok))
    /\ UNCHANGED base

\* Mutated: what was submitted and not found is taken for done.
TakeForDone(r) ==
    /\ at[r] = "poll"
    /\ GoTo(r, "ok")
    /\ UNCHANGED base

\* The polls run out, or a request of theirs fails.
GiveUp(r) ==
    /\ at[r] = "poll"
    /\ GoTo(r, "error")
    /\ UNCHANGED base

\* What a postcheck expects to read.
Done(l, c) ==
    /\ c.tool \in Rotations => l.admin = c.arg
    /\ c.tool = "pause" => l.paused
    /\ c.tool = "unpause" => ~l.paused
    /\ c.tool = "updateHomeDomain" => l.domain = c.arg

\* Mutated: the postcheck of a rotation expects the vault's key.
OldAdminPostcheck(r) ==
    Done(ledgers[View(r)], [runs[r] EXCEPT !.arg = runs[r].key])

PostcheckPasses(r) == Done(ledgers[View(r)], runs[r])

Postcheck(r) ==
    /\ at[r] = "postcheck"
    /\ GoTo(r, IF PostcheckPasses(r) THEN "ok" ELSE "alarm")
    /\ UNCHANGED base

\* A request of the vault, the node or Horizon fails before the operator is
\* asked, or when the chain is read again.
ReadFails(r) ==
    /\ \/ at[r] \in {"vault", "preflight"} /\ GoTo(r, "unread")
       \/ at[r] = "postcheck" /\ GoTo(r, "unchecked")
    /\ UNCHANGED base

-----------------------------------------------------------------------------
Step(r) ==
    \/ CheckVault(r)
    \/ Preflight(r)
    \/ Confirm(r)
    \/ DryRun(r)
    \/ Build(r)
    \/ Send(r)
    \/ PollResult(r)
    \/ GiveUp(r)
    \/ Postcheck(r)
    \/ ReadFails(r)

Next ==
    \/ \E c \in Commands : Start(c)
    \/ \E r \in Run : Step(r) \/ Land(r) \/ Drop(r)
    \/ Outside
    \/ NodeSees
    \/ HorizonSees

Spec == Init /\ [][Next]_vars

-----------------------------------------------------------------------------
(* Properties.                                                             *)

\* Ledgers after the i-th in which another run, or another tool, changed
\* something.
OthersAfter(r, i) == {j \in DOMAIN ledgers : /\ j > i
                                             /\ ledgers[j].run # r
                                             /\ ledgers[j].ok}

\* A transaction that passed the preflight or the simulation of its tool and
\* fails in its ledger met a change somebody else made after that reading
\* (set-admin.ts, block-user.ts and the others print FAILED for it).
FailureMeansInterference ==
    \A r \in Run : \A i \in LandedAt(r) :
        ledgers[i].ok \/ \E j \in OthersAfter(r, base[r]) : j < i

\* The tools with a postcheck exit without an error only when their change
\* was on the chain at or after their transaction: FAILED, which they print
\* and go on, does not pass (set-admin.ts, transfer-admin.ts,
\* update-home-domain.ts).
CheckedExitMeansDone ==
    \A r \in Run :
        Tool(r) \in Postchecked /\ at[r] = "ok" =>
            \E i \in LandedAt(r), j \in DOMAIN ledgers :
                i <= j /\ Done(ledgers[j], runs[r])

\* An alarm of the rotation tools ("investigate on-chain") is never a false
\* one: since the preflight somebody else has changed the gateway.
AlarmMeansInterference ==
    \A r \in Run :
        Tool(r) \in Rotations /\ at[r] = "alarm" =>
            OthersAfter(r, base[r]) # {}

\* trustline-self trusts the asset the wrapper's own token contract is the
\* contract of, whatever that contract calls itself (trustline-self.ts).
TrustsTheWrappersAsset ==
    \A r \in Run : \A i \in LandedAt(r) :
        Tool(r) = "trustlineSelf" =>
            \E a \in Assets : /\ <<runs[r].key, a>> \in ledgers[i].lines
                              /\ SacOf[a] = SacToken[runs[r].arg]

\* What can still become of a run's transaction, and what its tool tells.  Of
\* a transaction in a ledger the tools that throw tell SUCCESS only; the
\* others go on with FAILED as they do with SUCCESS.
Fate(r) ==
    IF LandedAt(r) # {}
    THEN IF \E i \in LandedAt(r) : ledgers[i].ok THEN "applied" ELSE "failed"
    ELSE IF r \in inFlight \/ at[r] \in Phases \ {"poll", "postcheck"}
         THEN "open" ELSE "void"

Answer(r) ==
    CASE at[r] \in {"refused", "unread", "aborted", "unchanged"} -> "never"
      [] at[r] = "error" -> "unknown"
      [] at[r] \in {"postcheck", "ok", "alarm", "unchecked"} ->
             IF Tool(r) \in Throwing THEN "success" ELSE "landed"
      [] OTHER -> "none"

\* The commands are attempts each of which is decided once, and what a tool
\* tells of its transaction is so and stays so, whoever else uses the account
\* and the gateway: a refused, aborted or unnecessary run leaves nothing that
\* may land, and a tool that does not throw has its transaction in a ledger.
Attempt == INSTANCE Attempts
               WITH Exclusive <- FALSE,
                    fate <- [r \in Run |-> Fate(r)],
                    answer <- [r \in Run |-> Answer(r)]

ImplementsAttempts == Attempt!Spec

\* Claimed by pause.ts, unpause.ts and scripts/README.md: the preflight of
\* pause and unpause stops a run whose VAULT_PUBLIC_KEY is no pauser.
PausersPassThePreflight ==
    \A r \in Run : Tool(r) \in Pausing /\ runs[r].filled
                   /\ at[r] = "refused" => runs[r].key \notin Pausers

\* Claimed by the error of set-admin.ts and transfer-admin.ts: "setAdmin
\* returned SUCCESS but on-chain admin is ...".
AlarmAfterSuccess ==
    \A r \in Run : Tool(r) \in Rotations /\ at[r] = "alarm" =>
                      \A i \in LandedAt(r) : ledgers[i].ok

\* Claimed by the error of update-home-domain.ts: "on-chain home_domain = ...,
\* expected ...".
HomeDomainAlarmIsTrue ==
    \A r \in Run :
        Tool(r) = "updateHomeDomain" /\ at[r] = "alarm" =>
            OthersAfter(r, base[r]) # {}
=============================================================================
