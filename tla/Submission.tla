----------------------------- MODULE Submission -----------------------------
(***************************************************************************)
(* The SDK (client.ts, keypair-client.ts, soroban-tx-builder.ts,           *)
(* fireblocks-signer.ts): one call after another of one operator on one    *)
(* source account.  A call builds an envelope on the account's sequence    *)
(* number, has it simulated, has it signed by Fireblocks or a local key,   *)
(* submits it and polls for its result.  Every step ends at an await: the  *)
(* network, the RPC node and the custodian act in between.                 *)
(*                                                                         *)
(* The calls of a behaviour are attempts at one and the same operation: an *)
(* operator makes another one when the last did not end in SUCCESS.  The   *)
(* clock moves while a call sleeps between polls and between calls; a      *)
(* round trip is short against a tick.                                     *)
(***************************************************************************)
EXTENDS Naturals, Sequences, FiniteSets

CONSTANTS EnvelopeLifetime,   \* DEFAULT_TIMEOUT_SECONDS, in ticks
          SigningPolls,       \* MAX_POLL_ATTEMPTS of fireblocks-signer.ts
          SubmitPolls,        \* MAX_POLL_ATTEMPTS of soroban-tx-builder.ts
          WaitsForExpiry,     \* TRUE: an operator repeats a call only after
                              \*   the envelope lifetime
          MaxCalls,           \* bound: calls made
          MaxClock            \* bound: the clock stops here

ASSUME SubmissionAssumption ==
    /\ EnvelopeLifetime \in Nat \ {0}
    /\ SigningPolls \in Nat \ {0}
    /\ SubmitPolls \in Nat \ {0}
    /\ WaitsForExpiry \in BOOLEAN
    /\ MaxCalls \in Nat
    /\ MaxClock \in Nat

VARIABLES clock,
          phase,     \* where the current call is
          calls,     \* the calls so far; the last one is the current one
          polls,     \* polls of the current loop
          custody,   \* the Fireblocks transaction of the current call
          pool,      \* calls whose transaction is in the mempool
          chain,     \* the account's transactions in ledgers
          seen       \* how many of them the RPC node knows

vars == <<clock, phase, calls, polls, custody, pool, chain, seen>>

Errors == {"simulationError", "signingError", "rejected", "unconfirmed",
           "transportError"}
Results == {"none", "success", "failed"} \cup Errors

Number == Len(calls)
Current == calls[Number]

TypeOK ==
    /\ clock \in 0..MaxClock
    /\ phase \in {"idle", "starting", "built", "prepared", "signing",
                  "signed", "polling"}
    /\ \A i \in DOMAIN calls :
           calls[i] \in [seq : 1..MaxCalls + 1, builtAt : 0..MaxClock,
                         maxTime : 0..2 * MaxClock, result : Results]
    /\ polls \in 0..(IF phase = "signing" THEN SigningPolls - 1
                     ELSE IF phase = "polling" THEN SubmitPolls - 1 ELSE 0)
    /\ custody \in {"none", "pending", "completed", "refused"}
    /\ pool \subseteq DOMAIN calls
    /\ \A k \in DOMAIN chain : chain[k] \in [call : DOMAIN calls, ok : BOOLEAN]
    /\ seen \in 0..Len(chain)

Init ==
    /\ clock = 0
    /\ phase = "idle"
    /\ calls = <<>>
    /\ polls = 0
    /\ custody = "none"
    /\ pool = {}
    /\ chain = <<>>
    /\ seen = 0

Landed(i) == \E k \in DOMAIN chain : chain[k].call = i

\* sleep(POLL_INTERVAL_MS)
Sleep == clock' = IF clock < MaxClock THEN clock + 1 ELSE clock

\* The promise of the current call settles.
Settle(result) ==
    /\ calls' = [calls EXCEPT ![Number].result = result]
    /\ phase' = "idle"
    /\ polls' = 0
    /\ custody' = "none"

-----------------------------------------------------------------------------
(* The operator.                                                           *)

\* What was not a success and cannot be looked up in a ledger is repeated;
\* a careful operator lets every earlier envelope expire first.
StartCall ==
    /\ phase = "idle"
    /\ Number < MaxCalls
    /\ clock + EnvelopeLifetime < MaxClock
    /\ \A i \in DOMAIN calls : calls[i].result # "success"
    /\ \A k \in DOMAIN chain : ~chain[k].ok
    /\ WaitsForExpiry =>
           \A i \in DOMAIN calls : clock > calls[i].builtAt + EnvelopeLifetime
    /\ phase' = "starting"
    /\ UNCHANGED <<clock, calls, polls, custody, pool, chain, seen>>

-----------------------------------------------------------------------------
(* The call: build, simulate, sign.                                        *)

\* Mutated: an envelope that does not expire.
NoTimeout == 2 * MaxClock

Timeout == clock + EnvelopeLifetime

\* getAccount, then the builder with setTimeout
BuildTransaction ==
    /\ phase = "starting"
    /\ calls' = Append(calls, [seq |-> seen + 1, builtAt |-> clock,
                               maxTime |-> Timeout, result |-> "none"])
    /\ phase' = "built"
    /\ UNCHANGED <<clock, polls, custody, pool, chain, seen>>

\* A classic operation goes on without the simulation.
SimulateAndPrepare ==
    /\ phase = "built"
    /\ \/ phase' = "prepared" /\ UNCHANGED <<calls, polls, custody>>
       \/ Settle("simulationError")
    /\ UNCHANGED <<clock, pool, chain, seen>>

SignLocally ==
    /\ phase = "prepared"
    /\ phase' = "signed"
    /\ UNCHANGED <<clock, calls, polls, custody, pool, chain, seen>>

\* createTransaction; an answer without an id is an error.
SignHash ==
    /\ phase = "prepared"
    /\ \/ /\ phase' = "signing"
          /\ custody' = "pending"
          /\ UNCHANGED <<calls, polls>>
       \/ Settle("signingError")
    /\ UNCHANGED <<clock, pool, chain, seen>>

\* Mutated: one poll too many.
GivesUpLate(budget) == polls >= budget

GivesUp(budget) == polls + 1 >= budget

\* Mutated: the loop starts over.
PollForever(budget, error) ==
    /\ polls' = (polls + 1) % budget
    /\ UNCHANGED <<phase, calls, custody>>

\* Mutated: the end of the loop is reported as a rejection.
PollAgainRejecting(budget, error) ==
    \/ GivesUp(budget) /\ Settle("rejected")
    \/ /\ ~GivesUp(budget)
       /\ polls' = polls + 1
       /\ UNCHANGED <<phase, calls, custody>>

\* A poll without an answer to use, and the end of the loop.
PollAgain(budget, error) ==
    \/ GivesUp(budget) /\ Settle(error)
    \/ /\ ~GivesUp(budget)
       /\ polls' = polls + 1
       /\ UNCHANGED <<phase, calls, custody>>

\* extractSignature may find the signature missing or of the wrong length.
PollFireblocksTransaction ==
    /\ phase = "signing"
    /\ Sleep
    /\ \/ /\ custody = "completed"
          /\ phase' = "signed"
          /\ polls' = 0
          /\ UNCHANGED <<calls, custody>>
       \/ custody \in {"completed", "refused"} /\ Settle("signingError")
       \/ PollAgain(SigningPolls, "signingError")
    /\ UNCHANGED <<pool, chain, seen>>

-----------------------------------------------------------------------------
(* The call: submit and poll.                                              *)

\* Status ERROR throws.  Every other status goes on to the polls, whether
\* the node took the transaction or (TRY_AGAIN_LATER) not.
SendTransaction ==
    /\ phase = "signed"
    /\ \/ Settle("rejected") /\ UNCHANGED pool
       \/ /\ phase' = "polling"
          /\ pool' \in {pool, pool \cup {Number}}
          /\ UNCHANGED <<calls, polls, custody>>
       \/ /\ pool' \in {pool, pool \cup {Number}}
          /\ Settle("transportError")
    /\ UNCHANGED <<clock, chain, seen>>

\* Mutated: the transaction is looked up by the account's sequence number.
FoundBySequence(k) == k = Current.seq

\* getTransaction(txHash)
Found(k) == chain[k].call = Number

SubmitAndPoll ==
    /\ phase = "polling"
    /\ Sleep
    /\ \/ \E k \in 1..seen :
              /\ Found(k)
              /\ Settle(IF chain[k].ok THEN "success" ELSE "failed")
       \/ /\ \A k \in 1..seen : ~Found(k)
          /\ PollAgain(SubmitPolls, "unconfirmed")
    /\ UNCHANGED <<pool, chain, seen>>

\* The request behind any await may itself fail.
TransportFailure ==
    /\ phase \in {"built", "prepared", "signing", "polling"}
    /\ Settle("transportError")
    /\ UNCHANGED <<clock, pool, chain, seen>>

StartFailure ==
    /\ phase = "starting"
    /\ phase' = "idle"
    /\ UNCHANGED <<clock, calls, polls, custody, pool, chain, seen>>

-----------------------------------------------------------------------------
(* The world outside.                                                      *)

\* The approvers decide, or Fireblocks' policy does for them.
Decide ==
    /\ custody = "pending"
    /\ custody' \in {"completed", "refused"}
    /\ UNCHANGED <<clock, phase, calls, polls, pool, chain, seen>>

\* A transaction lands, with its effect or failed, on its sequence number
\* and within its time bounds only.
Land(i) ==
    /\ i \in pool
    /\ clock <= calls[i].maxTime
    /\ calls[i].seq = Len(chain) + 1
    /\ \E ok \in BOOLEAN : chain' = Append(chain, [call |-> i, ok |-> ok])
    /\ pool' = pool \ {i}
    /\ UNCHANGED <<clock, phase, calls, polls, custody, seen>>

Drop(i) ==
    /\ i \in pool
    /\ pool' = pool \ {i}
    /\ UNCHANGED <<clock, phase, calls, polls, custody, chain, seen>>

RpcCatchesUp ==
    /\ seen < Len(chain)
    /\ seen' \in seen + 1..Len(chain)
    /\ UNCHANGED <<clock, phase, calls, polls, custody, pool, chain>>

\* Between calls time passes by itself.
Tick ==
    /\ phase = "idle"
    /\ clock < MaxClock
    /\ clock' = clock + 1
    /\ UNCHANGED <<phase, calls, polls, custody, pool, chain, seen>>

-----------------------------------------------------------------------------
Client ==
    \/ BuildTransaction
    \/ SimulateAndPrepare
    \/ SignLocally
    \/ SignHash
    \/ PollFireblocksTransaction
    \/ SendTransaction
    \/ SubmitAndPoll
    \/ TransportFailure
    \/ StartFailure

World ==
    \/ Decide
    \/ \E i \in pool : Land(i) \/ Drop(i)
    \/ RpcCatchesUp
    \/ Tick

Next == StartCall \/ Client \/ World

\* Every awaited request settles; nothing else has to happen.
Spec == Init /\ [][Next]_vars /\ WF_vars(Client)

-----------------------------------------------------------------------------
(* Properties.                                                             *)

(* What a call reports of its transaction is what became of it, whatever   *)
(* other transactions of the account landed meanwhile.                     *)
OutcomeIsTrue ==
    \A i \in DOMAIN calls :
        calls[i].result \in {"success", "failed"} =>
            \E k \in DOMAIN chain :
                /\ chain[k].call = i
                /\ chain[k].ok = (calls[i].result = "success")

(* A simulation error, a signing error and a rejected submission are       *)
(* final: the transaction is nowhere and never lands, so the call may be   *)
(* repeated at once.  (An approval that arrives after the signing loop     *)
(* gave up is not submitted.)                                              *)
EarlyErrorsAreFinal ==
    \A i \in DOMAIN calls :
        calls[i].result \in {"simulationError", "signingError", "rejected"} =>
            i \notin pool /\ ~Landed(i)

(* However often a call is repeated, its operation takes effect once: a    *)
(* mint repeated after an unconfirmed one does not mint twice.             *)
EffectAtMostOnce == Cardinality({k \in DOMAIN chain : chain[k].ok}) <= 1

\* Phases in which the current call has not submitted its transaction.
Fresh == {"built", "prepared", "signing", "signed"}

\* What can still become of a call's transaction, and what its caller knows.
Fate(i) ==
    IF Landed(i)
    THEN IF \E k \in DOMAIN chain : chain[k].call = i /\ chain[k].ok
         THEN "applied" ELSE "failed"
    ELSE IF \/ i \in pool /\ clock <= calls[i].maxTime
            \/ i = Number /\ phase \in Fresh
         THEN "open" ELSE "void"

Answer(result) ==
    CASE result \in {"simulationError", "signingError", "rejected"} -> "never"
      [] result \in {"unconfirmed", "transportError"} -> "unknown"
      [] OTHER -> result

(* The calls are attempts each of which is decided once, and whose results *)
(* never say more than is so and will stay so; an operator who waits makes *)
(* a new one only when the earlier ones are without effect for good.       *)
Attempt == INSTANCE Attempts
               WITH Exclusive <- WaitsForExpiry,
                    fate <- [i \in DOMAIN calls |-> Fate(i)],
                    answer <- [i \in DOMAIN calls |-> Answer(calls[i].result)]

ImplementsAttempts == Attempt!Spec

(* Every call ends in a result: neither loop polls forever, whatever the   *)
(* custodian and the network do or leave undone.                           *)
EveryCallEnds == phase # "idle" ~> phase = "idle"

(* The error of submitAndPoll: what is not confirmed after all polls and   *)
(* is not found in a ledger was dropped, and may be submitted again.       *)
RepeatAfterUnconfirmedIsSafe ==
    (\A i \in DOMAIN calls : calls[i].result # "transportError")
        => EffectAtMostOnce

(* fireblocks-signer.ts: a signature the SDK returns can still be          *)
(* submitted, the envelope has not expired.                                *)
ReturnedSignatureIsUsable ==
    phase = "signed" /\ custody = "completed" => clock <= Current.maxTime
=============================================================================
