# The MGUSD minter gateway in TLA+

A verification project for the Soroban contract `contracts/mintergateway`, the SDK
that calls it (`soroban-fireblocks-sdk`), the tools that deploy it and give the issuer
key up (`scripts/`), and what operators and approvers run beside them. Paths below are relative to the repository.

## The system

| part | state it keeps | operations | talks to |
|---|---|---|---|
| yield state (`yield_state.rs`, `continuous_index.rs`) | rate, index, timestamp, principal, supply | update the index, add, remove, read accrued yield | the ledger clock |
| roles (`roles.rs`, `admin.rs`) | four single holders, the yield recipient, three sets | setters of the admin and of the yield recipient manager | every entry point asks it |
| gateway (`contract.rs`) | the two above, the pause flag | mint, burn, reconcile, set rate, claim, force transfer, block, pause, hand over | calls the SAC in the same transaction |
| Stellar asset (external) | trustlines, balances, its admin | mint, clawback, set_authorized; transfers of holders | called by the gateway, holders and any other admin |
| SDK | a call in progress | build, simulate, sign, submit, poll | RPC node, Fireblocks, the network |
| deployment tools | a run in progress; the issuer account | five steps, smoke test, renounce, verify | Horizon, the network, through the SDK or the CLI |
| WASM provenance (`lib/attestation.ts`, `deploy-pipeline.sh`) | downloaded and built files, the pinned hash, receipts | download, attest, build, compare, pin, upload | GitHub releases, the checkout, other deployments in it |
| command lines (`soroban-fireblocks-sdk/scripts`) | a run in progress | vault check, preflight, confirm, call, postcheck | RPC node, Horizon, Fireblocks, the operator |
| inspection tools (`fb-tx-inspect.ts`, `verify-envelope.ts`) | what an approver has on the screen | decode, compare hashes | Fireblocks, the submitter, the approver |

What is hard in it:

- **Rounding and order.** Present values are rounded at every mint and burn, the index
  is stored at irregular times, rates change in between. Whether units appear or
  disappear shows only over long sequences.
- **Two books.** `total_supply` and the SAC's balances are moved in one transaction,
  but holders can destroy tokens by sending them to the issuer, and another SAC admin
  can mint past the gateway.
- **Who may do what.** Four single roles and three sets that are granted, removed and
  rotated at any time, between a block and its unblock too, and held by the same or by
  different addresses; the SAC adminship on top, which may be elsewhere for a while.
- **Awaits.** A call of the SDK waits for four parties, with three different time limits
  (2 min of polls, 5 min of validity, 10 min of approval), and one source account.
- **Runs on what earlier runs left.** A deployment fails anywhere, its last transaction
  may land late, and renouncing cannot be undone.
- **Files read more than once.** What was attested, compared and hashed is uploaded
  later, from a file or from memory, in a checkout others use as well.
- **Checks before and after.** A command line reads the chain through a node that lags,
  asks, submits and reads again, while another rotates the same admin. What an alarm, a
  failure or a clean exit means then is not written anywhere.
- **A hash is all that is signed.** The approver sees a note cut at 250 characters, an
  envelope that was passed on by hand, and a hash.

## Modules

| module | models | remarks |
|---|---|---|
| `FixedPoint` | `fixed_mul_floor`, `fixed_mul_ceil` | overflow as the guard `MulFits` |
| `ContinuousIndex` | `continuous_index.rs` | each operator `Op` with `OpFits` |
| `YieldState` | `yield_state.rs` | plus ledger time and two history variables |
| `Roles` | `roles.rs`, `admin.rs` and the setters of `contract.rs` | |
| `StellarAsset` | the SAC and trustlines, from the calls and the tests | external |
| `MinterGateway` | `contract.rs`, composing the four above | one action per entry point |
| `GatewayInterface` | the names `contract.rs` exports | what a simulation or a query can find |
| `YieldLedger` | nothing: the abstract specification of the yield | refined by `MinterGateway` |
| `Attempts` | nothing: the abstract specification of what a client tells of its transactions | refined by `Submission` and by `Operators` |
| `IssuerLifecycle` | nothing: the abstract specification of what an issuer goes through | refined by `Deployment` |
| `GatewayProperties` | what the contract promises | |
| `Submission` | a call of the SDK | with its properties |
| `Deployment` | the deployment tools | with its properties |
| `WasmProvenance` | where the bytes of a deployment come from, and its receipt | with its properties |
| `Operators` | the command lines, several at once | with its properties |
| `Approval` | requests, notes, and the tools that show them | with its properties |
| `IndexLemmas`, `GatewayProofs`, `ControlProofs` | theorems about the gateway | |
| `SubmissionProofs`, `DeploymentProofs`, `ProvenanceProofs`, `OperatorsProofs`, `ApprovalProofs` | theorems about the five modules above | |
| `MC*` | constants for TLC | |

Three modules look at one thing from three sides. `Submission` has one call at every
await; `Deployment` and `Operators` use what it shows of a call's outcome (a result that
is the ledger's, or an error after which the transaction may still land) as one or two
steps of their runs. That this summary is right is what `Attempts` is for: both
`Submission`, with its polls and time limits, and `Operators` are shown to implement it.
`Operators` and `Approval` share the names of `GatewayInterface`.

`Attempts` knows of a transaction only its fate, decided once (applied, failed, or lost
for good), and the answer its caller gets, given once: it never contradicts the fate,
neither the present one nor a later one, and "never" is said only of what cannot land any
more. The mappings compute both: in `Submission` the fate is read off ledger, mempool and
phase, in `Operators` off ledgers, in-flight runs and phase. `IssuerLifecycle` has an
issuer's flags, signers and SAC admin, the gateways whose deployment completed, and
whether the last word is that the issuer is renounced; its steps are the ones that may
happen to them at all, whichever tool or late transaction makes them.

How code becomes actions:

- A call that returns an error or panics is reverted, so the checks of an entry point
  are the guards of its action and a refused call is a step that does not happen. A
  product that leaves i128 panics as well. The functions of `yield_state.rs` read and
  write storage one after the other inside a transaction: `UpdateIndex` determines
  `latestIndex'` and the functions after it read `latestIndex'`.
- `BlockUser` of a single account is `BlockUsers` of a singleton; a batch is a set,
  since setting a flag twice is setting it once.
- Events are kept as the sums of their amounts (`log`). `earned`, `conversions`,
  `destroyed`, `issuedOutside` and `windowOpeners` are history variables: no guard of
  modelled code reads them, only the bounds and the properties do.
- In `Submission` every action ends at an `await`; what the network, the RPC node and
  Fireblocks do is an action of its own. The calls of a behaviour are attempts at one
  operation, because repeating is where things go wrong. The clock moves with the
  sleeps of the two polling loops and between calls; a round trip takes no time.
- In `Deployment` a run is a sequence of steps and a step is one action: a check that
  goes on, aborts or fails, or a submission that lands or not, reported as landed or
  as an error. An error ends the run (`set -e`, `throw`). Transactions of the issuer
  that were reported as errors may still land; they share a sequence number, so one
  landing voids the others.
  The mode of a run names its tool: the SDK's `deployFull` (`sdk`), `deploy-renounce.sh`
  with its checks before the first step (`script`), or `deploy-testnet.sh`, which starts
  at the configuration and checks nothing (`testnet`).
- In `WasmProvenance` every read of a file is a step, and files, the checkout and the
  assets of releases may change between any two. A hash is identified with the bytes it
  is of: two files have the same hash just when they are the same. A local build gives
  the attested bytes of its commit if it is made with the builder's home domain, and
  something CI never built otherwise. `deployed` and `receipts` are what later readers
  have; `disturbed` is a history variable that says what was changed meanwhile. A receipt
  is written last, of a deployment that was completed, and its commit is "unknown" (`None`)
  where git fails.
- In `Operators` a ledger holds one transaction, so that a run's transaction and the
  change it made can be named; `node` and `horizon` are the last ledgers the RPC node and
  Horizon have seen. A command is a value of `Commands`: the tool, the key in its VARS
  block, the key the vault really holds, its argument, and whether an entry is missing.
  `base` is the ledger a run's first reading came from. A read that fails ends the run,
  as `unread` before anything was submitted and as `unchecked` after it. `trustline-self`
  submits to Horizon and hears of its result from there (`Gate`), the others from the node. The fixed holders of the roles
  are constants, since no command line changes them; the admin is a variable.
- In `Approval` the hash of an envelope is the pair of envelope and network passphrase.
  An envelope is assembled when it has been through the simulation, which changes its
  hash; each call has its own. Notes are kept as lengths, argument by argument, because
  only truncation matters; what a tool decodes is `FormatOperation`, the fields it
  prints. An approver may take any request or any envelope for that of any call.

## Runs

The configuration of a run is named after it: `retry_at_once` is `MCRetryAtOnce.cfg`, and
`provenance` `MCWasmProvenance.cfg`.

Passing:

| run | question | properties |
|---|---|---|
| `economics` | do the accumulators, the SAC and the events agree, also when paused or with another SAC admin | `TypeOK`, `SupplyBookkeeping`, `EventsGiveSupply`, `PauseFreezesSupply` |
| `yield` | is yield neither created nor lost, and can all supply be redeemed | `ClaimedWithinEarned`, `RoundingLossBounded`, `SupplyCanBeRetired`, `IndexNeverFalls`, `NoInstantYield`, `ImplementsYieldLedger` |
| `custody` | what can a caller bring about with its roles, also with the SAC admin away and back | `EffectsNeedRoles` |
| `submission` | what is a reported result worth | `TypeOK`, `OutcomeIsTrue`, `EarlyErrorsAreFinal`, `EffectAtMostOnce`, `EveryCallEnds`, `ImplementsAttempts` |
| `deployment` | what do failed and repeated deployments leave | `TypeOK`, `CompleteDeploymentIsWired`, `ContaminatedInTheWindowOnly`, `RenouncedIssuerHandedOver`, `ReportedRenouncedIsSealed`, `ImplementsLifecycle` |
| `provenance` | which bytes are deployed, and what is said of them | `TypeOK`, `SdkDeploysPinnedBytes`, `ReceiptIsTrue`, `UnattestedIsAcknowledged`, `PipelineDeploysItsRelease`, `ReceiptNamesItsCommit` |
| `operators` | what do failures, alarms and clean exits mean | `TypeOK`, `FailureMeansInterference`, `CheckedExitMeansDone`, `AlarmMeansInterference`, `TrustsTheWrappersAsset`, `ImplementsAttempts` |
| `approval` | what does an approver know | `TypeOK`, `VerifiedIsSigned`, `NoFalseAlarm`, `ApprovedIsDescribed`, `NoteKeepsArguments` |

Violated, where the code and what the repository says of it differ:

| run | property | what is said | what happens |
|---|---|---|---|
| `retry_at_once` | `RepeatAfterUnconfirmedIsSafe` | what is not confirmed and not found was dropped: try another RPC (`soroban-tx-builder.ts:129`) | it may land for three more minutes, and so does its repetition |
| `skip_deploy` | `RenouncedIssuerHandedOver` | after renouncing, every privileged operation goes through the gateway (`issuer-renunciation.md:3`) | `--skip-deploy` burns the key first and looks at the SAC admin afterwards |
| `pause_preflight` | `PausersPassThePreflight` | the preflight of pause stops a key that is no pauser (`soroban-fireblocks-sdk/scripts/README.md:28`) | it asks for `pauser`, which the contract does not export, and stops everybody |
| `pipeline_race` | `PipelineUploadsVerifiedBytes` | the verified bytes are uploaded (`scripts/deploy.env.example:45`) | the shell opens the file again, which another deployment may have overwritten |

Further configurations, each of one invariant that TLC refutes
(`tlc -config <configuration>.cfg <module>`). They are smaller disagreements, and the
places where a passing run's assumption is needed:

| configuration | module | invariant | what happens |
|---|---|---|---|
| `MCBurnedAtMostMinted` | `MCEconomics` | `BurnedAtMostMinted` | claimed yield can be burned once the index has grown, which the overview (line 207) excludes: the check is against the principal |
| `MCLateSignature` | `Submission` | `ReturnedSignatureIsUsable` | the SDK returns signatures of expired envelopes, where `fireblocks-signer.ts:15` wants it to fail first |
| `MCHorizonError` | `MCDeployment` | `ContaminatedInTheWindowOnly` | an error of Horizon counts as no holders, where `issuer-renunciation.md:60` has the script abort if there are any |
| `MCRenounceLater` | `MCDeployment` | `CompleteDeploymentCanBeRenounced` | the run that is to renounce later (`deploy-renounce.sh:287`) aborts on the flags the first one set |
| `MCSuccessClaim` | `MCOperators` | `AlarmAfterSuccess` | the alarm of a rotation says "returned SUCCESS" of a transaction that failed |
| `MCHorizonLag` | `MCOperators` | `HomeDomainAlarmIsTrue` | `update-home-domain` alarms because Horizon is behind the node its result came from |
| `MCOtherNetwork` | `MCApproval` | `TamperMeansMismatch` | an approver whose tool is set to another network is told of tampering |
| `MCUndecoded` | `MCApproval` | `ApprovedIsDescribed` | operations the tools do not decode in full, such as two new signers, cannot be told apart |
| `MCNotesFit` | `MCApproval` | `NotesFit` | the notes of several wrappers are longer than the 250 characters `fireblocks-note.ts` says they fit in |
| `MCWrappers` | `MCApproval` | `WrappersCallTheContract` | wrappers call methods that are no entry points |
| `MCBuilderDomain` | `MCWasmProvenance` | `ReleaseCommitReproduces` | if CI built with another home domain, the fixed `m0.org` of `attestation.ts` fails on its commit |
| `MCEmptyDomain` | `MCWasmProvenance` | `EmptyHomeDomainDeploys` | an empty `HOME_DOMAIN` is taken for a missing one |

Four constants state what the passing runs assume of the operator and the environment:
`WaitsForExpiry` (a call is repeated only after the envelope's lifetime),
`SkipsCarefully` (`--skip-deploy` only for deployments that completed),
`HorizonAnswers = {"ok"}`, and `Operations` without the ones the inspection tools cannot
tell apart. `PipelineDeploysItsRelease` and `ReceiptNamesItsCommit` say themselves what
must not be disturbed.

Noted while reading, without a run: the overview (line 480, INV-13) calls the pauser a
single address, the code keeps a set (`roles.rs:152`); the comment on
`set_interest_rate` (`contract.rs:451`) gives a maximum of 10000, the constant is 5000;
`mint`, `claim_yield` and `force_transfer` to the issuer destroy what they credit, which
INV-11 does not mention (`SupplyBookkeeping` does); `reconcile_burn` is not compared with
what was destroyed.

### Bounds

- **Arithmetic.** `IndexScale`, `RateScale` and `BpsDenominator` are 100 and a year is one
  unit of time, so growth per ledger is large against the scale and every division leaves
  a remainder; with the real constants no rounding would show in a small state space.
  Rates are 0, the maximum and one above it; amounts one below, at and above the
  smallest legal one. In `yield`, `MaxI128` is small enough that three years at the
  maximum overflow: the refused update is among the behaviours.
- **Time.** The contract is deployed at time 2, not 0, so that the default timestamp 0 is
  in the past, as it is in reality. Three ledgers after it suffice for a rate to be set,
  changed and cut with an index update forgotten in between.
- **Accounts.** Two holders in `economics`, who also are what the yield recipient may be,
  so that tokens are traded, sent to the issuer and claimed by one while the other is
  blocked; one outside SAC admin, who may issue one token past the gateway. None in `yield`,
  where everything goes through the issuer and the accumulators are the whole state.
  `MaxMinted`, `TrustlineLimit` and `MaxOutside` bound amounts; the trustline limit is
  the code's own. In `custody` two addresses hold each role alone, both or
  neither, over one holder and a year after which a claim pays; its claims go to the
  issuer, and changing the recipient is left to `RolesTheorem`. There the outside SAC
  admin issues nothing. A batch has up to two accounts.
- **SDK.** `EnvelopeLifetime` 3, `SigningPolls` 6 and `SubmitPolls` 2 keep the order and
  about the ratio of 300 s, 600 s and 120 s. Three attempts let a third meet two in
  flight; `MaxClock` 13 leaves each of them its lifetime.
- **Deployment.** Three runs: one that fails, one that completes on what it left or
  not, one that renounces. Two outsiders, one on each side of a check.
- **Provenance.** Two releases with different bytes and a build of somebody's own: the
  least that lets one release's file stand where another's should. Two deployments, one
  overtaking the other, and one outside change, with settings of either tool for a
  release or a local file, compared or not, pinned to the right bytes or to others.
- **Operators.** Two commands of any two tools and one transaction past them: every
  hazard listed needs a run and one other actor. Two keys, so that a rotation has
  somewhere to go, and two wrappers, the second with a token contract that only calls
  itself after the asset.
- **Approval.** One approver, since approvers share nothing but the set of approvals;
  two requests, to be mixed up; two networks. Every wrapper is among the calls, with
  amounts of 1, 20 and 39 digits, the longest of i128.

Symmetry is used over holders, operators and outsiders, in runs without liveness.

### Fairness

Only `EveryCallEnds` needs it: `WF_vars(Client)` says that an awaited request settles,
with an answer or an error, and that a sleep ends, which the runtime and the HTTP
clients' own timeouts give. Nothing is assumed of approvers, network or RPC node. The
contract does nothing by itself, so its specification has no fairness; a gateway nobody
calls stands still. Deadlock is checked in the contract's runs, and switched off in
`submission`, `deployment`, `operators` and `provenance` and the configurations made from
them, which end when the bounds on calls and runs are reached.

## Proofs

For every value of the constants that satisfies the named assumptions of each module
(for the gateway `MaxI128Assumption`, `ScaleAssumption`, `TimeAssumption`,
`AssetAssumption` and `InputAssumption`; `SubmissionAssumption`, `DeploymentAssumption`,
`ProvenanceAssumption`, `OperatorsAssumption`, `ApprovalAssumption`, and for the notes
`WordsAssumption`, the lengths of the words in them, and `OperationsAssumption`, that
calls go through the wrappers; TLC evaluates them on every run). `AssetAssumption` has
finitely many holders, without which they have no total. The bounds `MaxCalls`, `MaxClock`, `MaxRuns`, `MaxOutside` and `MaxChanges` are
arbitrary naturals, so the theorems are about behaviours of any length.

| module | theorem | statement |
|---|---|---|
| `GatewayProofs` | `TypeInvariant` | `Spec => []TypeOK` |
| | `IndexNeverFallsTheorem` | `Spec => IndexNeverFalls` |
| | `LedgerRefinement` | `Spec => ImplementsYieldLedger` |
| | `ClaimedWithinEarnedTheorem` | `Spec => []ClaimedWithinEarned` |
| | `RoundingLossTheorem` | `Spec => []RoundingLossBounded` |
| | `NoInstantYieldTheorem` | `Spec => NoInstantYield` |
| | `RetireTheorem` | `Spec => []SupplyCanBeRetired` |
| | `UpdateFitsTheorem` | `Roomy => (Spec => []UpdateFits)` |
| `IndexLemmas` | `CurrentIndexMonotone` | a longer time never gives a smaller index |
| | `IndexCapacity` | up to an index of 600,000,000 and a century, `CurrentIndexFits` |
| `ControlProofs` | `SupplyTheorem` | `Spec => []SupplyBookkeeping` |
| | `EventsTheorem` | `Spec => []EventsGiveSupply` |
| | `PauseTheorem` | `Spec => PauseFreezesSupply` |
| | `RolesTheorem` | `Spec => EffectsNeedRoles` |
| `SubmissionProofs` | `SubmissionTypes` | `Spec => []TypeOK` |
| | `OutcomeTheorem` | `Spec => []OutcomeIsTrue` |
| | `EarlyErrorsTheorem` | `Spec => []EarlyErrorsAreFinal` |
| | `OnceTheorem` | `WaitsForExpiry => (Spec => []EffectAtMostOnce)` |
| | `AttemptsTheorem` | `Spec => ImplementsAttempts` |
| `DeploymentProofs` | `DeploymentTypes` | `Spec => []TypeOK` |
| | `WiredTheorem` | `Spec => []CompleteDeploymentIsWired` |
| | `SealedTheorem` | `Spec => []ReportedRenouncedIsSealed` |
| | `HandedOverTheorem` | `SkipsCarefully => (Spec => []RenouncedIssuerHandedOver)` |
| | `WindowTheorem` | `"error" \notin HorizonAnswers => (Spec => []ContaminatedInTheWindowOnly)` |
| | `LifecycleTheorem` | `Spec => ImplementsLifecycle` |
| `ProvenanceProofs` | `ProvenanceTypes` | `Spec => []TypeOK` |
| | `PinnedBytesTheorem` | `Spec => []SdkDeploysPinnedBytes` |
| | `ReceiptTheorem` | `Spec => []ReceiptIsTrue` |
| | `AcknowledgedTheorem` | `Spec => []UnattestedIsAcknowledged` |
| | `CommitTheorem` | `Spec => []ReceiptNamesItsCommit` |
| | `PipelineTheorem` | `Spec => []PipelineDeploysItsRelease` |
| `OperatorsProofs` | `OperatorsTypes` | `Spec => []TypeOK` |
| | `FailureTheorem` | `Spec => []FailureMeansInterference` |
| | `CheckedExitTheorem` | `Spec => []CheckedExitMeansDone` |
| | `AlarmTheorem` | `Spec => []AlarmMeansInterference` |
| | `RequestsTheorem` | `Spec => []RequestsAreChecked` |
| | `TrustTheorem` | `Spec => []TrustsTheWrappersAsset` |
| | `AttemptsTheorem` | `Spec => ImplementsAttempts` |
| `ApprovalProofs` | `ApprovalTypes` | `Spec => []TypeOK` |
| | `VerifiedTheorem` | `Spec => []VerifiedIsSigned` |
| | `NoFalseAlarmTheorem` | `Spec => []NoFalseAlarm` |
| | `DescribedTheorem` | `DecodedApart => (Spec => []ApprovedIsDescribed)` |
| | `NoteTheorem` | `Spec => []NoteKeepsArguments` |

**The yield.** `TypeOK` is inductive as it stands: the accumulators stay within i128 by
the code's checked arithmetic, and non-negative because a burn is compared with both.
`IndexLemmas` shows that floor division is monotone, hence each Taylor term, the
exponential and the index after an elapsed time. Each action then has one lemma in
`GatewayProofs` (`MintStep`, `BurnStep`, ...) that says what it does to types, index and
worth, and `StepEffect` joins them: a step of `[Next]_vars` is one of a few effects on
the yield, namely time passing, an issue, a redemption, a payment, a rate change or
nothing. The theorems about yield are read off that list. Storing the index leaves
the real-time index where it was, since the stored value is the real-time one; issuing
rounds the worth added down to at most the tokens, redeeming rounds the worth removed up to
at least the tokens, which gives the refinement. `ClaimedWithinEarned` is
not inductive: a payment has to be covered by earnings that were not paid yet. The
invariant `Accounted` adds `Solvent`, that the worth beyond what is outstanding,
together with what was paid, is at most what was earned; a payment moves an amount from
the one to the other. The rounding loss is the other side of the same account, each
conversion adding less than one unit of principal at the current index. `RetireTheorem`
reads it the other way round: what is paid out was earned, so the principal falls short of
the supply by at most those units, and a burn that leaves them aside passes
`BurnExceedsPrincipal`. That they can add up to the whole supply when the
index is large is the code's own loss: the last tokens of a long history of dust cannot
be burned.

**Room in i128.** With the real constants a product of `current_index` is far from
2^127, and how far is `IndexCapacity`: an exponent of at most fifty (a century at 50 %)
keeps the Taylor terms within 1250, 20834 and 260425 times the scale, the factor within
282560, and 600,000,000 times that still fits. `Roomy` states what of the scales this
needs; those of `constants.rs` have it (169536000000000 · 10^24 is less than 2^127). The
theorem is about one update, whatever came before it: that the index itself stays under
600,000,000 over a history is not proved. TLC has 32-bit integers and cannot look at
these constants; the run `yield` looks at the overflow with small ones.

**Supply and control.** These need `TypeOK` and no arithmetic of the index. A step adds
an amount to the supply and to one sum of the events, or leaves both alone
(`CallCounted`). For `SupplyBookkeeping` the balances have to be summed, which
`MapThenSumSet` does by recursion over sets of holders. That its value satisfies the
recursion, and that changing one balance by some amount changes every sum over a set with
that holder by as much, are inductions over the sets of holders; `SubsetInduction` makes
them without an operator parameter, as the inclusion of a set, from a least number
(`SumsExist`, `SumsRec`, `SumsChanged`). A step then moves `Circulating` and `destroyed`
together as it moves the supply and its bookkeeping (`CallBooked`, `OutsideBooked`).
`PauseTheorem` and `RolesTheorem` are action properties, one step per entry point.
`EffectsNeedRoles` names no entry point: it says of every call which differences
between two states its caller's roles account for. Tokens that change hands are a forced
transfer only if the supply stands still, which is where the theorem needs that a mint, a
burn or a claim that moves a balance moves the supply by a positive amount. The check of
the caller's role is all that stands between the roles: a guard dropped, or made to ask
for another role, leaves some difference without its role.

**A call of the SDK.** `EffectAtMostOnce` says nothing of where transactions are that
have not landed. The invariant does: each call's transaction is in the client's hands, in
the mempool, lost or in one ledger, never in two places (`Placed`); a call in progress has
no result and, until it submits, its transaction is nowhere else (`Underway`); and for
an operator who waits, every earlier envelope has expired, so that what has taken effect
is of the last call (`Timely`). Landing needs an envelope that has not expired, which is
where the waiting enters. The same invariant makes calls attempts: the fate of a call that
is not in flight any more cannot change, and what its result says is its fate.

**A deployment.** No step takes a flag away, and the SAC's admin, once it is a gateway,
stays (`Grown`, `Persists`). So what a step established is still so when later ones build
on it, whatever failed and whatever lands late: `Established` says what each step has
behind it, `Counted` that a run cannot complete with a gateway another run has, `Late`
that a hand-over in flight names a gateway. `HandedOver` and `Watched` carry the two
hypotheses. The refinement of `IssuerLifecycle` goes through the actions, each of which is
one of its steps or nothing to it; the one that gives up the key may be a transaction
that lands late, so the invariant `Prepared` says that a completed deployment is behind
it already while it is in flight.

**The bytes.** `Sound` says of every deployment which file is its own and, for the SDK,
what its check points have left in memory: attested bytes of its own directory before the
pin, the pinned bytes afterwards. Changes of others touch neither. `Undisturbed` adds
what is true until the checkout moves (a local build that CI would attest is of the commit
checked out, though any deployment may have made it; a cross-verified buffer is what the
recorded commit builds) and until an asset is replaced (every file in `./dist` is its
release's own). The shell's comparison ties the file it found to the release it
was asked for even if the names differ.

**Command lines.** Between two ledgers without a successful transaction nothing of
the gateway differs (`Quiet`). A transaction lands at most once, after the ledger its run
read (`LandedOK`), so a failure needs a change in between, and what is read after one's
own success needs a change since to differ. `Passed`, `Built`, `Seen` and `Ended` say
what a run in each phase has behind it: the vault's key, the preflight, a simulation
that passed, a transaction the node has seen.
The refinement of `Attempts` needs one more invariant: a run that tells of its transaction
has polled it out of a ledger (`Told`). A step other than a new run moves each run onward
(`Onward`): no phase that has asked goes back to one that has not, nothing becomes in
flight that was not just signed, and what is in a ledger stays.

**Approvals.** A request's stash, if it has one, and its shared envelope are the very
envelope that was hashed, and requests do not change (`Shape`); so what was decoded from
an envelope whose hash is the request's stays the decoding of what is signed (`DeskOK`).
That the approver approves what they meant needs `DecodedApart`: no two operations in use
are shown alike, which `MCUndecoded` shows is no idle hypothesis.

**Notes.** A method's words are one argument, or up to three of short names
(`NotesAreBrief`), so that its arguments take at most 201 characters (`ArgumentsBounded`)
and with the method at most 243 of the 247 that are left of a note that is cut. The sum
over the arguments is a fold; as there are three at most, its recursion is unfolded
three times (`FoldShort`) and needs no induction.

Proved only: `RequestsAreChecked`, which is one conjunct of the invariant read off, and
the two theorems about room in i128, whose numbers TLC cannot hold. Model-checked only:
liveness (`EveryCallEnds`), since fairness and ENABLED are out of the
prover's reach. Every other property of the passing runs is a theorem. No module has a
recursive operator: the Taylor polynomial has four fixed terms, and sums are the
community modules' folds.

## Not modelled

- **Contract.** `upgrade`, since it replaces the code; the extension of instance TTL,
  since archival needs a month without a call and is undone by restoring. Reading
  functions are operators of the modules, not actions.
- **Deployment.** `--dry-run`, which submits nothing; the vault and balance preflights
  and the environment checks, which only abort; the addresses of the roles; the rest of
  the issuer account (sequence numbers of other tools, reserve). That a trustline opened
  before step 1 is authorized without an unblock and cannot be clawed back is in
  `Deployment`; `StellarAsset` starts from a deployment without such trustlines.
- **SDK.** The encoding of arguments as ScVal, which is the identity on model values;
  printing, and the wording of errors.
- **Inspection tools.** The fee-bump wrapper, which the SDK never builds, and layout. A
  submitter who stashes or shares another envelope than the one that is hashed: every
  request here is made by this SDK, so that a mismatch comes from mixed-up ids, a raw
  envelope or another network.
- **`verify-issuer-burned.sh`** repeats reads that `Deployment` models and sends a
  transaction that must fail. **`test-send-to-issuer.sh`** is an experiment on testnet;
  what it observes of the SAC is in `StellarAsset`.

## Plan

1. Extend. Compose `Deployment` with `StellarAsset`: trustlines opened before step 1 as
   holders that cannot be clawed back, the issuer live until renounced. Two operators
   with one source account in `Submission` (`Operators` has them, without the polls and
   time limits). `Deployment` over the calls of `Submission` instead of the summary
   `Submit`, and with the bytes of `WasmProvenance`.
2. Prove. The whole path of the index: a bound on it after a number of years, from which
   the room in i128 over a history would follow. `Deployment` over `Submission`, once it
   is composed, as a refinement of both abstract specifications.
