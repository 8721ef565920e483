--------------------------- MODULE WasmProvenance ---------------------------
(***************************************************************************)
(* Which bytes a deployment uploads, and what it says of them: deploy-full *)
(* of the SDK with lib/attestation.ts and its receipt, and the shell's     *)
(* deploy-pipeline.sh.                                                     *)
(*                                                                         *)
(* Both take a release (RELEASE_TAG) or a local file (WASM_PATH with       *)
(* ALLOW_UNATTESTED_WASM), verify the attestation, compare with a local    *)
(* build and with a pinned hash, and upload.  Each of these reads a file,  *)
(* and files change meanwhile: other deployments run in the same checkout, *)
(* somebody builds, checks out another commit, or replaces the asset of a  *)
(* release.  A hash is identified with the bytes it is of.                 *)
(***************************************************************************)
EXTENDS Naturals, Sequences

CONSTANTS Tags,            \* releases
          Bytes,           \* contents of WASM files
          Attested,        \* those CI has built and attested
          BuildOf,         \* what CI built from each release's commit
          BuilderDomain,   \* the home_domain CI built them with
          None,
          Settings,        \* what deployments are started with
          MaxRuns,         \* bound: deployments
          MaxChanges       \* bound: outside changes of files

SettingsType ==
    [tool : {"sdk", "shell"},
     tag : Tags \cup {None},          \* RELEASE_TAG
     path : BOOLEAN,                  \* WASM_PATH names the local build
     allow : BOOLEAN,                 \* ALLOW_UNATTESTED_WASM=1
     cross : BOOLEAN,                 \* CROSS_VERIFY_LOCAL_BUILD=1 (SDK)
     expected : Bytes \cup {None},    \* EXPECTED_WASM_SHA256, _HASH
     homeDomain : {"unset", "empty", "blank", "m0.org", "other"}]

ASSUME ProvenanceAssumption ==
    /\ None \notin Tags \cup Bytes
    \* WASM_PATH tells the files of ./dist from the other two.
    /\ Tags \cap {"none", "own", "target"} = {}
    /\ Attested \subseteq Bytes
    /\ BuildOf \in [Tags -> Attested]
    /\ Bytes # Attested
    /\ BuilderDomain \in {"m0.org", "other"}
    /\ Settings \subseteq SettingsType
    /\ MaxRuns \in Nat /\ MaxChanges \in Nat

VARIABLES release,         \* the asset of each release
          disturbed,       \* what was changed meanwhile
          dist,            \* the shell's ./dist, by file name
          target,          \* the local build WASM_PATH names
          build,           \* ./dist/local-build
          head,            \* the release whose commit is checked out
          changes,
          runs,            \* the settings of each deployment
          at,              \* where it is, or how it ended
          own,             \* the SDK's ./dist/release-<time>
          file,            \* WASM_PATH: "own", "target" or a name in dist
          buffer,          \* what the SDK has read of it
          commit,          \* what was checked out when it had, as git says
          deployed,        \* <<deployment, bytes>> of gateways
          receipts

world == <<release, disturbed, target, head, changes>>
files == <<dist, build, own, file, buffer, commit>>
vars == <<world, files, runs, at, deployed, receipts>>

Phases == {"download", "attest", "head", "build", "compare", "pin", "ready",
           "upload", "deploy"}
Ends == {"refused", "failed", "aborted", "done"}

Run == DOMAIN runs

TypeOK ==
    /\ release \in [Tags -> Bytes]
    /\ disturbed \subseteq {"checkout", "asset"}
    /\ dist \in [Tags -> Bytes \cup {None}]
    /\ target \in Bytes
    /\ build \in Bytes \cup {None}
    /\ head \in Tags
    /\ changes \in 0..MaxChanges
    /\ runs \in Seq(Settings) /\ Len(runs) <= MaxRuns
    /\ at \in [Run -> Phases \cup Ends]
    /\ own \in [Run -> Bytes \cup {None}]
    /\ file \in [Run -> {"none", "own", "target"} \cup Tags]
    /\ buffer \in [Run -> Bytes \cup {None}]
    /\ commit \in [Run -> Tags \cup {None}]
    /\ deployed \subseteq Run \X Bytes
    /\ receipts \subseteq [run : Run, commit : Tags \cup {None},
                           sha256 : Bytes, attested : BOOLEAN, onChain : Bytes]
    \* An SDK deployment past its preflights has the bytes in memory.
    /\ \A r \in Run : runs[r].tool = "sdk"
                      /\ at[r] \in {"ready", "upload", "deploy", "done"} =>
                          buffer[r] # None

Init ==
    /\ release = BuildOf
    /\ disturbed = {}
    /\ dist = [t \in Tags |-> None]
    /\ target \in Bytes
    /\ build = None
    /\ head \in Tags
    /\ changes = 0
    /\ runs = << >> /\ at = << >> /\ own = << >>
    /\ file = << >> /\ buffer = << >> /\ commit = << >>
    /\ deployed = {}
    /\ receipts = {}

Content(r) ==
    CASE file[r] = "own" -> own[r]
      [] file[r] = "target" -> target
      [] OTHER -> dist[file[r]]

-----------------------------------------------------------------------------
(* What others do.                                                         *)

Change ==
    /\ changes < MaxChanges
    /\ changes' = changes + 1
    /\ UNCHANGED <<files, runs, at, deployed, receipts>>

BuildLocally ==
    /\ Change
    /\ target' \in Bytes \ {target}
    /\ UNCHANGED <<release, disturbed, head>>

CheckOut ==
    /\ Change
    /\ head' \in Tags \ {head}
    /\ disturbed' = disturbed \cup {"checkout"}
    /\ UNCHANGED <<release, target>>

ReplaceAsset(t) ==
    /\ Change
    /\ \E b \in Bytes \ {release[t]} : release' = [release EXCEPT ![t] = b]
    /\ disturbed' = disturbed \cup {"asset"}
    /\ UNCHANGED <<target, head>>

-----------------------------------------------------------------------------
(* A deployment.                                                           *)

GoTo(r, phase) ==
    /\ at' = [at EXCEPT ![r] = phase]
    /\ UNCHANGED <<world, runs, deployed, receipts>>

\* requireEnv takes an empty variable for a missing one.  A blank one is
\* trimmed later and is no home domain.
HomeDomainGiven(e) == e.homeDomain \notin {"unset", "empty"}

\* Mutated: a local file needs no acknowledgement.
ResolveUnasked(e) ==
    IF e.tag # None THEN "download" ELSE IF e.path THEN "pin" ELSE "refused"

\* RELEASE_TAG wins over WASM_PATH.
ResolveWasmSource(e) ==
    IF e.tag # None THEN "download"
    ELSE IF e.path /\ e.allow THEN "pin" ELSE "refused"

Start(e) ==
    LET first == IF e.tool = "sdk" /\ ~HomeDomainGiven(e) THEN "refused"
                 ELSE ResolveWasmSource(e)
    IN  /\ Len(runs) < MaxRuns
        /\ runs' = Append(runs, e)
        /\ at' = Append(at, first)
        /\ file' = Append(file, IF first = "pin" THEN "target" ELSE "none")
        /\ own' = Append(own, None)
        /\ buffer' = Append(buffer, None)
        /\ commit' = Append(commit, None)
        /\ UNCHANGED <<world, dist, build, deployed, receipts>>

ToOwnDirectory(e) == e.tool = "sdk"

\* find -print -quit takes any file of the pattern in ./dist, of this
\* release or left from another.
FetchAttestedWasm(r) ==
    LET e == runs[r]
    IN  /\ at[r] = "download"
        /\ \/ /\ ToOwnDirectory(e)
              /\ own' = [own EXCEPT ![r] = release[e.tag]]
              /\ file' = [file EXCEPT ![r] = "own"]
              /\ UNCHANGED dist
           \/ /\ ~ToOwnDirectory(e)
              /\ dist' = [dist EXCEPT ![e.tag] = release[e.tag]]
              /\ \E name \in Tags : /\ dist'[name] # None
                                    /\ file' = [file EXCEPT ![r] = name]
              /\ UNCHANGED own
        /\ GoTo(r, "attest")
        /\ UNCHANGED <<build, buffer, commit>>

\* gh attestation verify asks for the repository, not for the release.
VerifyAttestation(r) ==
    /\ at[r] = "attest"
    /\ Content(r) \in Attested
    /\ GoTo(r, IF runs[r].tool = "sdk" /\ runs[r].cross THEN "head"
                                                        ELSE "pin")
    /\ UNCHANGED files

\* The shell always builds for comparison, after its pin; the SDK when it is
\* asked to, before it.
CheckHead(r) ==
    /\ at[r] = "head"
    /\ head = runs[r].tag
    /\ build' = None
    /\ GoTo(r, "build")
    /\ UNCHANGED <<dist, own, file, buffer, commit>>

\* The SDK builds for m0.org, the shell for its HOME_DOMAIN.
MetaDomain(e) ==
    IF e.tool = "sdk" \/ e.homeDomain \in {"unset", "empty"} THEN "m0.org"
    ELSE e.homeDomain

Build(r) ==
    /\ at[r] = "build"
    /\ IF MetaDomain(runs[r]) = BuilderDomain THEN build' = BuildOf[head]
       ELSE build' \in Bytes \ Attested
    /\ GoTo(r, "compare")
    /\ UNCHANGED <<dist, own, file, buffer, commit>>

\* Mutated: the local build's hash is printed only.
BuiltAtAll(r) == build # None

Reproduced(r) == build = Content(r)

CrossVerifyLocalBuild(r) ==
    /\ at[r] = "compare"
    /\ Reproduced(r)
    /\ GoTo(r, IF runs[r].tool = "sdk" THEN "pin" ELSE "ready")
    /\ UNCHANGED files

MatchesPin(r) ==
    \/ runs[r].expected = Content(r)
    \/ runs[r].tool = "shell" /\ runs[r].expected = None

\* Mutated: the file is read when it is uploaded.
ReadLater(r) == buffer[r]

\* The SDK keeps what it has hashed.
ReadWasm(r) == IF runs[r].tool = "sdk" THEN Content(r) ELSE buffer[r]

\* Where git fails the receipt will say "unknown".
GitInfo == {head, None}

CheckPin(r) ==
    /\ at[r] = "pin"
    /\ MatchesPin(r)
    /\ buffer' = [buffer EXCEPT ![r] = ReadWasm(r)]
    /\ \E c \in GitInfo :
           commit' = [commit EXCEPT ![r] = IF runs[r].tool = "sdk" THEN c
                                                                  ELSE @]
    /\ GoTo(r, IF runs[r].tool = "shell" /\ runs[r].tag # None THEN "head"
                                                               ELSE "ready")
    /\ UNCHANGED <<dist, build, own, file>>

\* Preflights and the operator's answer.
Proceed(r) ==
    /\ at[r] = "ready"
    /\ \/ GoTo(r, "upload")
       \/ GoTo(r, "aborted")
    /\ UNCHANGED files

\* Mutated: the SDK leaves the file to be read by the upload.
ReadAgain(r) == Content(r)

UploadedBytes(r) == IF runs[r].tool = "sdk" THEN buffer[r] ELSE Content(r)

\* uploadWasm and deployFull compare the answer with the hash of the bytes.
AnswerMatches(answer, bytes) == answer = bytes

\* The shell writes no receipt.
ReceiptOf(r, answer) ==
    IF runs[r].tool = "sdk"
    THEN {[run |-> r, commit |-> commit[r], sha256 |-> buffer[r],
           attested |-> runs[r].tag # None, onChain |-> answer]}
    ELSE {}

\* The upload, the deployment and what deployFull has still to do.
Deploy(r) ==
    /\ at[r] = "upload"
    /\ \E answer \in Bytes :
           /\ AnswerMatches(answer, UploadedBytes(r))
           /\ deployed' = deployed \cup {<<r, answer>>}
           /\ receipts' = receipts \cup ReceiptOf(r, answer)
    /\ at' = [at EXCEPT ![r] = "done"]
    /\ UNCHANGED <<world, files, runs>>

\* Mutated: the receipt is written before the hand-over.
DeployRecorded(r) ==
    /\ at[r] = "upload"
    /\ deployed' = deployed \cup {<<r, UploadedBytes(r)>>}
    /\ receipts' = receipts \cup ReceiptOf(r, UploadedBytes(r))
    /\ at' = [at EXCEPT ![r] = "failed"]
    /\ UNCHANGED <<world, files, runs>>

\* A gateway is deployed, and a later step of the deployment fails: the SDK
\* writes no receipt.
DeployHalfway(r) ==
    /\ at[r] = "upload"
    /\ deployed' = deployed \cup {<<r, UploadedBytes(r)>>}
    /\ at' = [at EXCEPT ![r] = "failed"]
    /\ UNCHANGED <<world, files, runs, receipts>>

\* A check of the above does not hold, or a tool or a request fails.
Fail(r) ==
    /\ at[r] \in Phases
    /\ GoTo(r, "failed")
    /\ UNCHANGED files

Step(r) ==
    \/ FetchAttestedWasm(r)
    \/ VerifyAttestation(r)
    \/ CheckHead(r)
    \/ Build(r)
    \/ CrossVerifyLocalBuild(r)
    \/ CheckPin(r)
    \/ Proceed(r)
    \/ Deploy(r)
    \/ DeployHalfway(r)
    \/ Fail(r)

Next ==
    \/ BuildLocally
    \/ CheckOut
    \/ \E t \in Tags : ReplaceAsset(t)
    \/ \E e \in Settings : Start(e)
    \/ \E r \in Run : Step(r)

Spec == Init /\ [][Next]_vars

-----------------------------------------------------------------------------
(* Properties.                                                             *)

\* The SDK deploys the pinned bytes and no others, whatever happens to the
\* file after it was hashed (.env.example: "The deploy script refuses to
\* upload anything that doesn't match").
SdkDeploysPinnedBytes ==
    \A d \in deployed :
        runs[d[1]].tool = "sdk" => d[2] = runs[d[1]].expected

\* A receipt is of a deployment that was completed, hand-over included, and
\* whose gateway runs the bytes it names; bytes it calls attested were attested
\* (deploy-full.ts: "Written post-success so a half-failed deploy leaves no
\* misleading artifact").
ReceiptIsTrue ==
    \A receipt \in receipts :
        /\ at[receipt.run] = "done"
        /\ receipt.onChain = receipt.sha256
        /\ <<receipt.run, receipt.sha256>> \in deployed
        /\ receipt.attested => receipt.sha256 \in Attested

\* What the SDK deploys without CI's attestation was acknowledged by
\* ALLOW_UNATTESTED_WASM and not asked for by RELEASE_TAG (deploy-full.ts).
UnattestedIsAcknowledged ==
    \A d \in deployed :
        runs[d[1]].tool = "sdk" /\ d[2] \notin Attested =>
            runs[d[1]].allow /\ runs[d[1]].tag = None

\* As long as no checkout and no release's asset is changed meanwhile, the
\* shell deploys what CI built of the release it was given, though ./dist
\* holds other releases' files, the attestation of any of them passes and
\* deployments clear each other's ./dist/local-build (deploy-pipeline.sh).
PipelineDeploysItsRelease ==
    \A d \in deployed :
        runs[d[1]].tool = "shell" /\ runs[d[1]].tag # None /\ disturbed = {} =>
            d[2] = BuildOf[runs[d[1]].tag]

\* The commit a receipt of a cross-verified deployment names, if git told it
\* one, is the one its bytes were built from, whatever the release's asset has become and although
\* the commit is read after the comparison, unless somebody checks out another
\* meanwhile (attestation.ts, deploy-full.ts).
ReceiptNamesItsCommit ==
    \A receipt \in receipts :
        receipt.attested /\ runs[receipt.run].cross
        /\ receipt.commit # None /\ "checkout" \notin disturbed =>
            receipt.sha256 = BuildOf[receipt.commit]

\* Claimed by deploy.env.example of the shell: "uploads the verified bytes
\* on-chain".
PipelineUploadsVerifiedBytes ==
    \A d \in deployed :
        runs[d[1]].tool = "shell" /\ runs[d[1]].tag # None =>
            d[2] \in Attested

\* Claimed by attestation.ts: "--meta home_domain=m0.org" is baked into the
\* released WASM, so that the commit of a release reproduces it.
ReleaseCommitReproduces ==
    \A r \in Run :
        at[r] = "compare" /\ runs[r].tool = "sdk" /\ Len(runs) = 1
        /\ disturbed = {} => Reproduced(r)

\* Claimed by deploy-full.ts and .env.example: an empty HOME_DOMAIN deploys
\* without a home domain.
EmptyHomeDomainDeploys ==
    \A r \in Run :
        runs[r].homeDomain = "empty" /\ ResolveWasmSource(runs[r]) # "refused"
            => at[r] # "refused"
=============================================================================
