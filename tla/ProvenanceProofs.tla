-------------------------- MODULE ProvenanceProofs --------------------------
(***************************************************************************)
(* Theorems about which bytes a deployment uploads and what its receipt    *)
(* says, for any releases, bytes, settings and number of deployments and   *)
(* of changes made meanwhile.                                              *)
(*                                                                         *)
(* The argument: Sound says of every deployment where its file is, and of  *)
(* one of the SDK what its check points have left in memory; it holds      *)
(* whatever others change.  Undisturbed adds what is true until somebody   *)
(* moves the checkout or replaces an asset.                                *)
(***************************************************************************)
EXTENDS WasmProvenance, SequenceTheorems, TLAPS

USE ProvenanceAssumption

Sdk(r) == runs[r].tool = "sdk"
Released(r) == runs[r].tag # None

-----------------------------------------------------------------------------
(* Lists with an entry for each deployment.                                *)

\* g has f's n entries and x after them.
Extended(g, f, n, x, S) ==
    /\ g \in [1..(n + 1) -> S]
    /\ \A i \in 1..n : g[i] = f[i]
    /\ g[n + 1] = x

LEMMA AppendFunction ==
    ASSUME NEW S, NEW n \in Nat, NEW f \in [1..n -> S], NEW x \in S
    PROVE  Extended(Append(f, x), f, n, x, S)
<1>1. f \in Seq(S)
  BY SeqDef
<1>2. Len(f) = n
  <2>1. 1..n = 1..Len(f) /\ Len(f) \in Nat
    BY <1>1, LenProperties
  <2>2. \A m \in Nat : 1..n = 1..m => (n \in 1..m \/ n = 0)
                                    /\ (m \in 1..n \/ m = 0)
    OBVIOUS
  <2> QED
    BY <2>1, <2>2
<1>3. /\ Append(f, x) \in Seq(S) /\ Len(Append(f, x)) = n + 1
      /\ \A i \in 1..n : Append(f, x)[i] = f[i]
      /\ Append(f, x)[n + 1] = x
  BY <1>1, <1>2, AppendProperties
<1> QED
  BY <1>3, LenProperties DEF Extended

-----------------------------------------------------------------------------
(* The invariant.                                                          *)

\* The file of a deployment, from the download on if it has one.
FileOK(r) ==
    /\ at[r] = "download" => Released(r)
    /\ at[r] \in Phases \ {"download"} =>
           IF Released(r)
           THEN IF Sdk(r) THEN file[r] = "own" /\ own[r] \in Bytes
                          ELSE file[r] \in Tags /\ dist[file[r]] \in Bytes
           ELSE file[r] = "target"

\* What the SDK has in memory, and what it was asked.
MemoryOK(r) ==
    Sdk(r) =>
        /\ at[r] \in Phases /\ ~Released(r) => runs[r].allow
        /\ Released(r) /\ at[r] \in {"head", "build", "compare", "pin"} =>
               own[r] \in Attested
        /\ at[r] \in {"ready", "upload", "deploy"} =>
               /\ buffer[r] = runs[r].expected
               /\ Released(r) => buffer[r] \in Attested

DeployedOK ==
    \A d \in deployed :
        Sdk(d[1]) =>
            /\ d[2] = runs[d[1]].expected
            /\ IF Released(d[1]) THEN d[2] \in Attested ELSE runs[d[1]].allow

Sound ==
    /\ TypeOK
    /\ \A r \in Run : FileOK(r) /\ MemoryOK(r)
    /\ DeployedOK
    /\ ReceiptIsTrue

LEMMA InitSound == Init => Sound
<1> SUFFICES ASSUME Init PROVE Sound
  OBVIOUS
<1>1. /\ runs \in Seq(Settings) /\ Len(runs) = 0 /\ Run = {}
  BY DEF Init, Run
<1>2. /\ at \in [Run -> Phases \cup Ends]
      /\ own \in [Run -> Bytes \cup {None}]
      /\ file \in [Run -> {"none", "own", "target"} \cup Tags]
      /\ buffer \in [Run -> Bytes \cup {None}]
      /\ commit \in [Run -> Tags \cup {None}]
  BY <1>1 DEF Init
<1>3. BuildOf \in [Tags -> Bytes]
  OBVIOUS
<1>4. TypeOK
  BY <1>1, <1>2, <1>3 DEF Init, TypeOK
<1> QED
  BY <1>1, <1>4 DEF Init, Sound, DeployedOK, ReceiptIsTrue

\* The contents of a deployment's file.
LEMMA ContentIs ==
    ASSUME Sound, NEW r \in Run, at[r] \in Phases \ {"download"}
    PROVE  /\ Content(r) \in Bytes
           /\ Released(r) /\ Sdk(r) => Content(r) = own[r]
           /\ Released(r) /\ ~Sdk(r) => Content(r) = dist[file[r]]
<1>1. FileOK(r) /\ target \in Bytes
  BY DEF Sound, TypeOK
<1>2. CASE ~Released(r)
  BY <1>1, <1>2 DEF FileOK, Content
<1>3. CASE Released(r) /\ Sdk(r)
  BY <1>1, <1>3 DEF FileOK, Content
<1>4. CASE Released(r) /\ ~Sdk(r)
  BY <1>1, <1>4 DEF FileOK, Content
<1> QED
  BY <1>2, <1>3, <1>4

-----------------------------------------------------------------------------
(* The steps.                                                              *)

\* Whoever changes the world outside touches none of this.
LEMMA ChangeSound ==
    ASSUME Sound, BuildLocally \/ CheckOut \/ \E t \in Tags : ReplaceAsset(t)
    PROVE  Sound'
<1>1. UNCHANGED <<files, runs, at, deployed, receipts>>
  BY DEF BuildLocally, CheckOut, ReplaceAsset, Change
<1>2. /\ release' \in [Tags -> Bytes] /\ target' \in Bytes /\ head' \in Tags
      /\ disturbed' \subseteq {"checkout", "asset"}
  <2>1. /\ release \in [Tags -> Bytes] /\ target \in Bytes /\ head \in Tags
        /\ disturbed \subseteq {"checkout", "asset"}
    BY DEF Sound, TypeOK
  <2>2. CASE BuildLocally \/ CheckOut
    BY <2>1, <2>2 DEF BuildLocally, CheckOut
  <2>3. ASSUME NEW t \in Tags, ReplaceAsset(t)
        PROVE  /\ release' \in [Tags -> Bytes] /\ target' \in Bytes
               /\ head' \in Tags /\ disturbed' \subseteq {"checkout", "asset"}
    BY <2>1, <2>3 DEF ReplaceAsset
  <2> QED
    BY <2>2, <2>3
<1>3. changes' \in 0..MaxChanges
  <2>1. changes \in 0..MaxChanges /\ changes < MaxChanges /\ changes' = changes + 1
    BY DEF Sound, TypeOK, BuildLocally, CheckOut, ReplaceAsset, Change
  <2> QED
    BY <2>1
<1>4. TypeOK'
  BY <1>1, <1>2, <1>3 DEF Sound, TypeOK, files, Run
<1> QED
  BY <1>1, <1>4 DEF Sound, files, Run, FileOK, MemoryOK, DeployedOK,
                    ReceiptIsTrue, Released, Sdk

\* Where a deployment starts, and with which file.
First(e) ==
    IF e.tool = "sdk" /\ ~HomeDomainGiven(e) THEN "refused"
    ELSE ResolveWasmSource(e)

FirstFile(e) == IF First(e) = "pin" THEN "target" ELSE "none"

\* A deployment that starts gets an entry in every list.
LEMMA StartExtends ==
    ASSUME Sound, NEW e \in Settings, Start(e), NEW n, n = Len(runs)
    PROVE  /\ n \in Nat /\ Run = 1..n /\ Run' = 1..(n + 1) /\ n < MaxRuns
           /\ runs' \in Seq(Settings) /\ Len(runs') = n + 1
           /\ \A r \in Run : runs'[r] = runs[r]
           /\ runs'[n + 1] = e
           /\ Extended(at', at, n, First(e), Phases \cup Ends)
           /\ Extended(file', file, n, FirstFile(e),
                       {"none", "own", "target"} \cup Tags)
           /\ Extended(own', own, n, None, Bytes \cup {None})
           /\ Extended(buffer', buffer, n, None, Bytes \cup {None})
           /\ Extended(commit', commit, n, None, Tags \cup {None})
           /\ First(e) \in {"download", "pin", "refused"}
           /\ First(e) = "pin" => e.tag = None /\ e.allow
           /\ First(e) = "download" => e.tag # None
<1>1. /\ n \in Nat /\ Run = 1..n /\ runs \in Seq(Settings) /\ n < MaxRuns
  BY LenProperties DEF Sound, TypeOK, Run, Start
<1>2. /\ runs' \in Seq(Settings) /\ Len(runs') = n + 1
      /\ \A r \in 1..n : runs'[r] = runs[r]
      /\ runs'[n + 1] = e
      /\ Run' = 1..(n + 1)
  BY <1>1, AppendProperties, LenProperties DEF Start, Run
<1>3. /\ at' = Append(at, First(e)) /\ file' = Append(file, FirstFile(e))
      /\ own' = Append(own, None) /\ buffer' = Append(buffer, None)
      /\ commit' = Append(commit, None)
  BY DEF Start, First, FirstFile
<1>4. /\ at \in [1..n -> Phases \cup Ends]
      /\ file \in [1..n -> {"none", "own", "target"} \cup Tags]
      /\ own \in [1..n -> Bytes \cup {None}]
      /\ buffer \in [1..n -> Bytes \cup {None}]
      /\ commit \in [1..n -> Tags \cup {None}]
  BY <1>1 DEF Sound, TypeOK
<1>5. /\ First(e) \in {"download", "pin", "refused"}
      /\ First(e) = "pin" => e.tag = None /\ e.allow
      /\ First(e) = "download" => e.tag # None
  BY DEF First, ResolveWasmSource
<1>6. First(e) \in Phases \cup Ends
  BY <1>5 DEF Phases, Ends
<1>7. FirstFile(e) \in {"none", "own", "target"} \cup Tags
  BY DEF FirstFile
<1>8. Extended(at', at, n, First(e), Phases \cup Ends)
  BY <1>1, <1>3, <1>4, <1>6, AppendFunction
<1>9. Extended(file', file, n, FirstFile(e), {"none", "own", "target"} \cup Tags)
  BY <1>1, <1>3, <1>4, <1>7, AppendFunction
<1>10. Extended(own', own, n, None, Bytes \cup {None})
  BY <1>1, <1>3, <1>4, AppendFunction
<1>11. Extended(buffer', buffer, n, None, Bytes \cup {None})
  BY <1>1, <1>3, <1>4, AppendFunction
<1>12. Extended(commit', commit, n, None, Tags \cup {None})
  BY <1>1, <1>3, <1>4, AppendFunction
<1> QED
  BY <1>1, <1>2, <1>5, <1>8, <1>9, <1>10, <1>11, <1>12

LEMMA StartSound ==
    ASSUME Sound, NEW e \in Settings, Start(e)
    PROVE  Sound'
<1> PICK n : n = Len(runs)
  OBVIOUS
<1>1. /\ n \in Nat /\ Run = 1..n /\ Run' = 1..(n + 1) /\ n < MaxRuns
  BY StartExtends
<1>2. /\ runs' \in Seq(Settings) /\ Len(runs') = n + 1
      /\ \A r \in 1..n : runs'[r] = runs[r]
      /\ runs'[n + 1] = e
  BY <1>1, StartExtends
<1>3. /\ First(e) \in {"download", "pin", "refused"}
      /\ First(e) = "pin" => e.tag = None /\ e.allow
      /\ First(e) = "download" => e.tag # None
  BY StartExtends
<1>4. Extended(at', at, n, First(e), Phases \cup Ends)
  BY StartExtends
<1>5. Extended(file', file, n, FirstFile(e), {"none", "own", "target"} \cup Tags)
  BY StartExtends
<1>6. Extended(own', own, n, None, Bytes \cup {None})
  BY StartExtends
<1>7. Extended(buffer', buffer, n, None, Bytes \cup {None})
  BY StartExtends
<1>8. Extended(commit', commit, n, None, Tags \cup {None})
  BY StartExtends
<1>9. UNCHANGED <<world, dist, build, deployed, receipts>>
  BY DEF Start
<1>10. \A r \in 1..(n + 1) : r \in Run \/ r = n + 1
  BY <1>1
<1>11. Run \subseteq Run'
  BY <1>1
<1>14. TypeOK'
  <2>1. \A r \in Run' : runs'[r].tool = "sdk"
                       /\ at'[r] \in {"ready", "upload", "deploy", "done"} =>
                           buffer'[r] # None
    BY <1>1, <1>2, <1>3, <1>4, <1>7, <1>8, <1>10 DEF Sound, TypeOK, Extended
  <2>2. Len(runs') <= MaxRuns
    BY <1>1, <1>2
  <2>3. /\ release' \in [Tags -> Bytes] /\ disturbed' \subseteq {"checkout", "asset"}
        /\ dist' \in [Tags -> Bytes \cup {None}] /\ target' \in Bytes
        /\ build' \in Bytes \cup {None} /\ head' \in Tags
        /\ changes' \in 0..MaxChanges
    BY <1>9 DEF Sound, TypeOK, world
  <2>4. /\ at' \in [Run' -> Phases \cup Ends]
        /\ own' \in [Run' -> Bytes \cup {None}]
        /\ file' \in [Run' -> {"none", "own", "target"} \cup Tags]
        /\ buffer' \in [Run' -> Bytes \cup {None}]
        /\ commit' \in [Run' -> Tags \cup {None}]
    BY <1>1, <1>4, <1>5, <1>6, <1>7, <1>8 DEF Extended
  <2>5. deployed' \subseteq Run' \X Bytes
    BY <1>9, <1>11 DEF Sound, TypeOK
  <2>6. receipts' \subseteq [run : Run', commit : Tags \cup {None}, sha256 : Bytes,
                             attested : BOOLEAN, onChain : Bytes]
    BY <1>9, <1>11 DEF Sound, TypeOK
  <2> QED
    BY <1>2, <2>1, <2>2, <2>3, <2>4, <2>5, <2>6 DEF TypeOK
<1>15. ASSUME NEW r \in Run' PROVE FileOK(r)' /\ MemoryOK(r)'
  <2>1. CASE r \in Run
    <3>1. /\ runs'[r] = runs[r] /\ at'[r] = at[r] /\ file'[r] = file[r]
          /\ own'[r] = own[r] /\ buffer'[r] = buffer[r] /\ dist' = dist
      BY <1>1, <1>2, <1>4, <1>5, <1>6, <1>7, <1>9, <2>1 DEF Extended
    <3>2. FileOK(r) /\ MemoryOK(r)
      BY <2>1 DEF Sound
    <3> QED
      BY <3>1, <3>2 DEF FileOK, MemoryOK, Released, Sdk
  <2>2. CASE r = n + 1
    BY <1>2, <1>3, <1>4, <1>5, <2>2
    DEF FileOK, MemoryOK, Released, Phases, Extended, FirstFile
  <2> QED
    BY <1>1, <1>10, <2>1, <2>2
<1>16. DeployedOK'
  BY <1>1, <1>2, <1>9 DEF Sound, TypeOK, DeployedOK, Released, Sdk
<1>17. ReceiptIsTrue'
  <2>1. \A x \in receipts : x.run \in Run
    BY DEF Sound, TypeOK
  <2>2. \A r \in Run : at'[r] = at[r]
    BY <1>1, <1>4 DEF Extended
  <2> QED
    BY <1>9, <2>1, <2>2 DEF Sound, ReceiptIsTrue
<1> QED
  BY <1>14, <1>15, <1>16, <1>17 DEF Sound

\* A step of r leaves the other deployments as they are, even one that
\* fills ./dist.
LEMMA OthersSound ==
    ASSUME Sound, NEW r \in Run, NEW phase \in Phases \cup Ends,
           runs' = runs, at' = [at EXCEPT ![r] = phase],
           \A t \in Tags : dist[t] \in Bytes => dist'[t] \in Bytes,
           \A s \in Run \ {r} : /\ own'[s] = own[s] /\ file'[s] = file[s]
                               /\ buffer'[s] = buffer[s]
    PROVE  /\ Run' = Run /\ at' \in [Run -> Phases \cup Ends] /\ at'[r] = phase
           /\ \A s \in Run \ {r} : /\ at'[s] = at[s]
                                  /\ FileOK(s)' /\ MemoryOK(s)'
<1>1. /\ Run' = Run /\ at' \in [Run -> Phases \cup Ends] /\ at'[r] = phase
      /\ \A s \in Run \ {r} : at'[s] = at[s]
  BY DEF Sound, TypeOK, Run
<1>2. ASSUME NEW s \in Run \ {r} PROVE FileOK(s)' /\ MemoryOK(s)'
  BY <1>1 DEF Sound, FileOK, MemoryOK, Released, Sdk
<1> QED
  BY <1>1, <1>2

\* The steps up to the operator's answer deploy nothing.
LEMMA PrepareSound ==
    ASSUME Sound, NEW r \in Run,
           \/ FetchAttestedWasm(r) \/ VerifyAttestation(r) \/ CheckHead(r)
           \/ Build(r) \/ CrossVerifyLocalBuild(r) \/ CheckPin(r)
           \/ Proceed(r) \/ Fail(r)
    PROVE  Sound'
<1>1. /\ FileOK(r) /\ MemoryOK(r) /\ TypeOK
      /\ r \in Run /\ at[r] \in Phases \cup Ends
  BY DEF Sound, TypeOK
<1>2. UNCHANGED <<world, runs, deployed, receipts>>
  BY DEF FetchAttestedWasm, VerifyAttestation, CheckHead, Build,
         CrossVerifyLocalBuild, CheckPin, Proceed, Fail, GoTo
<1>3. DeployedOK'
  BY <1>2 DEF Sound, DeployedOK, Released, Sdk
<1> DEFINE OneMoved(phase) ==
             /\ at' = [at EXCEPT ![r] = phase]
             /\ \A t \in Tags : dist[t] \in Bytes => dist'[t] \in Bytes
             /\ \A s \in Run \ {r} : /\ own'[s] = own[s] /\ file'[s] = file[s]
                                    /\ buffer'[s] = buffer[s]
                                    /\ commit'[s] = commit[s]
             /\ dist' \in [Tags -> Bytes \cup {None}]
             /\ build' \in Bytes \cup {None}
             /\ own' \in [Run -> Bytes \cup {None}]
             /\ file' \in [Run -> {"none", "own", "target"} \cup Tags]
             /\ buffer' \in [Run -> Bytes \cup {None}]
             /\ commit' \in [Run -> Tags \cup {None}]
           InMemory(phase) ==
             runs[r].tool = "sdk" /\ phase \in {"ready", "upload", "deploy", "done"}
               => buffer'[r] # None
\* What is left to show of each step.
<1>4. ASSUME NEW phase \in Phases \cup Ends, OneMoved(phase), InMemory(phase),
             at'[r] = phase => FileOK(r)' /\ MemoryOK(r)'
      PROVE  Sound'
  <2>1. /\ Run' = Run /\ at' \in [Run -> Phases \cup Ends] /\ at'[r] = phase
        /\ \A s \in Run \ {r} : at'[s] = at[s] /\ FileOK(s)' /\ MemoryOK(s)'
    BY <1>2, <1>4, OthersSound
  <2>2. \A s \in Run' : FileOK(s)' /\ MemoryOK(s)'
    BY <1>4, <2>1
  <2>3. \A s \in Run' : runs'[s].tool = "sdk"
                       /\ at'[s] \in {"ready", "upload", "deploy", "done"} =>
                           buffer'[s] # None
    BY <1>1, <1>2, <1>4, <2>1 DEF TypeOK
  <2>4. TypeOK'
    BY <1>1, <1>2, <1>4, <2>1, <2>3 DEF TypeOK, world
  <2>5. ReceiptIsTrue'
    <3>1. at[r] # "done"
      BY DEF FetchAttestedWasm, VerifyAttestation, CheckHead, Build,
             CrossVerifyLocalBuild, CheckPin, Proceed, Fail, Phases
    <3>2. \A x \in receipts : x.run \in Run \ {r}
      BY <3>1 DEF Sound, TypeOK, ReceiptIsTrue
    <3> QED
      BY <1>2, <2>1, <3>2 DEF Sound, ReceiptIsTrue
  <2> QED
    BY <1>3, <2>2, <2>4, <2>5 DEF Sound
<1>5. CASE FetchAttestedWasm(r)
  <2> DEFINE t == runs[r].tag
  <2>1. /\ at' = [at EXCEPT ![r] = "attest"] /\ at[r] = "download"
        /\ UNCHANGED <<build, buffer, commit>>
    BY <1>5 DEF FetchAttestedWasm, GoTo
  <2>2. t \in Tags /\ Released(r)
    <3>1. runs[r] \in SettingsType
      BY <1>1, LenProperties, ElementOfSeq DEF TypeOK, Run
    <3> QED
      BY <1>1, <2>1, <3>1 DEF FileOK, Released, SettingsType
  <2>3. release[t] \in Bytes
    BY <1>1, <2>2 DEF TypeOK
  <2>4. CASE Sdk(r)
    <3>1. /\ own' = [own EXCEPT ![r] = release[t]]
          /\ file' = [file EXCEPT ![r] = "own"]
          /\ dist' = dist
      BY <1>5, <2>4 DEF FetchAttestedWasm, ToOwnDirectory, Sdk
    <3> HIDE DEF t
    <3>2. OneMoved("attest") /\ InMemory("attest")
      BY <1>1, <2>1, <2>3, <3>1 DEF TypeOK
    <3>3. file'[r] = "own" /\ own'[r] \in Bytes
      BY <1>1, <2>3, <3>1 DEF TypeOK
    <3>4. at'[r] = "attest" => FileOK(r)' /\ MemoryOK(r)'
      BY <1>2, <2>2, <2>4, <3>3 DEF FileOK, MemoryOK, Released, Sdk
    <3> QED
      BY <1>4, <3>2, <3>4 DEF Phases
  <2>5. CASE ~Sdk(r)
    <3>1. /\ dist' = [dist EXCEPT ![t] = release[t]] /\ own' = own
          /\ \E name \in Tags : /\ dist'[name] # None
                                /\ file' = [file EXCEPT ![r] = name]
      BY <1>5, <2>5 DEF FetchAttestedWasm, ToOwnDirectory, Sdk
    <3> HIDE DEF t
    <3>2. /\ dist' \in [Tags -> Bytes \cup {None}]
          /\ \A u \in Tags : dist[u] \in Bytes => dist'[u] \in Bytes
      BY <1>1, <2>2, <2>3, <3>1 DEF TypeOK
    <3>3. file'[r] \in Tags /\ dist'[file'[r]] \in Bytes
      BY <1>1, <3>1, <3>2 DEF TypeOK
    <3>4. OneMoved("attest") /\ InMemory("attest")
      BY <1>1, <2>1, <3>1, <3>2 DEF TypeOK
    <3>5. at'[r] = "attest" => FileOK(r)' /\ MemoryOK(r)'
      BY <1>2, <2>2, <2>5, <3>3 DEF FileOK, MemoryOK, Released, Sdk
    <3> QED
      BY <1>4, <3>4, <3>5 DEF Phases
  <2> QED
    BY <2>4, <2>5
<1>6. CASE VerifyAttestation(r)
  <2> DEFINE phase == IF runs[r].tool = "sdk" /\ runs[r].cross THEN "head" ELSE "pin"
  <2>1. /\ at' = [at EXCEPT ![r] = phase] /\ UNCHANGED files /\ at[r] = "attest"
        /\ Content(r) \in Attested /\ phase \in {"head", "pin"}
    BY <1>6 DEF VerifyAttestation, GoTo
  <2> HIDE DEF phase
  <2>2. Released(r) /\ Sdk(r) => own[r] \in Attested
    BY <2>1, ContentIs DEF Phases
  <2>3. OneMoved(phase) /\ InMemory(phase)
    BY <1>1, <2>1 DEF TypeOK, files
  <2>4. at'[r] = phase => FileOK(r)' /\ MemoryOK(r)'
    BY <1>1, <1>2, <2>1, <2>2 DEF FileOK, MemoryOK, Released, Sdk, Phases, files
  <2> QED
    BY <1>4, <2>1, <2>3, <2>4 DEF Phases
<1>7. CASE CheckHead(r) \/ Build(r)
  <2> DEFINE phase == IF at[r] = "head" THEN "build" ELSE "compare"
  <2>1. /\ at' = [at EXCEPT ![r] = phase] /\ at[r] \in {"head", "build"}
        /\ UNCHANGED <<dist, own, file, buffer, commit>>
        /\ phase \in {"build", "compare"}
    BY <1>7 DEF CheckHead, Build, GoTo
  <2>2. build' \in Bytes \cup {None}
    <3>1. BuildOf[head] \in Bytes
      BY <1>1 DEF TypeOK
    <3> QED
      BY <1>7, <3>1 DEF CheckHead, Build
  <2> HIDE DEF phase
  <2>3. OneMoved(phase) /\ InMemory(phase)
    BY <1>1, <2>1, <2>2 DEF TypeOK
  <2>4. at'[r] = phase => FileOK(r)' /\ MemoryOK(r)'
    BY <1>1, <1>2, <2>1 DEF FileOK, MemoryOK, Released, Sdk, Phases
  <2> QED
    BY <1>4, <2>1, <2>3, <2>4 DEF Phases
<1>8. CASE CrossVerifyLocalBuild(r)
  <2> DEFINE phase == IF runs[r].tool = "sdk" THEN "pin" ELSE "ready"
  <2>1. /\ at' = [at EXCEPT ![r] = phase] /\ at[r] = "compare" /\ UNCHANGED files
        /\ phase \in {"pin", "ready"} /\ (runs[r].tool = "sdk" => phase = "pin")
    BY <1>8 DEF CrossVerifyLocalBuild, GoTo
  <2> HIDE DEF phase
  <2>2. OneMoved(phase) /\ InMemory(phase)
    BY <1>1, <2>1 DEF TypeOK, files
  <2>3. at'[r] = phase => FileOK(r)' /\ MemoryOK(r)'
    BY <1>1, <1>2, <2>1 DEF FileOK, MemoryOK, Released, Sdk, Phases, files
  <2> QED
    BY <1>4, <2>1, <2>2, <2>3 DEF Phases
<1>9. CASE CheckPin(r)
  <2> DEFINE phase == IF runs[r].tool = "shell" /\ runs[r].tag # None
                      THEN "head" ELSE "ready"
  <2>1. /\ at' = [at EXCEPT ![r] = phase] /\ at[r] = "pin" /\ MatchesPin(r)
        /\ buffer' = [buffer EXCEPT ![r] = ReadWasm(r)]
        /\ \E c \in GitInfo :
               commit' = [commit EXCEPT ![r] = IF runs[r].tool = "sdk" THEN c
                                                                      ELSE @]
        /\ UNCHANGED <<dist, build, own, file>>
        /\ phase \in {"head", "ready"} /\ (runs[r].tool = "sdk" => phase = "ready")
    BY <1>9 DEF CheckPin, GoTo
  <2> HIDE DEF phase
  <2>2. /\ Content(r) \in Bytes
        /\ Released(r) /\ Sdk(r) => Content(r) = own[r]
    BY <2>1, ContentIs DEF Phases
  <2>3. Sdk(r) => /\ buffer'[r] = Content(r) /\ buffer'[r] = runs[r].expected
                  /\ buffer'[r] # None
    BY <1>1, <2>1, <2>2 DEF TypeOK, ReadWasm, MatchesPin, Sdk
  <2>4. buffer' \in [Run -> Bytes \cup {None}] /\ commit' \in [Run -> Tags \cup {None}]
    BY <1>1, <2>1, <2>2 DEF TypeOK, ReadWasm, GitInfo
  <2>5. OneMoved(phase) /\ InMemory(phase)
    BY <1>1, <2>1, <2>3, <2>4 DEF TypeOK, Sdk
  <2>6. at'[r] = phase => FileOK(r)' /\ MemoryOK(r)'
    BY <1>1, <1>2, <2>1, <2>2, <2>3 DEF FileOK, MemoryOK, Released, Sdk, Phases
  <2> QED
    BY <1>4, <2>1, <2>5, <2>6 DEF Phases
<1>10. ASSUME NEW phase \in {"upload", "aborted"}, at[r] = "ready",
              GoTo(r, phase), UNCHANGED files
       PROVE  Sound'
  <2>1. at' = [at EXCEPT ![r] = phase]
    BY <1>10 DEF GoTo
  <2>2. OneMoved(phase) /\ InMemory(phase)
    BY <1>1, <1>10, <2>1 DEF TypeOK, files
  <2>3. at'[r] = phase => FileOK(r)' /\ MemoryOK(r)'
    BY <1>1, <1>2, <1>10 DEF FileOK, MemoryOK, Released, Sdk, Phases, files
  <2> QED
    BY <1>4, <2>2, <2>3 DEF Phases, Ends
<1>11. CASE Fail(r)
  <2>1. at' = [at EXCEPT ![r] = "failed"] /\ UNCHANGED files
    BY <1>11 DEF Fail, GoTo
  <2>2. OneMoved("failed") /\ InMemory("failed")
    BY <1>1, <2>1 DEF TypeOK, files
  <2>3. at'[r] = "failed" => FileOK(r)' /\ MemoryOK(r)'
    BY <1>2 DEF FileOK, MemoryOK, Phases
  <2> QED
    BY <1>4, <2>2, <2>3 DEF Phases, Ends
<1> HIDE DEF OneMoved, InMemory
<1> QED
  BY <1>5, <1>6, <1>7, <1>8, <1>9, <1>10, <1>11 DEF Proceed

\* The steps that leave a gateway behind.
LEMMA DeploySound ==
    ASSUME Sound, NEW r \in Run, Deploy(r) \/ DeployHalfway(r)
    PROVE  Sound'
<1> DEFINE bytes == UploadedBytes(r)
           phase == IF at'[r] = "done" THEN "done" ELSE "failed"
<1>1. /\ at[r] = "upload" /\ UNCHANGED <<world, files, runs>>
      /\ deployed' = deployed \cup {<<r, bytes>>}
  BY DEF Deploy, DeployHalfway, AnswerMatches
<1>2. FileOK(r) /\ MemoryOK(r) /\ TypeOK /\ DeployedOK /\ ReceiptIsTrue
  BY DEF Sound
<1>3. phase \in {"done", "failed"} /\ at' = [at EXCEPT ![r] = phase]
  BY <1>2 DEF Deploy, DeployHalfway, TypeOK
<1>4. bytes \in Bytes /\ (Sdk(r) => bytes = buffer[r])
  BY <1>1, <1>2, ContentIs DEF UploadedBytes, TypeOK, Sdk, Phases
<1> DEFINE attested == runs[r].tag # None
           receipt == [run |-> r, commit |-> commit[r], sha256 |-> buffer[r],
                       attested |-> attested, onChain |-> bytes]
<1>5. receipts' = receipts
      \/ (Sdk(r) /\ at'[r] = "done" /\ receipts' = receipts \cup {receipt})
  BY <1>2 DEF Deploy, DeployHalfway, AnswerMatches, ReceiptOf, Sdk, TypeOK
<1>6. attested \in BOOLEAN /\ (attested => Released(r))
  BY DEF Released
<1> HIDE DEF bytes, phase, attested
<1>7. /\ Run' = Run /\ at' \in [Run -> Phases \cup Ends] /\ at'[r] = phase
      /\ \A s \in Run \ {r} : at'[s] = at[s] /\ FileOK(s)' /\ MemoryOK(s)'
  BY <1>1, <1>3, OthersSound DEF files, Ends
<1>8. \A s \in Run' : FileOK(s)' /\ MemoryOK(s)'
  BY <1>3, <1>7 DEF FileOK, MemoryOK, Phases
<1>9. DeployedOK'
  <2>1. Sdk(r) => /\ bytes = runs[r].expected
                  /\ IF Released(r) THEN bytes \in Attested ELSE runs[r].allow
    BY <1>1, <1>2, <1>4 DEF MemoryOK, Phases
  <2>2. runs' = runs
    BY <1>1
  <2> QED
    BY <1>1, <1>2, <2>1, <2>2 DEF DeployedOK, Released, Sdk
<1>10. ReceiptIsTrue'
  <2>1. Sdk(r) => buffer[r] = bytes /\ (Released(r) => buffer[r] \in Attested)
    BY <1>1, <1>2, <1>4 DEF MemoryOK
  <2>2. /\ receipt.run = r /\ receipt.sha256 = buffer[r]
        /\ receipt.onChain = bytes /\ receipt.attested = attested
    OBVIOUS
  <2>3. \A x \in receipts' :
            x \in receipts \/ (Sdk(r) /\ at'[r] = "done" /\ x = receipt)
    BY <1>5
  <2> HIDE DEF receipt
  <2>4. ASSUME NEW x \in receipts'
        PROVE  /\ at'[x.run] = "done"
               /\ x.onChain = x.sha256
               /\ <<x.run, x.sha256>> \in deployed'
               /\ x.attested => x.sha256 \in Attested
    <3>1. CASE x \in receipts
      <4>1. x.run \in Run \ {r}
        BY <1>1, <1>2, <3>1 DEF TypeOK, ReceiptIsTrue
      <4> QED
        BY <1>1, <1>2, <1>7, <3>1, <4>1 DEF ReceiptIsTrue
    <3>2. CASE Sdk(r) /\ at'[r] = "done" /\ x = receipt
      BY <1>1, <1>6, <2>1, <2>2, <3>2
    <3> QED
      BY <2>3, <3>1, <3>2
  <2> QED
    BY <2>4 DEF ReceiptIsTrue
<1>11. TypeOK'
  <2>1. deployed' \subseteq Run' \X Bytes
    BY <1>1, <1>2, <1>4, <1>7 DEF TypeOK
  <2>2. receipts' \subseteq [run : Run', commit : Tags \cup {None}, sha256 : Bytes,
                             attested : BOOLEAN, onChain : Bytes]
    BY <1>2, <1>4, <1>5, <1>6, <1>7 DEF TypeOK, Sdk
  <2>3. \A s \in Run' : runs'[s].tool = "sdk"
                       /\ at'[s] \in {"ready", "upload", "deploy", "done"} =>
                           buffer'[s] # None
    BY <1>1, <1>2, <1>3, <1>7 DEF TypeOK, files
  <2> QED
    BY <1>1, <1>2, <1>7, <2>1, <2>2, <2>3 DEF TypeOK, world, files
<1> QED
  BY <1>8, <1>9, <1>10, <1>11 DEF Sound

LEMMA SoundStep == Sound /\ [Next]_vars => Sound'
<1> SUFFICES ASSUME Sound, [Next]_vars PROVE Sound'
  OBVIOUS
<1>1. CASE UNCHANGED vars
  BY <1>1 DEF vars, world, files, Sound, TypeOK, Run, FileOK, MemoryOK,
              DeployedOK, ReceiptIsTrue, Released, Sdk
<1>2. CASE Next
  BY <1>2, ChangeSound, StartSound, PrepareSound, DeploySound DEF Next, Step
<1> QED
  BY <1>1, <1>2

LEMMA SoundInvariant == Spec => []Sound
  BY InitSound, SoundStep, PTL DEF Spec

(* Every deployment is where its tool can be, with a file once it has one, *)
(* and one of the SDK that is past its preflights has its bytes in memory. *)
THEOREM ProvenanceTypes == Spec => []TypeOK
<1>1. Sound => TypeOK
  BY DEF Sound
<1> QED
  BY <1>1, SoundInvariant, PTL

(* The SDK deploys the bytes of its pinned hash, whatever becomes of the   *)
(* files and the releases while its operator makes up his mind.            *)
THEOREM PinnedBytesTheorem == Spec => []SdkDeploysPinnedBytes
<1>1. Sound => SdkDeploysPinnedBytes
  BY DEF Sound, DeployedOK, SdkDeploysPinnedBytes, Sdk
<1> QED
  BY <1>1, SoundInvariant, PTL

(* A receipt is of a deployment that was completed, with the bytes it      *)
(* names, and never calls bytes attested that were not.                    *)
THEOREM ReceiptTheorem == Spec => []ReceiptIsTrue
<1>1. Sound => ReceiptIsTrue
  BY DEF Sound
<1> QED
  BY <1>1, SoundInvariant, PTL

(* The SDK deploys unattested bytes only where they were acknowledged, and *)
(* never under the name of a release.                                      *)
THEOREM AcknowledgedTheorem == Spec => []UnattestedIsAcknowledged
<1>1. Sound => UnattestedIsAcknowledged
  BY DEF Sound, DeployedOK, UnattestedIsAcknowledged, Sdk, Released
<1> QED
  BY <1>1, SoundInvariant, PTL

-----------------------------------------------------------------------------
(* Undisturbed: what holds until somebody moves the checkout or replaces an *)
(* asset.                                                                  *)

Unmoved == "checkout" \notin disturbed

\* A local build that CI attests is of the commit that is checked out.
BuildGenuine == build = None \/ build = BuildOf[head] \/ build \notin Attested

\* A cross-verified deployment of the SDK.
CommitOK(r) ==
    Sdk(r) /\ Released(r) /\ runs[r].cross =>
        /\ at[r] = "pin" => own[r] = BuildOf[head]
        /\ at[r] \in {"ready", "upload"} /\ commit[r] # None =>
               buffer[r] = BuildOf[commit[r]]

\* A release's deployment by the shell.  The name under ./dist need not be
\* the release's own, if both have the same bytes.
ReleaseOK(r) ==
    ~Sdk(r) /\ Released(r) =>
        /\ at[r] \in {"build", "compare"} => head = runs[r].tag
        /\ at[r] \in {"ready", "upload"} =>
               BuildOf[file[r]] = BuildOf[runs[r].tag]

ReleasesOK ==
    /\ release = BuildOf
    /\ \A t \in Tags : dist[t] \in {None, BuildOf[t]}

Undisturbed ==
    /\ Unmoved => BuildGenuine /\ \A r \in Run : CommitOK(r)
    /\ disturbed = {} => ReleasesOK /\ \A r \in Run : ReleaseOK(r)
    /\ ReceiptNamesItsCommit
    /\ PipelineDeploysItsRelease

LEMMA InitUndisturbed == Init => Undisturbed
<1> SUFFICES ASSUME Init PROVE Undisturbed
  OBVIOUS
<1>1. Run = {}
  BY DEF Init, Run
<1> QED
  BY <1>1 DEF Init, Undisturbed, BuildGenuine, ReleasesOK,
              ReceiptNamesItsCommit, PipelineDeploysItsRelease

LEMMA ChangeUndisturbed ==
    ASSUME Undisturbed, BuildLocally \/ CheckOut \/ \E t \in Tags : ReplaceAsset(t)
    PROVE  Undisturbed'
<1>1. UNCHANGED <<files, runs, at, deployed, receipts>>
  BY DEF BuildLocally, CheckOut, ReplaceAsset, Change
<1>2. CASE BuildLocally
  BY <1>1, <1>2 DEF BuildLocally, files, Run, Undisturbed, Unmoved,
       BuildGenuine, CommitOK, ReleaseOK, ReleasesOK, Sdk, Released,
       ReceiptNamesItsCommit, PipelineDeploysItsRelease
<1>3. CASE CheckOut
  <2>1. ~Unmoved' /\ disturbed' # {}
    BY <1>3 DEF CheckOut, Unmoved
  <2> QED
    BY <2>1 DEF Undisturbed, Unmoved, ReceiptNamesItsCommit,
                PipelineDeploysItsRelease
<1>4. ASSUME NEW t \in Tags, ReplaceAsset(t) PROVE Undisturbed'
  <2>1. disturbed' # {} /\ head' = head /\ (Unmoved' <=> Unmoved)
    BY <1>4 DEF ReplaceAsset, Unmoved
  <2> QED
    BY <1>1, <2>1 DEF files, Run, Undisturbed, Unmoved, BuildGenuine,
         CommitOK, Sdk, Released, ReceiptNamesItsCommit,
         PipelineDeploysItsRelease
<1> QED
  BY <1>2, <1>3, <1>4

LEMMA StartUndisturbed ==
    ASSUME Sound, Undisturbed, NEW e \in Settings, Start(e)
    PROVE  Undisturbed'
<1> PICK n : n = Len(runs)
  OBVIOUS
<1>1. /\ n \in Nat /\ Run = 1..n /\ Run' = 1..(n + 1)
      /\ \A r \in Run : runs'[r] = runs[r]
      /\ runs'[n + 1] = e
  BY StartExtends
<1>2. /\ Extended(at', at, n, First(e), Phases \cup Ends)
      /\ First(e) \in {"download", "pin", "refused"}
      /\ First(e) = "pin" => e.tag = None
  BY StartExtends
<1>3. Extended(file', file, n, FirstFile(e), {"none", "own", "target"} \cup Tags)
  BY StartExtends
<1>4. Extended(own', own, n, None, Bytes \cup {None})
  BY StartExtends
<1>5. Extended(buffer', buffer, n, None, Bytes \cup {None})
  BY StartExtends
<1>6. Extended(commit', commit, n, None, Tags \cup {None})
  BY StartExtends
<1>7. UNCHANGED <<world, dist, build, deployed, receipts>>
  BY DEF Start
<1>8. ASSUME NEW r \in Run'
      PROVE  /\ (Unmoved => CommitOK(r)')
             /\ (disturbed = {} => ReleaseOK(r)')
  <2>1. CASE r \in Run
    <3>1. /\ runs'[r] = runs[r] /\ at'[r] = at[r] /\ file'[r] = file[r]
          /\ own'[r] = own[r] /\ buffer'[r] = buffer[r]
          /\ commit'[r] = commit[r] /\ head' = head
      BY <1>1, <1>2, <1>3, <1>4, <1>5, <1>6, <1>7, <2>1 DEF Extended, world
    <3> QED
      BY <2>1, <3>1 DEF Undisturbed, CommitOK, ReleaseOK, Sdk, Released
  <2>2. CASE r = n + 1
    <3>1. /\ at'[r] \in {"download", "pin", "refused"}
          /\ at'[r] = "pin" => runs'[r].tag = None
      BY <1>1, <1>2, <2>2 DEF Extended
    <3> QED
      BY <3>1 DEF CommitOK, ReleaseOK, Released
  <2> QED
    BY <1>1, <2>1, <2>2
<1>9. ReceiptNamesItsCommit' /\ PipelineDeploysItsRelease'
  <2>1. deployed \subseteq Run \X Bytes /\ \A x \in receipts : x.run \in Run
    BY DEF Sound, TypeOK
  <2> QED
    BY <1>1, <1>7, <2>1 DEF world, Undisturbed, ReceiptNamesItsCommit,
                            PipelineDeploysItsRelease
<1> QED
  BY <1>7, <1>8, <1>9 DEF world, Undisturbed, Unmoved, BuildGenuine, ReleasesOK

\* A step of r that deploys nothing: what is left to show of it.
LEMMA OthersUndisturbed ==
    ASSUME Sound, Undisturbed, NEW r \in Run,
           UNCHANGED <<world, runs, deployed, receipts>>,
           \A s \in Run \ {r} :
               /\ at'[s] = at[s] /\ own'[s] = own[s] /\ file'[s] = file[s]
               /\ buffer'[s] = buffer[s] /\ commit'[s] = commit[s],
           Unmoved => BuildGenuine' /\ CommitOK(r)',
           disturbed = {} => ReleasesOK' /\ ReleaseOK(r)'
    PROVE  Undisturbed'
<1>1. /\ Run' = Run /\ head' = head /\ disturbed' = disturbed
      /\ (Unmoved' <=> Unmoved)
  BY DEF world, Run, Unmoved
<1>2. ASSUME NEW s \in Run', Unmoved PROVE CommitOK(s)'
  <2>1. CASE s = r
    BY <1>2, <2>1 DEF CommitOK, Sdk, Released
  <2>2. CASE s # r
    <3>1. CommitOK(s) /\ s \in Run \ {r}
      BY <1>1, <1>2, <2>2 DEF Undisturbed
    <3> QED
      BY <1>1, <3>1 DEF CommitOK, Sdk, Released
  <2> QED
    BY <2>1, <2>2
<1>3. ASSUME NEW s \in Run', disturbed = {} PROVE ReleaseOK(s)'
  <2>1. CASE s = r
    BY <1>3, <2>1 DEF ReleaseOK, Sdk, Released
  <2>2. CASE s # r
    <3>1. ReleaseOK(s) /\ s \in Run \ {r}
      BY <1>1, <1>3, <2>2 DEF Undisturbed
    <3> QED
      BY <1>1, <3>1 DEF ReleaseOK, Sdk, Released
  <2> QED
    BY <2>1, <2>2
<1>4. ReceiptNamesItsCommit' /\ PipelineDeploysItsRelease'
  BY <1>1 DEF Undisturbed, ReceiptNamesItsCommit, PipelineDeploysItsRelease
<1>5. disturbed = {} => ReleasesOK'
  OBVIOUS
<1> QED
  BY <1>1, <1>2, <1>3, <1>4, <1>5 DEF Undisturbed

LEMMA PrepareUndisturbed ==
    ASSUME Sound, Undisturbed, NEW r \in Run,
           \/ FetchAttestedWasm(r) \/ VerifyAttestation(r) \/ CheckHead(r)
           \/ Build(r) \/ CrossVerifyLocalBuild(r) \/ CheckPin(r)
           \/ Proceed(r) \/ Fail(r)
    PROVE  Undisturbed'
<1>1. /\ TypeOK /\ FileOK(r) /\ MemoryOK(r)
      /\ Unmoved => BuildGenuine /\ CommitOK(r)
      /\ disturbed = {} => ReleasesOK /\ ReleaseOK(r)
      /\ disturbed = {} => Unmoved
  BY DEF Sound, Undisturbed, Unmoved
<1>2. UNCHANGED <<world, runs, deployed, receipts>>
  BY DEF FetchAttestedWasm, VerifyAttestation, CheckHead, Build,
         CrossVerifyLocalBuild, CheckPin, Proceed, Fail, GoTo
<1>3. runs' = runs /\ head' = head /\ release' = release
  BY <1>2 DEF world
<1> DEFINE OneMoved ==
             \A s \in Run \ {r} :
                 /\ at'[s] = at[s] /\ own'[s] = own[s] /\ file'[s] = file[s]
                 /\ buffer'[s] = buffer[s] /\ commit'[s] = commit[s]
           Genuine ==
             /\ Unmoved => BuildGenuine' /\ CommitOK(r)'
             /\ disturbed = {} => ReleasesOK' /\ ReleaseOK(r)'
\* What is left to show of each step.
<1>4. OneMoved /\ Genuine => Undisturbed'
  BY <1>2, OthersUndisturbed
\* The steps that leave the files alone.
<1>5. ASSUME UNCHANGED files, NEW phase, at' = [at EXCEPT ![r] = phase],
             at'[r] = phase => CommitOK(r)' \/ ~Unmoved,
             at'[r] = phase => ReleaseOK(r)' \/ disturbed # {}
      PROVE  Undisturbed'
  <2>1. at'[r] = phase /\ OneMoved
    BY <1>1, <1>5 DEF TypeOK, files
  <2>2. Genuine
    BY <1>1, <1>3, <1>5, <2>1 DEF files, BuildGenuine, ReleasesOK
  <2> QED
    BY <1>4, <2>1, <2>2
<1>6. CASE FetchAttestedWasm(r)
  <2> DEFINE t == runs[r].tag
  <2>1. /\ at' = [at EXCEPT ![r] = "attest"]
        /\ UNCHANGED <<build, buffer, commit>>
    BY <1>6 DEF FetchAttestedWasm, GoTo
  <2>2. at'[r] = "attest"
    BY <1>1, <2>1 DEF TypeOK
  <2>3. BuildGenuine' <=> BuildGenuine
    BY <1>3, <2>1 DEF BuildGenuine
  <2>4. CommitOK(r)' /\ ReleaseOK(r)'
    BY <2>2 DEF CommitOK, ReleaseOK
  <2>5. OneMoved
    BY <1>1, <1>6, <2>1 DEF TypeOK, FetchAttestedWasm
  <2>6. ReleasesOK => ReleasesOK'
    BY <1>1, <1>3, <1>6 DEF TypeOK, FetchAttestedWasm, ReleasesOK
  <2> QED
    BY <1>1, <1>4, <2>3, <2>4, <2>5, <2>6
<1>7. CASE VerifyAttestation(r)
  <2> DEFINE phase == IF runs[r].tool = "sdk" /\ runs[r].cross THEN "head" ELSE "pin"
  <2>1. /\ at' = [at EXCEPT ![r] = phase] /\ UNCHANGED files
        /\ phase \in {"head", "pin"} /\ (Sdk(r) /\ runs[r].cross => phase = "head")
    BY <1>7 DEF VerifyAttestation, GoTo, Sdk
  <2> HIDE DEF phase
  <2>2. at'[r] = phase => CommitOK(r)' /\ ReleaseOK(r)'
    BY <1>3, <2>1 DEF CommitOK, ReleaseOK, Sdk, Released
  <2> QED
    BY <1>5, <2>1, <2>2
<1>8. CASE CheckHead(r)
  <2>1. /\ at' = [at EXCEPT ![r] = "build"] /\ head = runs[r].tag
        /\ build' = None /\ UNCHANGED <<dist, own, file, buffer, commit>>
    BY <1>8 DEF CheckHead, GoTo
  <2>2. at'[r] = "build" /\ OneMoved
    BY <1>1, <2>1 DEF TypeOK
  <2>3. Genuine
    BY <1>1, <1>3, <2>1, <2>2 DEF BuildGenuine, ReleasesOK, CommitOK,
                                  ReleaseOK, Sdk, Released
  <2> QED
    BY <1>4, <2>2, <2>3
<1>9. CASE Build(r)
  <2>1. /\ at' = [at EXCEPT ![r] = "compare"] /\ at[r] = "build"
        /\ build' = BuildOf[head] \/ build' \notin Attested
        /\ UNCHANGED <<dist, own, file, buffer, commit>>
    BY <1>9 DEF Build, GoTo
  <2>2. at'[r] = "compare" /\ OneMoved
    BY <1>1, <2>1 DEF TypeOK
  <2>3. BuildGenuine' /\ CommitOK(r)'
    BY <1>3, <2>1, <2>2 DEF BuildGenuine, CommitOK
  <2>4. disturbed = {} => ReleasesOK' /\ ReleaseOK(r)'
    BY <1>1, <1>3, <2>1, <2>2 DEF ReleasesOK, ReleaseOK, Sdk, Released
  <2> QED
    BY <1>4, <2>2, <2>3, <2>4
<1>10. CASE CrossVerifyLocalBuild(r)
  <2> DEFINE phase == IF runs[r].tool = "sdk" THEN "pin" ELSE "ready"
  <2>1. /\ at' = [at EXCEPT ![r] = phase] /\ at[r] = "compare"
        /\ UNCHANGED files /\ build = Content(r)
        /\ (Sdk(r) => phase = "pin") /\ (~Sdk(r) => phase = "ready")
    BY <1>10 DEF CrossVerifyLocalBuild, Reproduced, GoTo, Sdk
  <2> HIDE DEF phase
  <2>2. /\ Content(r) \in Bytes
        /\ Released(r) /\ Sdk(r) => Content(r) = own[r]
        /\ Released(r) /\ ~Sdk(r) => Content(r) = dist[file[r]]
    BY <2>1, ContentIs DEF Phases
  <2>3. ASSUME Sdk(r), Released(r), Unmoved
        PROVE  own[r] = BuildOf[head]
    <3>1. own[r] \in Attested
      BY <1>1, <2>1, <2>3 DEF MemoryOK
    <3>2. build = own[r] /\ build # None
      BY <2>1, <2>2, <2>3
    <3> QED
      BY <1>1, <2>3, <3>1, <3>2 DEF BuildGenuine
  <2>4. ASSUME ~Sdk(r), Released(r), disturbed = {}
        PROVE  BuildOf[file[r]] = BuildOf[runs[r].tag]
    <3>1. file[r] \in Tags /\ dist[file[r]] \in Bytes
      BY <1>1, <2>1, <2>4 DEF FileOK, Phases
    <3>2. dist[file[r]] = BuildOf[file[r]]
      BY <1>1, <2>4, <3>1 DEF ReleasesOK
    <3>3. build = BuildOf[file[r]] /\ build \in Attested
      BY <2>1, <2>2, <2>4, <3>1, <3>2
    <3>4. build # None /\ head = runs[r].tag
      BY <1>1, <2>1, <2>4, <3>3 DEF ReleaseOK
    <3> QED
      BY <1>1, <2>4, <3>3, <3>4 DEF BuildGenuine
  <2>5. at'[r] = phase => CommitOK(r)' \/ ~Unmoved
    BY <1>3, <2>1, <2>3 DEF CommitOK, Sdk, Released, files
  <2>6. at'[r] = phase => ReleaseOK(r)' \/ disturbed # {}
    BY <1>3, <2>1, <2>4 DEF ReleaseOK, Sdk, Released, files
  <2> QED
    BY <1>5, <2>1, <2>5, <2>6
<1>11. CASE CheckPin(r)
  <2> DEFINE phase == IF runs[r].tool = "shell" /\ runs[r].tag # None
                      THEN "head" ELSE "ready"
  <2>1. /\ at' = [at EXCEPT ![r] = phase] /\ at[r] = "pin"
        /\ buffer' = [buffer EXCEPT ![r] = ReadWasm(r)]
        /\ \E c \in GitInfo :
               commit' = [commit EXCEPT ![r] = IF runs[r].tool = "sdk" THEN c
                                                                      ELSE @]
        /\ UNCHANGED <<dist, build, own, file>>
        /\ phase \in {"head", "ready"}
    BY <1>11 DEF CheckPin, GoTo
  <2>2. ~Sdk(r) /\ Released(r) => phase = "head"
    <3>1. runs[r].tool \in {"sdk", "shell"}
      BY <1>1, LenProperties, ElementOfSeq DEF TypeOK, Run, SettingsType
    <3> QED
      BY <3>1 DEF Sdk, Released
  <2> HIDE DEF phase
  <2>3. at'[r] = phase /\ OneMoved
    BY <1>1, <2>1 DEF TypeOK
  <2>4. Released(r) /\ Sdk(r) => /\ buffer'[r] = own[r]
                              /\ commit'[r] \in {head, None}
    BY <1>1, <2>1, ContentIs DEF TypeOK, ReadWasm, Sdk, Phases, GitInfo
  <2>5. Unmoved => BuildGenuine' /\ CommitOK(r)'
    BY <1>1, <1>3, <2>1, <2>3, <2>4 DEF BuildGenuine, CommitOK, Sdk, Released
  <2>6. disturbed = {} => ReleasesOK' /\ ReleaseOK(r)'
    BY <1>1, <1>3, <2>1, <2>2, <2>3 DEF ReleasesOK, ReleaseOK, Sdk, Released
  <2> QED
    BY <1>4, <2>3, <2>5, <2>6
<1>12. ASSUME NEW phase \in {"upload", "aborted", "failed"},
              phase = "upload" => at[r] = "ready",
              GoTo(r, phase), UNCHANGED files
       PROVE  Undisturbed'
  <2>1. at' = [at EXCEPT ![r] = phase]
    BY <1>12 DEF GoTo
  <2>2. at'[r] = phase => CommitOK(r)' \/ ~Unmoved
    BY <1>1, <1>3, <1>12 DEF CommitOK, Sdk, Released, files
  <2>3. at'[r] = phase => ReleaseOK(r)' \/ disturbed # {}
    BY <1>1, <1>3, <1>12 DEF ReleaseOK, Sdk, Released, files
  <2> QED
    BY <1>5, <1>12, <2>1, <2>2, <2>3
<1> HIDE DEF OneMoved, Genuine
<1>13. CASE Proceed(r) \/ Fail(r)
  BY <1>12, <1>13 DEF Proceed, Fail
<1> QED
  BY <1>6, <1>7, <1>8, <1>9, <1>10, <1>11, <1>13

LEMMA DeployUndisturbed ==
    ASSUME Sound, Undisturbed, NEW r \in Run, Deploy(r) \/ DeployHalfway(r)
    PROVE  Undisturbed'
<1> DEFINE bytes == UploadedBytes(r)
           attested == runs[r].tag # None
           receipt == [run |-> r, commit |-> commit[r], sha256 |-> buffer[r],
                       attested |-> attested, onChain |-> bytes]
<1>1. /\ at[r] = "upload" /\ UNCHANGED <<world, files, runs>>
      /\ deployed' = deployed \cup {<<r, bytes>>}
      /\ receipts' = receipts \/ (Sdk(r) /\ receipts' = receipts \cup {receipt})
  BY DEF Deploy, DeployHalfway, AnswerMatches, ReceiptOf, Sdk
<1>2. at' = [at EXCEPT ![r] = "done"] \/ at' = [at EXCEPT ![r] = "failed"]
  BY DEF Deploy, DeployHalfway
<1>3. /\ TypeOK /\ FileOK(r)
      /\ Unmoved => CommitOK(r)
      /\ disturbed = {} => ReleasesOK /\ ReleaseOK(r)
  BY DEF Sound, Undisturbed
<1>4. /\ Run' = Run /\ at'[r] \in {"done", "failed"}
      /\ \A s \in Run \ {r} : at'[s] = at[s]
  BY <1>1, <1>2, <1>3 DEF TypeOK, Run
<1>5. /\ runs' = runs /\ disturbed' = disturbed /\ head' = head
      /\ release' = release /\ (Unmoved' <=> Unmoved)
  BY <1>1 DEF world, Unmoved
<1>6. /\ Unmoved => \A s \in Run' : CommitOK(s)'
      /\ disturbed = {} => \A s \in Run' : ReleaseOK(s)'
  BY <1>1, <1>4, <1>5 DEF files, Undisturbed, CommitOK, ReleaseOK, Sdk, Released
<1>7. BuildGenuine' <=> BuildGenuine
  BY <1>1, <1>5 DEF files, BuildGenuine
<1>8. ReleasesOK' <=> ReleasesOK
  BY <1>1, <1>5 DEF files, ReleasesOK
<1>9. PipelineDeploysItsRelease'
  <2>1. ASSUME ~Sdk(r), Released(r), disturbed = {}
        PROVE  bytes = BuildOf[runs[r].tag]
    <3>1. bytes = dist[file[r]]
      BY <1>1, <2>1, ContentIs DEF UploadedBytes, Sdk, Phases
    <3>2. file[r] \in Tags /\ dist[file[r]] \in Bytes
      BY <1>1, <1>3, <2>1 DEF FileOK, Phases
    <3>3. BuildOf[file[r]] = BuildOf[runs[r].tag]
      BY <1>1, <1>3, <2>1 DEF ReleaseOK
    <3> QED
      BY <1>3, <2>1, <3>1, <3>2, <3>3 DEF ReleasesOK
  <2> HIDE DEF bytes
  <2> QED
    BY <1>1, <1>5, <2>1 DEF Undisturbed, PipelineDeploysItsRelease, Sdk, Released
<1>10. ReceiptNamesItsCommit'
  <2>1. ASSUME Sdk(r), Released(r), runs[r].cross, Unmoved,
               commit[r] # None
        PROVE  buffer[r] = BuildOf[commit[r]]
    BY <1>1, <1>3, <2>1 DEF CommitOK
  <2>2. /\ receipt.run = r /\ receipt.commit = commit[r]
        /\ receipt.sha256 = buffer[r] /\ receipt.attested = attested
    OBVIOUS
  <2>3. attested => Released(r)
    BY DEF Released
  <2>4. \A x \in receipts' : x \in receipts \/ (Sdk(r) /\ x = receipt)
    BY <1>1
  <2> HIDE DEF receipt, attested
  <2>5. ASSUME NEW x \in receipts', x.attested, runs[x.run].cross,
               x.commit # None, Unmoved
        PROVE  x.sha256 = BuildOf[x.commit]
    <3>1. CASE x \in receipts
      BY <2>5, <3>1 DEF Undisturbed, ReceiptNamesItsCommit, Unmoved
    <3>2. CASE Sdk(r) /\ x = receipt
      BY <2>1, <2>2, <2>3, <2>5, <3>2
    <3> QED
      BY <2>4, <3>1, <3>2
  <2> QED
    BY <1>5, <2>5 DEF ReceiptNamesItsCommit, Unmoved
<1>11. /\ Unmoved => BuildGenuine
       /\ disturbed = {} => ReleasesOK
  BY DEF Undisturbed
<1> QED
  BY <1>5, <1>6, <1>7, <1>8, <1>9, <1>10, <1>11 DEF Undisturbed

LEMMA UndisturbedStep == Sound /\ Undisturbed /\ [Next]_vars => Undisturbed'
<1> SUFFICES ASSUME Sound, Undisturbed, [Next]_vars PROVE Undisturbed'
  OBVIOUS
<1>1. CASE UNCHANGED vars
  BY <1>1 DEF vars, world, files, Run, Undisturbed, Unmoved, BuildGenuine,
              CommitOK, ReleaseOK, ReleasesOK, Sdk, Released,
              ReceiptNamesItsCommit, PipelineDeploysItsRelease
<1>2. CASE Next
  BY <1>2, ChangeUndisturbed, StartUndisturbed, PrepareUndisturbed,
     DeployUndisturbed DEF Next, Step
<1> QED
  BY <1>1, <1>2

LEMMA UndisturbedInvariant == Spec => []Undisturbed
  BY InitUndisturbed, UndisturbedStep, SoundInvariant, PTL DEF Spec

(* The commit a cross-verified receipt names is the one its bytes were     *)
(* built from, until somebody moves the checkout: the comparison with the  *)
(* local build happens before the commit is read, in a checkout that many  *)
(* deployments share.                                                      *)
THEOREM CommitTheorem == Spec => []ReceiptNamesItsCommit
<1>1. Undisturbed => ReceiptNamesItsCommit
  BY DEF Undisturbed
<1> QED
  BY <1>1, UndisturbedInvariant, PTL

(* The shell deploys the release it was given, until somebody moves the    *)
(* checkout or replaces an asset, though it takes whatever file ./dist     *)
(* holds and other deployments rebuild ./dist/local-build meanwhile.       *)
THEOREM PipelineTheorem == Spec => []PipelineDeploysItsRelease
<1>1. Undisturbed => PipelineDeploysItsRelease
  BY DEF Undisturbed
<1> QED
  BY <1>1, UndisturbedInvariant, PTL
=============================================================================
