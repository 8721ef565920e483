-------------------------- MODULE DeploymentProofs --------------------------
(***************************************************************************)
(* Theorems about the deployment tools, for any number of runs on one      *)
(* issuer and any outsiders.                                               *)
(*                                                                         *)
(* The argument: flags are only added and the admin of the SAC, once it is *)
(* a gateway, stays; so what a step has established when it succeeded is   *)
(* still true when later ones build on it, whatever failed and whatever    *)
(* lands late.  Established says what each step has behind it.             *)
(*                                                                         *)
(* That the issuer goes through one life (IssuerLifecycle) follows step by *)
(* step; that the key is given up only behind a completed deployment also  *)
(* needs it of a transaction that is still on its way (Prepared).          *)
(***************************************************************************)
EXTENDS Deployment, TLAPS

USE DeploymentAssumption

Wired(g) == AuthFlags \subseteq flags /\ sacAdmin = g

\* Steps of a run before it has deployed its gateway.
Before == {"checkFlags", "checkHolders", "configure", "deploySac", "upload",
           "deployGateway"}

\* There is at most a gateway for every run.
Counted ==
    /\ gateways <= runs
    /\ step \in Before => gateways < runs

\* What a run has behind it.
Established ==
    /\ step \in {"deploySac", "upload", "deployGateway", "handOver"} =>
           AuthFlags \subseteq flags
    /\ step \in {"smoke", "complete"} => Wired(gateway)
    /\ step \in {"renounce", "verifyAccount", "verifyAdmin"} => gateway # 0
    /\ step = "verifyAdmin" =>
           ~masterSigns /\ ~secondSigner /\ flags = AuthFlags \cup {"immutable"}

\* A transaction that may land late names a gateway.
Late == \A tx \in inFlight : tx.op = "handOver" => tx.to # 0

\* What an operator who skips carefully can rely on.
HandedOver ==
    SkipsCarefully =>
        /\ RenouncedIssuerHandedOver
        /\ step = "renounce" => sacAdmin \in 1..gateways
        /\ \A tx \in inFlight : tx.op = "renounce" => sacAdmin \in 1..gateways

\* Horizon has answered, and who came since is known.
Watched ==
    "error" \notin HorizonAnswers /\ mode.tool # "testnet"
    /\ step \in {"configure", "deploySac", "upload", "deployGateway",
                 "handOver", "smoke", "complete"} =>
        \A o \in Outsiders : line[o] = "preFlag" => o \in windowOpeners

Inv ==
    /\ TypeOK
    /\ Counted
    /\ Established
    /\ Late
    /\ HandedOver
    /\ Watched
    /\ CompleteDeploymentIsWired
    /\ ReportedRenouncedIsSealed

LEMMA InitInv == Init => Inv
<1> SUFFICES ASSUME Init PROVE Inv
  OBVIOUS
<1>1. mode \in Modes
  BY DEF Init, Modes
<1>2. line \in [Outsiders -> {"none", "preFlag", "clawbackable"}]
  BY DEF Init
<1>3. /\ masterSigns \in BOOLEAN /\ secondSigner \in BOOLEAN
      /\ step \in Steps \cup Ends
      /\ step \notin {"handOver", "smoke", "complete", "renounced"}
  BY DEF Init, Ends
<1>4. TypeOK
  BY <1>1, <1>2, <1>3 DEF Init, TypeOK
<1> QED
  BY <1>4 DEF Init, Inv, Counted, Established, Late, HandedOver, Watched,
              CompleteDeploymentIsWired, ReportedRenouncedIsSealed,
              RenouncedIssuerHandedOver, Before

-----------------------------------------------------------------------------
(* What lands.                                                             *)

Tx == [op : {"configure", "renounce", "handOver"}, to : Nat]

\* Nothing that lands takes a flag away or moves the SAC from a gateway, and
\* only a renounce takes the key.
LEMMA LandingEffect ==
    ASSUME Inv, NEW tx \in Tx, Landing(tx)
    PROVE  /\ flags \subseteq flags'
           /\ flags' \subseteq AuthFlags \cup {"immutable"}
           /\ masterSigns = TRUE /\ masterSigns' \in BOOLEAN
           /\ ~masterSigns' => tx.op = "renounce"
           /\ \/ sacAdmin' = sacAdmin
              \/ sacAdmin = Issuer /\ sacAdmin' = tx.to /\ tx.op = "handOver"
           /\ tx.op = "configure" => AuthFlags \subseteq flags'
           /\ tx.op = "handOver" => sacAdmin' = tx.to /\ sacAdmin = Issuer
<1>1. flags \subseteq AuthFlags \cup {"immutable"} /\ masterSigns \in BOOLEAN
  BY DEF Inv, TypeOK
<1> QED
  BY <1>1 DEF Landing, Configured, Tx

\* What a step leaves of the chain: Grown holds of every step.
Grown ==
    /\ flags \subseteq flags' /\ flags' \subseteq AuthFlags \cup {"immutable"}
    /\ masterSigns' \in BOOLEAN /\ secondSigner' \in BOOLEAN
    /\ gateways' \in gateways..MaxRuns
    /\ \/ sacAdmin' = sacAdmin
       \/ sacAdmin = NoSac /\ sacAdmin' = Issuer
       \/ sacAdmin = Issuer /\ sacAdmin' \in 1..gateways

LEMMA Persists ==
    ASSUME Inv, Grown
    PROVE  /\ sacAdmin' \in {NoSac, Issuer} \cup 1..gateways'
           /\ sacAdmin \in 1..gateways => sacAdmin' = sacAdmin
           /\ \A g \in 1..gateways : Wired(g) => Wired(g)'
           /\ 1..gateways \subseteq 1..gateways'
           /\ 0..gateways \subseteq 0..gateways'
           /\ completed' = completed => CompleteDeploymentIsWired'
           /\ inFlight \subseteq [op : {"configure", "renounce", "handOver"},
                                  to : 0..gateways']
<1>1. /\ sacAdmin \in {NoSac, Issuer} \cup 1..gateways /\ gateways \in Nat
      /\ gateways' \in Nat /\ gateways <= gateways'
      /\ completed \subseteq 1..gateways
      /\ inFlight \subseteq [op : {"configure", "renounce", "handOver"},
                             to : 0..gateways]
  BY DEF Inv, TypeOK, Grown
<1>2. 1..gateways \subseteq 1..gateways' /\ 0..gateways \subseteq 0..gateways'
  BY <1>1
<1>3. sacAdmin \in 1..gateways => sacAdmin' = sacAdmin
  BY <1>1 DEF Grown
<1>4. \A g \in 1..gateways : Wired(g) => Wired(g)'
  BY <1>3 DEF Wired, Grown
<1>5. completed' = completed => CompleteDeploymentIsWired'
  BY <1>1, <1>4 DEF Inv, CompleteDeploymentIsWired, Wired
<1>6. sacAdmin' \in {NoSac, Issuer} \cup 1..gateways'
  BY <1>1, <1>2 DEF Grown
<1> QED
  BY <1>1, <1>2, <1>3, <1>4, <1>5, <1>6

\* A run goes on or ends; only the chain and what may land late change.
\* What is left to show is that the next step has behind it what it needs.
LEMMA GoToStep ==
    ASSUME Inv, Grown, NEW next \in Steps \cup Ends, GoTo(next),
           line' = line, step \in Steps,
           inFlight' \subseteq [op : {"configure", "renounce", "handOver"},
                                to : 0..gateways'],
           Late', HandedOver', Established',
           next \in {"handOver", "smoke", "complete", "renounced"} => gateway # 0,
           Counted',
           next \in {"configure", "deploySac", "upload", "deployGateway",
                     "handOver", "smoke", "complete"} =>
               step \in {"configure", "deploySac", "upload", "deployGateway",
                         "handOver", "smoke"}
               \/ (step = "checkHolders" /\ Watched'),
           ReportedRenouncedIsSealed'
    PROVE  Inv'
<1>1. /\ step' = next
      /\ UNCHANGED <<mode, gateway, runs, completed, windowOpeners>>
  BY DEF GoTo
<1>2. /\ sacAdmin' \in {NoSac, Issuer} \cup 1..gateways'
      /\ 1..gateways \subseteq 1..gateways' /\ 0..gateways \subseteq 0..gateways'
      /\ CompleteDeploymentIsWired'
  BY <1>1, Persists
<1>3. gateways' \in 0..MaxRuns
  BY DEF Inv, TypeOK, Grown
<1>4. TypeOK'
  BY <1>1, <1>2, <1>3 DEF Inv, TypeOK, Grown
<1>5. Watched'
  BY <1>1 DEF Inv, Watched
<1> QED
  BY <1>2, <1>4, <1>5 DEF Inv

\* An error ends a run, whatever it has left.
LEMMA FailStep ==
    ASSUME Inv, Grown, Fail, line' = line, step \in Steps,
           inFlight' \subseteq [op : {"configure", "renounce", "handOver"},
                                to : 0..gateways'],
           Late', HandedOver', gateways' <= runs
    PROVE  Inv'
<1>1. step' = "error" /\ GoTo("error") /\ runs' = runs
  BY DEF Fail, GoTo
<1>2. Established' /\ Counted' /\ ReportedRenouncedIsSealed'
  BY <1>1 DEF Established, Counted, ReportedRenouncedIsSealed, Before
<1> QED
  BY <1>1, <1>2, GoToStep DEF Ends
\* A step that gives up the key, or readies it, only where the SAC is with a
\* gateway leaves HandedOver.
LEMMA StaysHandedOver ==
    ASSUME Inv, Grown,
           SkipsCarefully /\ masterSigns /\ ~masterSigns' =>
               sacAdmin \in 1..gateways,
           SkipsCarefully /\ step' = "renounce" =>
               step = "renounce" \/ sacAdmin \in 1..gateways,
           \A tx \in inFlight' : SkipsCarefully /\ tx.op = "renounce" =>
               tx \in inFlight \/ sacAdmin \in 1..gateways
    PROVE  HandedOver'
<1>1. sacAdmin \in 1..gateways => sacAdmin' \in 1..gateways'
  BY Persists
<1>2. SkipsCarefully => /\ ~masterSigns => sacAdmin \in 1..gateways
                        /\ step = "renounce" => sacAdmin \in 1..gateways
                        /\ \A tx \in inFlight : tx.op = "renounce" =>
                               sacAdmin \in 1..gateways
  BY DEF Inv, HandedOver, RenouncedIssuerHandedOver
<1>3. masterSigns \in BOOLEAN
  BY DEF Inv, TypeOK
<1> QED
  BY <1>1, <1>2, <1>3 DEF HandedOver, RenouncedIssuerHandedOver

\* A check changes nothing; it goes on only where the chain is as it asks.
LEMMA CheckStep ==
    ASSUME Inv, NEW next \in Steps \cup Ends, NEW cond, Check(cond, next),
           step \in Steps,
           next \notin Before \/ step \in Before,
           next \in {"checkHolders", "configure", "verifyAdmin", "renounced"},
           next = "configure" => step = "checkHolders" /\ (cond => Watched'),
           next = "verifyAdmin" => gateway # 0 /\
               (cond => NoSigners /\ flags = AuthFlags \cup {"immutable"}),
           next = "renounced" => step = "verifyAdmin" /\
               (cond => sacAdmin = gateway)
    PROVE  Inv'
<1>1. chainVars' = chainVars
  BY DEF Check
<1>2. /\ flags' = flags /\ masterSigns' = masterSigns
      /\ secondSigner' = secondSigner /\ sacAdmin' = sacAdmin
      /\ gateways' = gateways /\ line' = line /\ inFlight' = inFlight
  BY <1>1 DEF chainVars, accountVars
<1>3. Grown
  BY <1>2 DEF Inv, TypeOK, Grown
<1>4. gateways <= runs /\ runs \in Nat /\ gateways \in Nat
  BY DEF Inv, Counted, TypeOK
<1>5. inFlight' \subseteq [op : {"configure", "renounce", "handOver"},
                           to : 0..gateways']
  BY <1>2 DEF Inv, TypeOK
<1>6. Late'
  BY <1>2 DEF Inv, Late
<1>7. step' # "renounce" => HandedOver'
  BY <1>2, <1>3, StaysHandedOver
<1>8. CASE Fail
  <2>1. step' = "error"
    BY <1>8 DEF Fail, GoTo
  <2> QED
    BY <1>2, <1>3, <1>4, <1>5, <1>6, <1>7, <1>8, <2>1, FailStep
<1>9. CASE GoTo("contaminated")
  <2>1. step' = "contaminated" /\ runs' = runs
    BY <1>9 DEF GoTo
  <2>2. Established' /\ Counted' /\ ReportedRenouncedIsSealed'
    BY <1>2, <1>4, <2>1
       DEF Established, Counted, ReportedRenouncedIsSealed, Before
  <2> QED
    BY <1>2, <1>3, <1>5, <1>6, <1>7, <1>9, <2>1, <2>2, GoToStep DEF Ends
<1>10. CASE cond /\ GoTo(next)
  <2>1. step' = next /\ runs' = runs /\ gateway' = gateway
    BY <1>10 DEF GoTo
  <2>2. Counted'
    BY <1>2, <1>4, <2>1 DEF Counted, Inv
  <2>3. Established'
    BY <1>2, <1>10, <2>1 DEF Established, NoSigners
  <2>4. ReportedRenouncedIsSealed'
    BY <1>2, <1>10, <2>1 DEF ReportedRenouncedIsSealed, Inv, Established
  <2>5. next = "renounced" => gateway # 0
    BY <1>10 DEF Inv, Established
  <2> QED
    BY <1>2, <1>3, <1>5, <1>6, <1>7, <1>10, <2>1, <2>2, <2>3, <2>4, <2>5,
       GoToStep
<1> QED
  BY <1>8, <1>9, <1>10 DEF Check

\* A submission lands or not, and is reported or not.
LEMMA SubmitStep ==
    ASSUME Inv, NEW tx \in Tx, NEW next \in Steps, Submit(tx, next),
           step \in Steps, tx.to \in 0..gateways,
           \/ tx.op = "configure" /\ step = "configure" /\ next = "deploySac"
           \/ /\ tx.op = "handOver" /\ step = "handOver" /\ next = "smoke"
              /\ tx.to = gateway
           \/ /\ tx.op = "renounce" /\ step = "renounce"
              /\ next = "verifyAccount"
    PROVE  Inv'
<1>1. /\ line' = line /\ gateways' = gateways /\ secondSigner' = secondSigner
  BY DEF Submit
<1>2. step' \in {next, "error"} /\ runs' = runs /\ gateway' = gateway
  BY DEF Submit, Fail, GoTo
<1>3. gateways <= runs /\ runs \in Nat /\ gateways \in Nat
  BY DEF Inv, Counted, TypeOK
<1>4. tx.op = "handOver" => tx.to # 0
  BY DEF Inv, TypeOK
<1>5. tx.op = "renounce" /\ SkipsCarefully => sacAdmin \in 1..gateways
  BY DEF Inv, HandedOver
<1>6. /\ inFlight' \subseteq inFlight \cup {tx}
      /\ Landing(tx) \/ UNCHANGED <<flags, masterSigns, sacAdmin>>
  BY DEF Submit
<1>7. Grown
  <2>1. secondSigner' \in BOOLEAN /\ gateways' \in gateways..MaxRuns
    BY <1>1 DEF Inv, TypeOK
  <2>2. CASE Landing(tx)
    <3>1. tx.to # 0 => tx.to \in 1..gateways
      BY <1>3
    <3>2. \/ sacAdmin' = sacAdmin
          \/ sacAdmin = Issuer /\ sacAdmin' \in 1..gateways
      BY <2>2, <3>1, <1>4, LandingEffect
    <3>3. /\ flags \subseteq flags' /\ masterSigns' \in BOOLEAN
          /\ flags' \subseteq AuthFlags \cup {"immutable"}
      BY <2>2, LandingEffect
    <3> QED
      BY <2>1, <3>2, <3>3 DEF Grown
  <2>3. CASE UNCHANGED <<flags, masterSigns, sacAdmin>>
    BY <2>1, <2>3 DEF Grown, Inv, TypeOK
  <2> QED
    BY <1>6, <2>2, <2>3
<1>8. inFlight' \subseteq [op : {"configure", "renounce", "handOver"},
                           to : 0..gateways']
  <2>1. tx \in [op : {"configure", "renounce", "handOver"}, to : 0..gateways]
    BY DEF Tx
  <2> QED
    BY <1>1, <1>6, <2>1 DEF Inv, TypeOK
<1>9. Late'
  BY <1>4, <1>6 DEF Inv, Late
<1>10. HandedOver'
  <2>1. masterSigns /\ ~masterSigns' => tx.op = "renounce"
    BY <1>6, LandingEffect
  <2>2. step' # "renounce"
    BY <1>2
  <2> QED
    BY <1>5, <1>6, <1>7, <2>1, <2>2, StaysHandedOver
<1>11. CASE Fail
  BY <1>1, <1>3, <1>7, <1>8, <1>9, <1>10, <1>11, FailStep
<1>12. CASE Landing(tx) /\ GoTo(next)
  <2>1. step' = next
    BY <1>12 DEF GoTo
  <2>2. Counted'
    BY <1>1, <1>2, <1>3, <2>1 DEF Counted, Inv, Before
  <2>3. Established'
    <3>1. /\ tx.op = "configure" => AuthFlags \subseteq flags'
          /\ tx.op = "handOver" => sacAdmin' = tx.to
          /\ flags \subseteq flags'
      BY <1>12, LandingEffect
    <3>2. gateway # 0 \/ step = "configure"
      BY DEF Inv, TypeOK, Established
    <3>3. step = "handOver" => AuthFlags \subseteq flags
      BY DEF Inv, Established
    <3> QED
      BY <1>2, <2>1, <3>1, <3>2, <3>3 DEF Established, Wired
  <2>4. ReportedRenouncedIsSealed'
    BY <2>1 DEF ReportedRenouncedIsSealed
  <2>5. next = "smoke" => gateway # 0
    BY DEF Inv, TypeOK
  <2> QED
    BY <1>1, <1>7, <1>8, <1>9, <1>10, <1>12, <2>1, <2>2, <2>3, <2>4, <2>5,
       GoToStep
<1> QED
  BY <1>11, <1>12 DEF Submit
\* What others do, and what lands late, leaves the runs alone; without the
\* master key nothing of the account changes.
LEMMA MeanwhileStep ==
    ASSUME Inv, Grown, UNCHANGED <<mode, step, gateway, runs, completed>>,
           gateways' = gateways, inFlight' \subseteq inFlight,
           ~masterSigns =>
               UNCHANGED <<flags, masterSigns, secondSigner>>,
           SkipsCarefully /\ masterSigns /\ ~masterSigns' =>
               sacAdmin \in 1..gateways,
           line' \in [Outsiders -> {"none", "preFlag", "clawbackable"}],
           windowOpeners' \subseteq Outsiders,
           Watched'
    PROVE  Inv'
<1>1. /\ sacAdmin' \in {NoSac, Issuer} \cup 1..gateways'
      /\ sacAdmin \in 1..gateways => sacAdmin' = sacAdmin
      /\ \A g \in 1..gateways : Wired(g) => Wired(g)'
      /\ CompleteDeploymentIsWired'
  BY Persists
<1>2. /\ gateways \in 0..MaxRuns /\ gateway \in 0..gateways
      /\ step \in {"handOver", "smoke", "complete", "renounced"} =>
             gateway # 0
  BY DEF Inv, TypeOK
<1>3. TypeOK'
  BY <1>1 DEF Inv, TypeOK, Grown
<1>4. Counted'
  BY DEF Inv, Counted
<1>5. Late'
  BY DEF Inv, Late
<1>6. HandedOver'
  BY StaysHandedOver
<1>7. Established'
  <2>1. step = "smoke" \/ step = "complete" => Wired(gateway)'
    BY <1>1, <1>2 DEF Inv, Established
  <2>2. Wired(gateway)' = (AuthFlags \subseteq flags' /\ sacAdmin' = gateway')
    BY DEF Wired
  <2>3. AuthFlags \subseteq flags => AuthFlags \subseteq flags'
    BY DEF Grown
  <2> QED
    BY <2>1, <2>2, <2>3 DEF Inv, Established, Wired
<1>8. ReportedRenouncedIsSealed'
  BY <1>1, <1>2 DEF Inv, ReportedRenouncedIsSealed
<1> QED
  BY <1>1, <1>3, <1>4, <1>5, <1>6, <1>7, <1>8 DEF Inv

-----------------------------------------------------------------------------
(* Every step.                                                             *)

LEMMA StartStep ==
    ASSUME Inv, NEW m \in Modes, NEW g \in 0..MaxRuns, Start(m, g)
    PROVE  Inv'
<1>1. /\ mode' = m /\ gateway' = g /\ step' = FirstStep(m) /\ runs' = runs + 1
      /\ windowOpeners' = {} /\ completed' = completed /\ runs < MaxRuns
      /\ ~m.deploy => g \in 1..gateways
      /\ ~m.deploy /\ SkipsCarefully => g \in completed
      /\ m.deploy => g = 0
      /\ chainVars' = chainVars
  BY DEF Start
<1>2. /\ flags' = flags /\ masterSigns' = masterSigns
      /\ secondSigner' = secondSigner /\ sacAdmin' = sacAdmin
      /\ gateways' = gateways /\ line' = line /\ inFlight' = inFlight
  BY <1>1 DEF chainVars, accountVars
<1>3. /\ step' \in {"renounce", "configure", "checkFlags"}
      /\ step' = "renounce" <=> ~m.deploy
      /\ step' = "configure" => m.deploy /\ m.tool = "testnet"
  BY <1>1 DEF FirstStep
<1>4. /\ runs \in Nat /\ gateways \in Nat /\ gateways <= runs
      /\ runs' \in 0..MaxRuns
  BY <1>1 DEF Inv, TypeOK, Counted
<1>5. Grown
  BY <1>2 DEF Inv, TypeOK, Grown
<1>6. TypeOK'
  <2>1. gateway' \in 0..gateways'
    BY <1>1, <1>2, <1>4, m.deploy \in BOOLEAN DEF Modes
  <2>2. /\ step' \in Steps
        /\ step' \notin {"handOver", "smoke", "complete", "renounced"}
    BY <1>3 DEF Steps
  <2>3. mode' \in Modes /\ windowOpeners' \subseteq Outsiders
    BY <1>1
  <2> QED
    BY <1>1, <1>2, <1>4, <2>1, <2>2, <2>3 DEF Inv, TypeOK
<1>7. Counted'
  BY <1>1, <1>2, <1>4 DEF Counted
<1>8. Established'
  BY <1>1, <1>3, <1>4 DEF Established
<1>9. Late'
  BY <1>2 DEF Inv, Late
<1>10. HandedOver'
  <2>1. SkipsCarefully /\ ~m.deploy => sacAdmin \in 1..gateways
    <3> SUFFICES ASSUME SkipsCarefully, ~m.deploy
                 PROVE  sacAdmin \in 1..gateways
      OBVIOUS
    <3>1. g \in completed /\ g \in 1..gateways
      BY <1>1
    <3> QED
      BY <3>1 DEF Inv, CompleteDeploymentIsWired
  <2> QED
    BY <1>2, <1>3, <1>5, <2>1, StaysHandedOver
<1>11. Watched'
  BY <1>1, <1>3 DEF Watched
<1>12. CompleteDeploymentIsWired' /\ ReportedRenouncedIsSealed'
  BY <1>1, <1>2, <1>3
     DEF Inv, CompleteDeploymentIsWired, ReportedRenouncedIsSealed
<1> QED
  BY <1>6, <1>7, <1>8, <1>9, <1>10, <1>11, <1>12 DEF Inv

LEMMA CheckFlagsStep == Inv /\ AssertIssuerFlagsClean => Inv'
<1> SUFFICES ASSUME Inv, AssertIssuerFlagsClean PROVE Inv'
  OBVIOUS
<1>1. step = "checkFlags" /\ Check(flags = {}, "checkHolders")
  BY DEF AssertIssuerFlagsClean
<1> QED
  BY <1>1, CheckStep DEF Steps, Before

\* A run that goes on saw nobody's trustline.
LEMMA CheckHoldersStep == Inv /\ AssertIssuerNotContaminated => Inv'
<1> SUFFICES ASSUME Inv, AssertIssuerNotContaminated PROVE Inv'
  OBVIOUS
<1>1. PICK answer \in HorizonAnswers : Check(LooksClean(answer), "configure")
  BY DEF AssertIssuerNotContaminated
<1>2. step = "checkHolders"
  BY DEF AssertIssuerNotContaminated
<1>3. line' = line /\ HorizonAnswers \subseteq {"ok", "error"}
  BY <1>1 DEF Check, chainVars
<1>4. LooksClean(answer) => Watched'
  BY <1>3 DEF LooksClean, NotContaminated, Watched
<1> QED
  BY <1>1, <1>2, <1>4, CheckStep DEF Steps, Before

LEMMA SubmissionSteps ==
    Inv /\ (ConfigureIssuer \/ HandOverSacAdmin \/ Renounce) => Inv'
<1>1. Inv => gateways \in Nat /\ gateway \in 0..gateways
  BY DEF Inv, TypeOK
<1>2. ASSUME Inv, ConfigureIssuer PROVE Inv'
  BY <1>1, <1>2, SubmitStep DEF ConfigureIssuer, Tx, Steps
<1>3. ASSUME Inv, HandOverSacAdmin PROVE Inv'
  BY <1>1, <1>3, SubmitStep DEF HandOverSacAdmin, Tx, Steps
<1>4. ASSUME Inv, Renounce PROVE Inv'
  BY <1>1, <1>4, SubmitStep DEF Renounce, Tx, Steps
<1> QED
  BY <1>2, <1>3, <1>4

LEMMA VerifySteps == Inv /\ (VerifyAccount \/ VerifyAdmin) => Inv'
<1>1. ASSUME Inv, VerifyAccount PROVE Inv'
  <2>1. /\ step = "verifyAccount"
        /\ Check(NoSigners /\ flags = AuthFlags \cup {"immutable"},
                 "verifyAdmin")
    BY <1>1 DEF VerifyAccount
  <2>2. gateway # 0
    BY <1>1, <2>1 DEF Inv, Established
  <2> QED
    BY <1>1, <2>1, <2>2, CheckStep DEF Steps, Before
<1>2. ASSUME Inv, VerifyAdmin PROVE Inv'
  BY <1>2, CheckStep DEF VerifyAdmin, Steps, Ends, Before
<1> QED
  BY <1>1, <1>2
\* A step of a run that changes the chain through no issuer transaction.
LEMMA StepFrame ==
    ASSUME Inv, step \in Steps,
           UNCHANGED <<flags, masterSigns, secondSigner, line, inFlight>>,
           \/ UNCHANGED <<sacAdmin, gateways>>
           \/ sacAdmin = NoSac /\ sacAdmin' = Issuer /\ gateways' = gateways
           \/ /\ sacAdmin' = sacAdmin /\ gateways' = gateways + 1
              /\ step = "deployGateway"
    PROVE  /\ Grown
           /\ inFlight' \subseteq [op : {"configure", "renounce", "handOver"},
                                   to : 0..gateways']
           /\ Late'
           /\ gateways' <= runs
           /\ step' # "renounce" \/
              (SkipsCarefully => sacAdmin \in 1..gateways) => HandedOver'
           /\ Fail => Inv'
<1>1. /\ gateways \in Nat /\ runs \in 0..MaxRuns /\ gateways <= runs
      /\ step = "deployGateway" => gateways < runs
  BY DEF Inv, TypeOK, Counted, Before
<1>2. gateways' \in gateways..MaxRuns /\ gateways' <= runs
  BY <1>1
<1>3. Grown
  BY <1>2 DEF Inv, TypeOK, Grown
<1>4. inFlight' \subseteq [op : {"configure", "renounce", "handOver"},
                           to : 0..gateways']
  BY <1>3, Persists
<1>5. Late'
  BY DEF Inv, Late
<1>6. step' # "renounce" \/ (SkipsCarefully => sacAdmin \in 1..gateways)
          => HandedOver'
  BY <1>3, StaysHandedOver
<1>7. Fail => step' = "error"
  BY DEF Fail, GoTo
<1>8. Fail => Inv'
  BY <1>2, <1>3, <1>4, <1>5, <1>6, <1>7, FailStep
<1> QED
  BY <1>2, <1>3, <1>4, <1>5, <1>6, <1>8

LEMMA DeploySacStep == Inv /\ DeploySac => Inv'
<1> SUFFICES ASSUME Inv, DeploySac PROVE Inv'
  OBVIOUS
<1>1. /\ UNCHANGED <<flags, masterSigns, secondSigner, line, inFlight>>
      /\ gateways' = gateways /\ step \in Steps /\ step = "deploySac"
      /\ \/ UNCHANGED <<sacAdmin, gateways>>
         \/ sacAdmin = NoSac /\ sacAdmin' = Issuer /\ gateways' = gateways
      /\ GoTo("upload") \/ Fail
  BY DEF DeploySac, accountVars, Steps
<1>2. CASE Fail
  BY <1>1, <1>2, StepFrame
<1>3. CASE GoTo("upload")
  <2>1. step' = "upload" /\ runs' = runs
    BY <1>3 DEF GoTo
  <2>2. Established' /\ ReportedRenouncedIsSealed'
    BY <1>1, <2>1 DEF Inv, Established, ReportedRenouncedIsSealed
  <2>3. Counted'
    BY <1>1, <2>1 DEF Inv, Counted, Before
  <2> QED
    BY <1>1, <1>3, <2>1, <2>2, <2>3, StepFrame, GoToStep DEF Steps
<1> QED
  BY <1>1, <1>2, <1>3

LEMMA UploadStep == Inv /\ UploadWasm => Inv'
<1> SUFFICES ASSUME Inv, UploadWasm PROVE Inv'
  OBVIOUS
<1>1. /\ UNCHANGED <<flags, masterSigns, secondSigner, line, inFlight>>
      /\ UNCHANGED <<sacAdmin, gateways>> /\ step \in Steps /\ step = "upload"
      /\ GoTo("deployGateway") \/ Fail
  BY DEF UploadWasm, chainVars, accountVars, Steps
<1>2. CASE Fail
  BY <1>1, <1>2, StepFrame
<1>3. CASE GoTo("deployGateway")
  <2>1. step' = "deployGateway" /\ runs' = runs
    BY <1>3 DEF GoTo
  <2>2. Established' /\ ReportedRenouncedIsSealed'
    BY <1>1, <2>1 DEF Inv, Established, ReportedRenouncedIsSealed
  <2>3. Counted'
    BY <1>1, <2>1 DEF Inv, Counted, Before
  <2> QED
    BY <1>1, <1>3, <2>1, <2>2, <2>3, StepFrame, GoToStep DEF Steps
<1> QED
  BY <1>1, <1>2, <1>3

LEMMA DeployGatewayStep == Inv /\ DeployGateway => Inv'
<1> SUFFICES ASSUME Inv, DeployGateway PROVE Inv'
  OBVIOUS
<1>1. /\ UNCHANGED <<flags, masterSigns, secondSigner, line, inFlight>>
      /\ sacAdmin' = sacAdmin /\ gateways' \in {gateways, gateways + 1}
      /\ step \in Steps /\ step = "deployGateway"
  BY DEF DeployGateway, accountVars, Steps
<1>2. CASE Fail
  BY <1>1, <1>2, StepFrame
<1>3. ASSUME gateways' = gateways + 1, gateway' = gateways + 1,
             step' = "handOver",
             UNCHANGED <<mode, runs, completed, windowOpeners>>
      PROVE  Inv'
  <2>1. /\ Grown /\ Late' /\ HandedOver' /\ gateways' <= runs
        /\ inFlight' \subseteq [op : {"configure", "renounce", "handOver"},
                                to : 0..gateways']
    BY <1>1, <1>3, StepFrame
  <2>2. /\ sacAdmin' \in {NoSac, Issuer} \cup 1..gateways'
        /\ 1..gateways \subseteq 1..gateways'
        /\ CompleteDeploymentIsWired'
    BY <1>3, <2>1, Persists
  <2>3. gateways \in Nat /\ gateways' \in 0..MaxRuns
    BY <2>1 DEF Inv, TypeOK, Grown
  <2>4. gateway' \in 0..gateways' /\ gateway' # 0
    BY <1>3, <2>3
  <2>5. TypeOK'
    BY <1>1, <1>3, <2>1, <2>2, <2>3, <2>4 DEF Inv, TypeOK, Grown, Steps
  <2>6. Counted' /\ Established' /\ ReportedRenouncedIsSealed' /\ Watched'
    <3>1. Counted'
      BY <1>3, <2>1 DEF Counted, Before
    <3>2. Established' /\ ReportedRenouncedIsSealed'
      BY <1>1, <1>3 DEF Inv, Established, ReportedRenouncedIsSealed
    <3>3. Watched'
      BY <1>1, <1>3 DEF Inv, Watched
    <3> QED
      BY <3>1, <3>2, <3>3
  <2> QED
    BY <2>1, <2>2, <2>5, <2>6 DEF Inv
<1> QED
  BY <1>2, <1>3 DEF DeployGateway

LEMMA SmokeTestStep == Inv /\ SmokeTest => Inv'
<1> SUFFICES ASSUME Inv, SmokeTest PROVE Inv'
  OBVIOUS
<1>1. /\ UNCHANGED <<flags, masterSigns, secondSigner, line, inFlight>>
      /\ UNCHANGED <<sacAdmin, gateways>> /\ step \in Steps /\ step = "smoke"
  BY DEF SmokeTest, chainVars, accountVars, Steps
<1>2. CASE Fail
  BY <1>1, <1>2, StepFrame
<1>3. ASSUME completed' = completed \cup {gateway},
             step' = IF mode.renounce THEN "renounce" ELSE "complete",
             UNCHANGED <<mode, gateway, runs, windowOpeners>>
      PROVE  Inv'
  <2>1. gateway \in 1..gateways /\ gateways \in Nat
    BY <1>1 DEF Inv, TypeOK
  <2>2. Wired(gateway)
    BY <1>1 DEF Inv, Established
  <2>3. HandedOver' /\ Grown /\ Late' /\ gateways' <= runs
    BY <1>1, <2>1, <2>2, StepFrame DEF Wired
  <2>4. step' \in {"renounce", "complete"}
    BY <1>3
  <2>5. TypeOK'
    BY <1>1, <1>3, <2>1, <2>4 DEF Inv, TypeOK, Steps, Ends
  <2>6. Counted'
    BY <1>1, <1>3, <2>3, <2>4 DEF Counted, Before
  <2>7. Established' /\ ReportedRenouncedIsSealed'
    BY <1>1, <1>3, <2>1, <2>2, <2>4
       DEF Established, ReportedRenouncedIsSealed, Wired
  <2>8. Watched'
    BY <1>1, <1>3 DEF Inv, Watched
  <2>9. CompleteDeploymentIsWired'
    BY <1>1, <1>3, <2>2 DEF Inv, CompleteDeploymentIsWired, Wired
  <2> QED
    BY <2>3, <2>5, <2>6, <2>7, <2>8, <2>9 DEF Inv
<1> QED
  BY <1>2, <1>3 DEF SmokeTest

LEMMA MeanwhileSteps == Inv /\ Meanwhile => Inv'
<1>1. ASSUME Inv, NEW o \in Outsiders, OpenTrustline(o) PROVE Inv'
  <2>1. /\ UNCHANGED <<flags, masterSigns, secondSigner, sacAdmin, gateways,
                       inFlight, mode, step, gateway, runs, completed>>
        /\ line[o] = "none"
        /\ line' = [line EXCEPT ![o] = IF "clawback" \in flags
                                       THEN "clawbackable" ELSE "preFlag"]
        /\ windowOpeners' = IF step = "configure" THEN windowOpeners \cup {o}
                            ELSE windowOpeners
    BY <1>1 DEF OpenTrustline, accountVars
  <2>2. line \in [Outsiders -> {"none", "preFlag", "clawbackable"}]
        /\ windowOpeners \subseteq Outsiders
    BY <1>1 DEF Inv, TypeOK
  <2>3. line' \in [Outsiders -> {"none", "preFlag", "clawbackable"}]
        /\ windowOpeners' \subseteq Outsiders
    BY <2>1, <2>2
  <2>4. Grown
    BY <1>1, <2>1 DEF Inv, TypeOK, Grown
  <2>5. Watched'
    <3>1. step \in {"deploySac", "upload", "deployGateway", "handOver",
                    "smoke", "complete"} => "clawback" \in flags
      <4>1. step = "smoke" \/ step = "complete" => AuthFlags \subseteq flags
        BY <1>1 DEF Inv, Established, Wired
      <4> QED
        BY <1>1, <4>1 DEF Inv, Established, AuthFlags
    <3>2. \A u \in Outsiders :
              line'[u] = IF u = o THEN IF "clawback" \in flags
                                       THEN "clawbackable" ELSE "preFlag"
                         ELSE line[u]
      BY <2>1, <2>2
    <3> QED
      BY <1>1, <2>1, <3>1, <3>2 DEF Inv, Watched
  <2> QED
    BY <1>1, <2>1, <2>3, <2>4, <2>5, MeanwhileStep
<1>2. ASSUME Inv, NEW tx \in inFlight, LandLate(tx) PROVE Inv'
  <2>1. /\ UNCHANGED <<secondSigner, gateways, line, mode, step, gateway,
                       runs, completed, windowOpeners>>
        /\ inFlight' = {} /\ Landing(tx)
    BY <1>2 DEF LandLate, runVars
  <2>2. /\ gateways \in 0..MaxRuns /\ tx.to \in 0..gateways
        /\ tx \in [op : {"configure", "renounce", "handOver"},
                   to : 0..gateways]
    BY <1>2 DEF Inv, TypeOK
  <2>3. tx \in Tx
    BY <2>2 DEF Tx
  <2>4. tx.op = "handOver" => tx.to \in 1..gateways
    BY <1>2, <2>2 DEF Inv, Late
  <2>5. Grown
    <3>1. /\ gateways' \in gateways..MaxRuns /\ secondSigner' \in BOOLEAN
      BY <1>2, <2>1, <2>2 DEF Inv, TypeOK
    <3>2. \/ sacAdmin' = sacAdmin
          \/ sacAdmin = Issuer /\ sacAdmin' \in 1..gateways
      BY <1>2, <2>1, <2>3, <2>4, LandingEffect
    <3>3. /\ flags \subseteq flags' /\ masterSigns' \in BOOLEAN
          /\ flags' \subseteq AuthFlags \cup {"immutable"}
      BY <1>2, <2>1, <2>3, LandingEffect
    <3> QED
      BY <3>1, <3>2, <3>3 DEF Grown
  <2>6. masterSigns = TRUE /\ (~masterSigns' => tx.op = "renounce")
    BY <1>2, <2>1, <2>3, LandingEffect
  <2>7. SkipsCarefully /\ ~masterSigns' => sacAdmin \in 1..gateways
    BY <1>2, <2>6 DEF Inv, HandedOver
  <2>8. Watched'
    BY <1>2, <2>1 DEF Inv, Watched
  <2>9. /\ line' \in [Outsiders -> {"none", "preFlag", "clawbackable"}]
        /\ windowOpeners' \subseteq Outsiders
    BY <1>2, <2>1 DEF Inv, TypeOK
  <2> QED
    BY <1>2, <2>1, <2>5, <2>6, <2>7, <2>8, <2>9, MeanwhileStep
<1>3. ASSUME Inv, NEW tx \in inFlight, Expire(tx) PROVE Inv'
  <2>1. /\ UNCHANGED <<flags, masterSigns, secondSigner, sacAdmin, gateways,
                       line, mode, step, gateway, runs, completed,
                       windowOpeners>>
        /\ inFlight' \subseteq inFlight
    BY <1>3 DEF Expire, runVars, accountVars
  <2>2. Grown /\ Watched'
    BY <1>3, <2>1 DEF Inv, TypeOK, Grown, Watched
  <2>3. /\ line' \in [Outsiders -> {"none", "preFlag", "clawbackable"}]
        /\ windowOpeners' \subseteq Outsiders
    BY <1>3, <2>1 DEF Inv, TypeOK
  <2> QED
    BY <1>3, <2>1, <2>2, <2>3, MeanwhileStep
<1>4. ASSUME Inv, OthersDeploySac PROVE Inv'
  <2>1. /\ UNCHANGED <<flags, masterSigns, secondSigner, gateways, inFlight,
                       line, mode, step, gateway, runs, completed,
                       windowOpeners>>
        /\ sacAdmin = NoSac /\ sacAdmin' = Issuer
    BY <1>4 DEF OthersDeploySac, runVars, accountVars
  <2>2. Grown /\ Watched'
    BY <1>4, <2>1 DEF Inv, TypeOK, Grown, Watched
  <2>3. /\ line' \in [Outsiders -> {"none", "preFlag", "clawbackable"}]
        /\ windowOpeners' \subseteq Outsiders
    BY <1>4, <2>1 DEF Inv, TypeOK
  <2> QED
    BY <1>4, <2>1, <2>2, <2>3, MeanwhileStep
<1>5. ASSUME Inv, AddIssuerSigner PROVE Inv'
  <2>1. /\ UNCHANGED <<flags, masterSigns, sacAdmin, gateways, line, mode,
                       step, gateway, runs, completed, windowOpeners>>
        /\ masterSigns /\ secondSigner' = TRUE /\ inFlight' = {}
    BY <1>5 DEF AddIssuerSigner, runVars
  <2>2. Grown /\ Watched'
    BY <1>5, <2>1 DEF Inv, TypeOK, Grown, Watched
  <2>3. /\ line' \in [Outsiders -> {"none", "preFlag", "clawbackable"}]
        /\ windowOpeners' \subseteq Outsiders
    BY <1>5, <2>1 DEF Inv, TypeOK
  <2> QED
    BY <1>5, <2>1, <2>2, <2>3, MeanwhileStep
<1> QED
  BY <1>1, <1>2, <1>3, <1>4, <1>5 DEF Meanwhile

LEMMA InvStep == Inv /\ [Next]_vars => Inv'
<1> SUFFICES ASSUME Inv, [Next]_vars PROVE Inv'
  OBVIOUS
<1>1. ASSUME NEW m \in Modes, NEW g \in 0..MaxRuns, Start(m, g) PROVE Inv'
  BY <1>1, StartStep
<1>2. CASE Run
  BY <1>2, CheckFlagsStep, CheckHoldersStep, SubmissionSteps, DeploySacStep,
     UploadStep, DeployGatewayStep, SmokeTestStep, VerifySteps DEF Run
<1>3. CASE Meanwhile
  BY <1>3, MeanwhileSteps
<1>4. CASE UNCHANGED vars
  BY <1>4
     DEF vars, chainVars, accountVars, runVars, Inv, TypeOK, Counted,
         Established, Late, HandedOver, Watched, Wired,
         CompleteDeploymentIsWired, ReportedRenouncedIsSealed,
         RenouncedIssuerHandedOver
<1> QED
  BY <1>1, <1>2, <1>3, <1>4 DEF Next

LEMMA InvInvariant == Spec => []Inv
BY InitInv, InvStep, PTL DEF Spec

-----------------------------------------------------------------------------
(* The theorems.                                                           *)

(* The state of the chain and of the tools stays in its types: a run names *)
(* only gateways that exist, and those are at most as many as the runs.    *)
THEOREM DeploymentTypes == Spec => []TypeOK
<1>1. Inv => TypeOK
  BY DEF Inv
<1> QED
  BY <1>1, InvInvariant, PTL

(* A gateway that passed the smoke test keeps the SAC's admin and the      *)
(* issuer its three flags, whatever later runs do: an issuer never has two *)
(* completed deployments.                                                  *)
THEOREM WiredTheorem == Spec => []CompleteDeploymentIsWired
<1>1. Inv => CompleteDeploymentIsWired
  BY DEF Inv
<1> QED
  BY <1>1, InvInvariant, PTL

(* What deploy-renounce reports as renounced nobody can sign for, its      *)
(* flags are locked, and its SAC belongs to the gateway of that run.       *)
THEOREM SealedTheorem == Spec => []ReportedRenouncedIsSealed
<1>1. Inv => ReportedRenouncedIsSealed
  BY DEF Inv
<1> QED
  BY <1>1, InvInvariant, PTL

(* With --skip-deploy used on complete deployments only, the key is never  *)
(* given up before the SAC was handed over, in any number of runs and any  *)
(* order of errors and late landings.                                      *)
THEOREM HandedOverTheorem ==
    SkipsCarefully => (Spec => []RenouncedIssuerHandedOver)
<1>1. CASE SkipsCarefully
  <2>1. Inv => RenouncedIssuerHandedOver
    BY <1>1 DEF Inv, HandedOver
  <2>2. Spec => []RenouncedIssuerHandedOver
    BY <2>1, InvInvariant, PTL
  <2> QED
    BY <2>2
<1> QED
  BY <1>1

(* When Horizon's answers are answers, a completed deployment has no       *)
(* holder it cannot claw back but those who came between the check and the *)
(* first step.                                                             *)
THEOREM WindowTheorem ==
    "error" \notin HorizonAnswers => (Spec => []ContaminatedInTheWindowOnly)
<1>1. CASE "error" \notin HorizonAnswers
  <2>1. Inv => ContaminatedInTheWindowOnly
    BY <1>1 DEF Inv, Watched, ContaminatedInTheWindowOnly
  <2>2. Spec => []ContaminatedInTheWindowOnly
    BY <2>1, InvInvariant, PTL
  <2> QED
    BY <2>2
<1> QED
  BY <1>1

-----------------------------------------------------------------------------
(* One life.                                                               *)

\* Where the key is given up, or may be by a transaction that lands late, a
\* deployment has passed its smoke test.
Prepared ==
    SkipsCarefully =>
        /\ step = "renounce" => completed # {}
        /\ \A tx \in inFlight : tx.op = "renounce" => completed # {}

\* Nothing happens to the issuer.
LEMMA NothingNew ==
    ASSUME UNCHANGED <<flags, masterSigns, secondSigner, sacAdmin, completed>>,
           step' # "renounced" \/ step' = step
    PROVE  [Life!Next]_Life!issuerVars
<1>1. Signers' = Signers
  BY DEF Signers
<1>2. CASE step' # "renounced"
  <2>1. Life!Forget
    BY <1>1, <1>2 DEF Life!Forget
  <2> QED
    BY <2>1 DEF Life!Next
<1>3. CASE step' = step
  BY <1>1, <1>3 DEF Life!issuerVars
<1> QED
  BY <1>2, <1>3

\* A transaction of the issuer lands, in time or late.
LEMMA LandingLife ==
    ASSUME Inv, NEW tx \in Tx, Landing(tx),
           tx.op = "handOver" => tx.to # 0,
           tx.op = "renounce" /\ SkipsCarefully => completed # {},
           UNCHANGED <<secondSigner, completed>>,
           (step' = "renounced") = (step = "renounced")
    PROVE  Life!Next
<1>1. "master" \in Signers
  BY DEF Landing, Signers
<1>2. CASE tx.op = "configure"
  <2>1. /\ "immutable" \notin flags /\ flags' = flags \cup Life!AuthFlags
        /\ Signers' = Signers /\ sacAdmin' = sacAdmin
    BY <1>2 DEF Landing, Configured, Signers, AuthFlags, Life!AuthFlags
  <2>2. Life!Configure
    BY <1>1, <2>1 DEF Life!Configure, Life!Unlocked
  <2> QED
    BY <2>2 DEF Life!Next
<1>3. CASE tx.op = "renounce"
  <2>1. /\ "immutable" \notin flags /\ flags' = flags \cup {"immutable"}
        /\ Signers' = Signers \ {"master"} /\ sacAdmin' = sacAdmin
    BY <1>3 DEF Landing, Signers
  <2>2. ASSUME SkipsCarefully
        PROVE  Life!AuthFlags \subseteq flags /\ sacAdmin \in completed
    BY <1>3, <2>2 DEF Inv, CompleteDeploymentIsWired, AuthFlags, Life!AuthFlags
  <2>3. Life!GiveUpTheKey
    BY <1>1, <2>1, <2>2 DEF Life!GiveUpTheKey, Life!Unlocked
  <2> QED
    BY <2>3 DEF Life!Next
<1>4. CASE tx.op = "handOver"
  <2>1. /\ sacAdmin = Issuer /\ sacAdmin' = tx.to
        /\ flags' = flags /\ Signers' = Signers
    BY <1>4 DEF Landing, Signers
  <2>2. tx.to \in Nat \ {0}
    BY <1>4 DEF Tx
  <2>3. Life!HandOver
    BY <1>1, <2>1, <2>2 DEF Life!HandOver, Life!HandedOver
  <2> QED
    BY <2>3 DEF Life!Next
<1> QED
  BY <1>2, <1>3, <1>4 DEF Landing

LEMMA CreateSacLife ==
    ASSUME sacAdmin = NoSac, sacAdmin' = Issuer,
           UNCHANGED <<flags, masterSigns, secondSigner, completed>>,
           (step' = "renounced") = (step = "renounced")
    PROVE  Life!Next
<1>1. Signers' = Signers
  BY DEF Signers
<1>2. Life!CreateSac
  BY <1>1 DEF Life!CreateSac
<1> QED
  BY <1>2 DEF Life!Next

LEMMA SubmitLife ==
    ASSUME Inv, Prepared, ConfigureIssuer \/ HandOverSacAdmin \/ Renounce
    PROVE  Prepared' /\ [Life!Next]_Life!issuerVars
<1>1. PICK tx \in Tx, next \in Steps :
          /\ Submit(tx, next)
          /\ next # "renounce" /\ step # "renounced"
          /\ tx.op = "handOver" => tx.to # 0
          /\ tx.op = "renounce" => step = "renounce"
  <2>1. gateway \in Nat
    BY DEF Inv, TypeOK
  <2>2. CASE ConfigureIssuer
    <3>1. [op |-> "configure", to |-> 0] \in Tx /\ "deploySac" \in Steps
      BY DEF Tx, Steps
    <3> QED
      BY <2>2, <3>1 DEF ConfigureIssuer
  <2>3. CASE HandOverSacAdmin
    <3>1. [op |-> "handOver", to |-> gateway] \in Tx /\ "smoke" \in Steps
      BY <2>1 DEF Tx, Steps
    <3>2. gateway # 0
      BY <2>3 DEF HandOverSacAdmin, Inv, TypeOK
    <3> QED
      BY <2>3, <3>1, <3>2 DEF HandOverSacAdmin
  <2>4. CASE Renounce
    <3>1. [op |-> "renounce", to |-> 0] \in Tx /\ "verifyAccount" \in Steps
      BY DEF Tx, Steps
    <3> QED
      BY <2>4, <3>1 DEF Renounce
  <2> QED
    BY <2>2, <2>3, <2>4
<1>2. /\ UNCHANGED <<secondSigner, completed>> /\ step' \in {next, "error"}
      /\ inFlight' \subseteq inFlight \cup {tx}
      /\ Landing(tx) \/ UNCHANGED <<flags, masterSigns, sacAdmin>>
      /\ UNCHANGED <<flags, masterSigns, sacAdmin>> \/ inFlight' = {}
  BY <1>1 DEF Submit, Fail, GoTo
<1>3. step' # "renounced" /\ step' # "renounce"
  BY <1>1, <1>2 DEF Steps
<1>4. tx.op = "renounce" /\ SkipsCarefully => completed # {}
  BY <1>1 DEF Prepared
<1>5. Prepared'
  BY <1>2, <1>3, <1>4 DEF Prepared
<1>6. [Life!Next]_Life!issuerVars
  <2>1. CASE Landing(tx)
    BY <1>1, <1>2, <1>3, <1>4, <2>1, LandingLife
  <2>2. CASE UNCHANGED <<flags, masterSigns, sacAdmin>>
    BY <1>2, <1>3, <2>2, NothingNew
  <2> QED
    BY <1>2, <2>1, <2>2
<1> QED
  BY <1>5, <1>6

LEMMA RunLife ==
    ASSUME Inv, Prepared, Run
    PROVE  Prepared' /\ [Life!Next]_Life!issuerVars
<1>1. CASE ConfigureIssuer \/ HandOverSacAdmin \/ Renounce
  BY <1>1, SubmitLife
<1>2. CASE \/ AssertIssuerFlagsClean \/ AssertIssuerNotContaminated
           \/ VerifyAccount \/ UploadWasm \/ DeployGateway
  <2>1. /\ UNCHANGED <<flags, masterSigns, secondSigner, sacAdmin, completed,
                       inFlight>>
        /\ step' \notin {"renounced", "renounce"}
    BY <1>2 DEF AssertIssuerFlagsClean, AssertIssuerNotContaminated,
                VerifyAccount, UploadWasm, DeployGateway, Check, GoTo, Fail,
                chainVars, accountVars
  <2> QED
    BY <2>1, NothingNew DEF Prepared
<1>3. CASE DeploySac
  <2>1. /\ UNCHANGED <<flags, masterSigns, secondSigner, completed, inFlight>>
        /\ step' \notin {"renounced", "renounce"} /\ step # "renounced"
        /\ (sacAdmin = NoSac /\ sacAdmin' = Issuer) \/ sacAdmin' = sacAdmin
    BY <1>3 DEF DeploySac, GoTo, Fail, accountVars
  <2>2. Prepared'
    BY <2>1 DEF Prepared
  <2> QED
    BY <2>1, <2>2, NothingNew, CreateSacLife
<1>4. CASE SmokeTest
  <2>1. /\ UNCHANGED <<flags, masterSigns, secondSigner, sacAdmin, inFlight>>
        /\ step = "smoke" /\ step' # "renounced" /\ Signers' = Signers
        /\ \/ completed' = completed \cup {gateway}
           \/ completed' = completed /\ step' # "renounce"
    BY <1>4 DEF SmokeTest, GoTo, Fail, chainVars, accountVars, Signers
  <2>2. /\ Life!AuthFlags \subseteq flags /\ sacAdmin = gateway
        /\ sacAdmin \in Nat \ {0}
    BY <2>1 DEF Inv, Established, Wired, TypeOK, AuthFlags, Life!AuthFlags
  <2>3. Prepared'
    BY <2>1 DEF Prepared
  <2>4. CASE completed' = completed \cup {gateway}
    <3>1. Life!Complete
      BY <2>1, <2>2, <2>4 DEF Life!Complete, Life!HandedOver
    <3> QED
      BY <2>3, <3>1 DEF Life!Next
  <2>5. CASE completed' = completed
    BY <2>1, <2>3, <2>5, NothingNew
  <2> QED
    BY <2>1, <2>4, <2>5
<1>5. CASE VerifyAdmin
  <2>1. /\ UNCHANGED <<flags, masterSigns, secondSigner, sacAdmin, completed,
                       inFlight>>
        /\ step = "verifyAdmin" /\ step' # "renounce" /\ Signers' = Signers
        /\ step' = "renounced" => sacAdmin = gateway
    BY <1>5 DEF VerifyAdmin, Check, GoTo, Fail, chainVars, accountVars, Signers
  <2>2. Prepared'
    BY <2>1 DEF Prepared
  <2>3. CASE step' # "renounced"
    BY <2>1, <2>2, <2>3, NothingNew
  <2>4. CASE step' = "renounced"
    <3>1. Signers = {} /\ flags = Life!Sealed /\ sacAdmin \in Nat \ {0}
      BY <2>1, <2>4 DEF Inv, Established, TypeOK, Signers, AuthFlags,
                        Life!Sealed, Life!AuthFlags
    <3>2. Life!ReportRenounced
      BY <2>1, <2>4, <3>1 DEF Life!ReportRenounced, Life!HandedOver
    <3> QED
      BY <2>2, <3>2 DEF Life!Next
  <2> QED
    BY <2>3, <2>4
<1> QED
  BY <1>1, <1>2, <1>3, <1>4, <1>5 DEF Run

LEMMA MeanwhileLife ==
    ASSUME Inv, Prepared, Meanwhile
    PROVE  Prepared' /\ [Life!Next]_Life!issuerVars
<1>1. step' = step /\ completed' = completed /\ inFlight' \subseteq inFlight
  BY DEF Meanwhile, OpenTrustline, LandLate, Expire, OthersDeploySac,
         AddIssuerSigner, runVars
<1>2. Prepared'
  BY <1>1 DEF Prepared
<1>3. ASSUME NEW o \in Outsiders, OpenTrustline(o)
      PROVE  [Life!Next]_Life!issuerVars
  BY <1>1, <1>3, NothingNew DEF OpenTrustline, accountVars
<1>4. ASSUME NEW tx \in inFlight, Expire(tx)
      PROVE  [Life!Next]_Life!issuerVars
  BY <1>1, <1>4, NothingNew DEF Expire, accountVars
<1>5. ASSUME NEW tx \in inFlight, LandLate(tx)
      PROVE  [Life!Next]_Life!issuerVars
  <2>1. tx \in Tx
    BY DEF Inv, TypeOK, Tx
  <2>2. tx.op = "handOver" => tx.to # 0
    BY DEF Inv, Late
  <2>3. tx.op = "renounce" /\ SkipsCarefully => completed # {}
    BY DEF Prepared
  <2>4. Landing(tx) /\ secondSigner' = secondSigner
    BY <1>5 DEF LandLate
  <2> QED
    BY <1>1, <2>1, <2>2, <2>3, <2>4, LandingLife
<1>6. CASE OthersDeploySac
  BY <1>1, <1>2, <1>6, CreateSacLife DEF OthersDeploySac, accountVars
<1>7. CASE AddIssuerSigner
  <2>1. /\ "master" \in Signers /\ "immutable" \notin flags
        /\ Signers' = Signers \cup {"second"}
        /\ UNCHANGED <<flags, sacAdmin>>
    BY <1>7 DEF AddIssuerSigner, Signers
  <2>2. Life!AddSigner
    BY <1>1, <2>1 DEF Life!AddSigner, Life!Unlocked
  <2> QED
    BY <1>2, <2>2 DEF Life!Next
<1> QED
  BY <1>2, <1>3, <1>4, <1>5, <1>6, <1>7 DEF Meanwhile

LEMMA StartLife ==
    ASSUME Inv, Prepared, NEW m \in Modes, NEW g \in 0..MaxRuns, Start(m, g)
    PROVE  Prepared' /\ [Life!Next]_Life!issuerVars
<1>1. /\ UNCHANGED <<flags, masterSigns, secondSigner, sacAdmin, completed,
                     inFlight>>
      /\ step' # "renounced"
      /\ SkipsCarefully /\ step' = "renounce" => completed # {}
  BY DEF Start, FirstStep, chainVars, accountVars
<1> QED
  BY <1>1, NothingNew DEF Prepared

(* The tools implement one life of the issuer: whatever runs fail, are     *)
(* repeated or land late, the SAC is handed over once, the key is given up *)
(* after a deployment on that gateway has completed (where --skip-deploy   *)
(* is used with care), and nothing of the account changes after that.      *)
THEOREM LifecycleTheorem == Spec => ImplementsLifecycle
<1>1. Init => Prepared /\ Life!Init
  BY DEF Init, Prepared, Life!Init, Signers
<1>2. Inv /\ Prepared /\ [Next]_vars =>
          Prepared' /\ [Life!Next]_Life!issuerVars
  <2> SUFFICES ASSUME Inv, Prepared, [Next]_vars
               PROVE  Prepared' /\ [Life!Next]_Life!issuerVars
    OBVIOUS
  <2>1. CASE UNCHANGED vars
    BY <2>1, NothingNew
       DEF vars, chainVars, accountVars, runVars, Prepared
  <2> QED
    BY <2>1, StartLife, RunLife, MeanwhileLife DEF Next
<1> QED
  BY <1>1, <1>2, InvInvariant, PTL DEF Spec, ImplementsLifecycle, Life!Spec
=============================================================================
