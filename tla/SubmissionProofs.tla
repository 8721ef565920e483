-------------------------- MODULE SubmissionProofs --------------------------
(***************************************************************************)
(* Theorems about the calls of the SDK, for any number of calls and polls, *)
(* any lifetime of an envelope and any length of time.                     *)
(*                                                                         *)
(* The argument: a transaction is in one place at a time.  A call has it   *)
(* in hand until it submits it (Fresh), then it is in the mempool or lost, *)
(* then in a ledger; Placed counts them.  An operator who waits for every  *)
(* earlier envelope to expire starts a call when nothing of the earlier    *)
(* ones can land any more, so that whatever takes effect is of the last    *)
(* call (Timely).  From both, calls are attempts (Attempts).               *)
(***************************************************************************)
EXTENDS Submission, FiniteSetTheorems, SequenceTheorems, TLAPS

USE SubmissionAssumption

CallType == [seq : 1..MaxCalls + 1, builtAt : 0..MaxClock,
             maxTime : 0..2 * MaxClock, result : Results]

InCall == Fresh \cup {"polling"}

Held == IF phase \in Fresh THEN 1 ELSE 0

Shape ==
    /\ calls \in Seq(CallType) /\ Number <= MaxCalls
    /\ chain \in Seq([call : Nat, ok : BOOLEAN])
    /\ TypeOK

\* Where the transactions are.
Placed ==
    /\ \A i \in pool : ~Landed(i)
    /\ \A k, l \in DOMAIN chain : chain[k].call = chain[l].call => k = l
    /\ IsFiniteSet(pool)
    /\ Len(chain) + Cardinality(pool) + Held <= Number

\* What is known in each phase.
Underway ==
    /\ phase = "starting" =>
           Number < MaxCalls /\ clock + EnvelopeLifetime < MaxClock
    /\ phase \in InCall => Number > 0 /\ Current.result = "none"
    /\ phase \in Fresh => Number \notin pool /\ ~Landed(Number)

\* What an operator who waits can rely on.
Timely ==
    /\ \A i \in DOMAIN calls :
           calls[i].maxTime = calls[i].builtAt + EnvelopeLifetime
    /\ WaitsForExpiry =>
           /\ \A i \in DOMAIN calls :
                  i < Number \/ phase = "starting" => clock > calls[i].maxTime
           /\ \A k \in DOMAIN chain :
                  chain[k].ok => chain[k].call = Number /\ phase # "starting"

Inv == Shape /\ Placed /\ Underway /\ Timely /\ OutcomeIsTrue /\ EarlyErrorsAreFinal

LEMMA InitInv == Init => Inv
<1> SUFFICES ASSUME Init PROVE Inv
  OBVIOUS
<1>1. calls \in Seq(CallType) /\ Number = 0 /\ DOMAIN calls = {}
  BY DEF Init, Number
<1>2. /\ chain \in Seq([call : Nat, ok : BOOLEAN])
      /\ Len(chain) = 0 /\ DOMAIN chain = {}
  BY DEF Init
<1>3. IsFiniteSet(pool) /\ Cardinality(pool) = 0
  BY FS_EmptySet DEF Init
<1>4. TypeOK
  BY <1>1, <1>2 DEF Init, TypeOK
<1> QED
  BY <1>1, <1>2, <1>3, <1>4
  DEF Init, Inv, Shape, Placed, Underway, Timely, OutcomeIsTrue,
      EarlyErrorsAreFinal, Held, Fresh, InCall, Landed

-----------------------------------------------------------------------------
(* A call settles.                                                         *)

\* Only the result of the current call changes.
LEMMA SettleCalls ==
    ASSUME Inv, phase \in InCall, NEW result \in Results, Settle(result)
    PROVE  /\ Number' = Number /\ Number \in DOMAIN calls
           /\ calls' \in Seq(CallType) /\ DOMAIN calls' = DOMAIN calls
           /\ DOMAIN calls = 1..Number /\ Number \in Nat
           /\ calls'[Number].result = result
           /\ \A i \in DOMAIN calls :
                  /\ calls'[i] \in CallType
                  /\ i # Number => calls'[i].result = calls[i].result
                  /\ calls'[i].maxTime = calls[i].maxTime
                  /\ calls'[i].builtAt = calls[i].builtAt
<1>1. /\ calls \in Seq(CallType) /\ Number > 0 /\ Number = Len(calls)
      /\ DOMAIN calls = 1..Number /\ Number \in Nat
  BY LenProperties DEF Inv, Shape, Underway, Number
<1>2. calls' = [calls EXCEPT ![Number].result = result]
  BY DEF Settle
<1>3. calls[Number] \in CallType
  BY <1>1, ElementOfSeq
<1>4. [calls[Number] EXCEPT !.result = result] \in CallType
  BY <1>3 DEF CallType
<1>5. calls' \in Seq(CallType) /\ Len(calls') = Len(calls)
  BY <1>1, <1>2, <1>4, ExceptSeq
<1>6. ASSUME NEW i \in DOMAIN calls
      PROVE  /\ calls'[i] \in CallType
             /\ i # Number => calls'[i].result = calls[i].result
             /\ calls'[i].maxTime = calls[i].maxTime
             /\ calls'[i].builtAt = calls[i].builtAt
  <2>1. calls[i] \in CallType
    BY <1>1, ElementOfSeq
  <2>2. CASE i = Number
    BY <1>1, <1>2, <1>3, <1>4, <2>2 DEF CallType
  <2>3. CASE i # Number
    BY <1>1, <1>2, <2>1, <2>3
  <2> QED
    BY <2>2, <2>3
<1>7. calls'[Number].result = result
  BY <1>1, <1>2, <1>3 DEF CallType
<1>8. Number' = Number /\ DOMAIN calls' = DOMAIN calls
  BY <1>1, <1>5, LenProperties DEF Number
<1> QED
  BY <1>1, <1>5, <1>6, <1>7, <1>8

\* The transaction of the current call may go to the mempool, once.
Submitted == pool' = pool \/ (phase = "signed" /\ pool' = pool \cup {Number})

LEMMA SubmittedPool ==
    ASSUME Inv, Submitted
    PROVE  /\ pool' \subseteq DOMAIN calls
           /\ \A i \in pool' : ~Landed(i)
           /\ IsFiniteSet(pool')
           /\ pool' = pool => Len(chain) + Cardinality(pool') + Held <= Number
           /\ Len(chain) + Cardinality(pool') <= Number
           /\ Cardinality(pool') \in Nat /\ Len(chain) \in Nat /\ Number \in Nat
<1>1. /\ Number \in Nat /\ DOMAIN calls = 1..Number /\ Len(chain) \in Nat
  BY LenProperties DEF Inv, Shape, Number
<1>2. /\ pool \subseteq DOMAIN calls /\ IsFiniteSet(pool)
      /\ \A i \in pool : ~Landed(i)
      /\ Len(chain) + Cardinality(pool) + Held <= Number
      /\ phase \in InCall => Number > 0
      /\ phase \in Fresh => Number \notin pool /\ ~Landed(Number)
  BY DEF Inv, Shape, TypeOK, Placed, Underway
<1>3. Cardinality(pool) \in Nat /\ Held \in {0, 1}
  BY <1>2, FS_CardinalityType DEF Held
<1>4. CASE pool' = pool
  BY <1>1, <1>2, <1>3, <1>4
<1>5. CASE phase = "signed" /\ pool' = pool \cup {Number}
  <2>1. Number > 0 /\ Number \notin pool /\ ~Landed(Number) /\ Held = 1
    BY <1>2, <1>5 DEF Fresh, InCall, Held
  <2>2. /\ IsFiniteSet(pool')
        /\ Cardinality(pool') = Cardinality(pool) + 1
    BY <1>2, <1>5, <2>1, FS_AddElement
  <2>3. pool' # pool
    BY <1>5, <2>1
  <2> QED
    BY <1>1, <1>2, <1>3, <1>5, <2>1, <2>2, <2>3
<1> QED
  BY <1>4, <1>5 DEF Submitted

\* With a result that is true, if it is one of the ledger's, and an error
\* before the submission, if it is an early one.
LEMMA SettleStep ==
    ASSUME Inv, phase \in InCall, NEW result \in Results, Settle(result),
           Submitted, UNCHANGED <<chain, seen>>,
           clock' \in clock..MaxClock,
           result \in {"success", "failed"} =>
               \E k \in DOMAIN chain : /\ chain[k].call = Number
                                       /\ chain[k].ok = (result = "success"),
           result \in {"simulationError", "signingError", "rejected"} =>
               phase \in Fresh /\ pool' = pool
    PROVE  Inv'
<1>1. /\ Number' = Number /\ Number \in DOMAIN calls
      /\ calls' \in Seq(CallType) /\ DOMAIN calls' = DOMAIN calls
      /\ DOMAIN calls = 1..Number /\ Number \in Nat
      /\ calls'[Number].result = result
      /\ \A i \in DOMAIN calls :
             /\ calls'[i] \in CallType
             /\ i # Number => calls'[i].result = calls[i].result
             /\ calls'[i].maxTime = calls[i].maxTime
             /\ calls'[i].builtAt = calls[i].builtAt
  BY SettleCalls
<1>2. phase' = "idle" /\ polls' = 0 /\ custody' = "none"
  BY DEF Settle
<1>3. /\ pool' \subseteq DOMAIN calls
      /\ \A i \in pool' : ~Landed(i)
      /\ IsFiniteSet(pool')
      /\ Len(chain) + Cardinality(pool') <= Number
      /\ Cardinality(pool') \in Nat /\ Len(chain) \in Nat
  BY SubmittedPool
<1>4. \A i : Landed(i)' <=> Landed(i)
  BY DEF Landed
<1>5. clock \in Nat /\ clock' \in 0..MaxClock /\ clock <= clock'
  BY DEF Inv, Shape, TypeOK
<1>6. TypeOK'
  <2>1. \A i \in DOMAIN calls' : calls'[i] \in CallType
    BY <1>1
  <2>2. polls' \in 0..(IF phase' = "signing" THEN SigningPolls - 1
                       ELSE IF phase' = "polling" THEN SubmitPolls - 1 ELSE 0)
    BY <1>2
  <2>3. /\ \A k \in DOMAIN chain' :
               chain'[k] \in [call : DOMAIN calls', ok : BOOLEAN]
        /\ seen' \in 0..Len(chain')
    BY <1>1 DEF Inv, Shape, TypeOK
  <2>4. pool' \subseteq DOMAIN calls'
    BY <1>1, <1>3
  <2> QED
    BY <1>2, <1>5, <2>1, <2>2, <2>3, <2>4 DEF TypeOK, CallType
<1>7. Shape'
  BY <1>1, <1>6 DEF Inv, Shape
<1>8. Placed'
  <2>1. \A i \in pool' : ~Landed(i)'
    BY <1>3, <1>4
  <2>2. Held' = 0
    BY <1>2 DEF Held, Fresh
  <2>3. \A k, l \in DOMAIN chain' : chain'[k].call = chain'[l].call => k = l
    BY DEF Inv, Placed
  <2> QED
    BY <1>1, <1>3, <2>1, <2>2, <2>3 DEF Placed
<1>9. Underway'
  BY <1>2 DEF Underway, Fresh, InCall
<1>10. Timely'
  <2>1. \A i \in DOMAIN calls' :
            calls'[i].maxTime = calls'[i].builtAt + EnvelopeLifetime
    BY <1>1 DEF Inv, Timely
  <2>2. ASSUME WaitsForExpiry, NEW i \in DOMAIN calls', i < Number'
        PROVE  clock' > calls'[i].maxTime
    <3>1. clock > calls[i].maxTime /\ calls[i].maxTime \in Nat
      BY <1>1, <2>2 DEF Inv, Timely, CallType
    <3> QED
      BY <1>1, <1>5, <2>2, <3>1
  <2>3. ASSUME WaitsForExpiry, NEW k \in DOMAIN chain', chain'[k].ok
        PROVE  chain'[k].call = Number'
    BY <1>1, <2>3 DEF Inv, Timely
  <2> QED
    BY <1>2, <2>1, <2>2, <2>3 DEF Timely
<1>11. OutcomeIsTrue'
  <2>1. ASSUME NEW i \in DOMAIN calls', calls'[i].result \in {"success", "failed"}
        PROVE  \E k \in DOMAIN chain' :
                   /\ chain'[k].call = i
                   /\ chain'[k].ok = (calls'[i].result = "success")
    <3>1. CASE i = Number
      BY <1>1, <2>1, <3>1
    <3>2. CASE i # Number
      BY <1>1, <2>1, <3>2 DEF Inv, OutcomeIsTrue
    <3> QED
      BY <3>1, <3>2
  <2> QED
    BY <2>1 DEF OutcomeIsTrue
<1>12. EarlyErrorsAreFinal'
  <2>1. ASSUME NEW i \in DOMAIN calls',
               calls'[i].result \in {"simulationError", "signingError", "rejected"}
        PROVE  i \notin pool' /\ ~Landed(i)'
    <3>1. CASE i = Number
      BY <1>1, <1>4, <2>1, <3>1 DEF Inv, Underway
    <3>2. CASE i # Number
      <4>1. i \notin pool /\ ~Landed(i)
        BY <1>1, <2>1, <3>2 DEF Inv, EarlyErrorsAreFinal
      <4> QED
        BY <1>4, <3>2, <4>1 DEF Submitted
    <3> QED
      BY <3>1, <3>2
  <2> QED
    BY <2>1 DEF EarlyErrorsAreFinal
<1> QED
  BY <1>7, <1>8, <1>9, <1>10, <1>11, <1>12 DEF Inv

-----------------------------------------------------------------------------
(* A call goes on.                                                         *)

\* From phase to phase, without a result.
LEMMA OnStep ==
    ASSUME Inv, phase \in InCall, phase' \in InCall,
           UNCHANGED <<calls, chain, seen>>, Submitted,
           clock' \in clock..MaxClock,
           custody' \in {"none", "pending", "completed", "refused"},
           polls' \in 0..(IF phase' = "signing" THEN SigningPolls - 1
                          ELSE IF phase' = "polling" THEN SubmitPolls - 1
                          ELSE 0),
           phase' \in Fresh => phase \in Fresh /\ pool' = pool
    PROVE  Inv'
<1>1. /\ Number' = Number /\ Number \in Nat /\ DOMAIN calls = 1..Number
  BY LenProperties DEF Inv, Shape, Number
<1>2. /\ pool' \subseteq DOMAIN calls
      /\ \A i \in pool' : ~Landed(i)
      /\ IsFiniteSet(pool')
      /\ pool' = pool => Len(chain) + Cardinality(pool') + Held <= Number
      /\ Len(chain) + Cardinality(pool') <= Number
      /\ Cardinality(pool') \in Nat /\ Len(chain) \in Nat
  BY SubmittedPool
<1>3. \A i : Landed(i)' <=> Landed(i)
  BY DEF Landed
<1>4. clock \in Nat /\ clock' \in 0..MaxClock /\ clock <= clock'
  BY DEF Inv, Shape, TypeOK
<1>5. phase # "starting" /\ phase' # "starting" /\ phase' # "idle"
  BY DEF InCall, Fresh
<1>6. TypeOK'
  BY <1>1, <1>2, <1>4 DEF Inv, Shape, TypeOK, InCall, Fresh
<1>7. Shape'
  BY <1>1, <1>6 DEF Inv, Shape
<1>8. Placed'
  <2>1. \A i \in pool' : ~Landed(i)'
    BY <1>2, <1>3
  <2>2. Len(chain') + Cardinality(pool') + Held' <= Number'
    BY <1>1, <1>2 DEF Held
  <2>3. \A k, l \in DOMAIN chain' : chain'[k].call = chain'[l].call => k = l
    BY DEF Inv, Placed
  <2> QED
    BY <1>2, <2>1, <2>2, <2>3 DEF Placed
<1>9. Underway'
  BY <1>1, <1>3, <1>5 DEF Inv, Underway, Current
<1>10. Timely'
  <2>1. \A i \in DOMAIN calls' :
            calls'[i].maxTime = calls'[i].builtAt + EnvelopeLifetime
    BY DEF Inv, Timely
  <2>2. ASSUME WaitsForExpiry, NEW i \in DOMAIN calls', i < Number'
        PROVE  clock' > calls'[i].maxTime
    <3>1. clock > calls[i].maxTime
      BY <1>1, <2>2 DEF Inv, Timely
    <3>2. calls[i].maxTime \in Nat
      BY <2>2 DEF Inv, Shape, TypeOK
    <3> QED
      BY <1>1, <1>4, <2>2, <3>1, <3>2
  <2>3. ASSUME WaitsForExpiry, NEW k \in DOMAIN chain', chain'[k].ok
        PROVE  chain'[k].call = Number'
    BY <1>1, <2>3 DEF Inv, Timely
  <2> QED
    BY <1>5, <2>1, <2>2, <2>3 DEF Timely
<1>11. OutcomeIsTrue'
  BY DEF Inv, OutcomeIsTrue
<1>12. EarlyErrorsAreFinal'
  <2>1. ASSUME NEW i \in DOMAIN calls',
               calls'[i].result \in {"simulationError", "signingError", "rejected"}
        PROVE  i \notin pool' /\ ~Landed(i)'
    <3>1. i \notin pool /\ ~Landed(i)
      BY <2>1 DEF Inv, EarlyErrorsAreFinal
    <3>2. calls[Number].result = "none"
      BY DEF Inv, Underway, Current
    <3>3. i # Number
      BY <2>1, <3>2
    <3> QED
      BY <1>3, <3>1, <3>3 DEF Submitted
  <2> QED
    BY <2>1 DEF EarlyErrorsAreFinal
<1> QED
  BY <1>7, <1>8, <1>9, <1>10, <1>11, <1>12 DEF Inv

-----------------------------------------------------------------------------
(* A call begins.                                                          *)

\* Nothing moves but the operator, who decides to call, or fails to.
LEMMA StartStep ==
    ASSUME Inv, StartCall \/ StartFailure
    PROVE  Inv'
<1>1. /\ UNCHANGED <<clock, calls, polls, custody, pool, chain, seen>>
      /\ phase \in {"idle", "starting"} /\ phase' \in {"idle", "starting"}
  BY DEF StartCall, StartFailure
<1>2. polls = 0
  BY <1>1 DEF Inv, Shape, TypeOK
<1>3. TypeOK'
  BY <1>1, <1>2 DEF Inv, Shape, TypeOK
<1>4. Shape'
  BY <1>1, <1>3 DEF Inv, Shape, Number
<1>5. Placed'
  BY <1>1 DEF Inv, Placed, Held, Fresh, Number, Landed
<1>6. Underway'
  BY <1>1 DEF StartCall, StartFailure, Underway, Fresh, InCall, Number
<1>7. Timely'
  <2>1. CASE StartCall
    <3>1. /\ \A k \in DOMAIN chain : ~chain[k].ok
          /\ WaitsForExpiry => \A i \in DOMAIN calls :
                 clock > calls[i].builtAt + EnvelopeLifetime
      BY <2>1 DEF StartCall
    <3>2. \A i \in DOMAIN calls :
              calls[i].maxTime = calls[i].builtAt + EnvelopeLifetime
      BY DEF Inv, Timely
    <3> QED
      BY <1>1, <3>1, <3>2 DEF Timely
  <2>2. CASE StartFailure
    BY <1>1, <2>2 DEF StartFailure, Inv, Timely, Number
  <2> QED
    BY <2>1, <2>2
<1>8. OutcomeIsTrue' /\ EarlyErrorsAreFinal'
  BY <1>1 DEF Inv, OutcomeIsTrue, EarlyErrorsAreFinal, Landed
<1> QED
  BY <1>4, <1>5, <1>6, <1>7, <1>8 DEF Inv

LEMMA BuildStep ==
    ASSUME Inv, BuildTransaction
    PROVE  Inv'
<1> DEFINE call == [seq |-> seen + 1, builtAt |-> clock, maxTime |-> Timeout,
                    result |-> "none"]
           n == Number
<1>1. /\ phase = "starting" /\ phase' = "built"
      /\ calls' = Append(calls, call)
      /\ UNCHANGED <<clock, polls, custody, pool, chain, seen>>
  BY DEF BuildTransaction
<1>2. /\ n \in Nat /\ n < MaxCalls /\ DOMAIN calls = 1..n
      /\ clock \in 0..MaxClock /\ clock + EnvelopeLifetime < MaxClock
      /\ Len(chain) \in Nat /\ seen \in 0..Len(chain) /\ polls = 0
      /\ calls \in Seq(CallType) /\ IsFiniteSet(pool)
      /\ Len(chain) + Cardinality(pool) <= n
      /\ pool \subseteq 1..n
  <2>1. Held = 0
    BY <1>1 DEF Held, Fresh
  <2>2. Len(chain) \in Nat /\ n \in Nat /\ DOMAIN calls = 1..n
    BY LenProperties DEF Inv, Shape, Number
  <2>3. IsFiniteSet(pool) /\ Cardinality(pool) \in Nat
    BY FS_CardinalityType DEF Inv, Placed
  <2> QED
    BY <1>1, <2>1, <2>2, <2>3 DEF Inv, Shape, TypeOK, Placed, Underway
<1>3. Cardinality(pool) \in Nat
  BY <1>2, FS_CardinalityType
<1>4. call \in CallType
  BY <1>2, <1>3 DEF CallType, Timeout, Results
<1>5. /\ call.maxTime = call.builtAt + EnvelopeLifetime
      /\ call.result = "none"
  BY DEF Timeout
<1> HIDE DEF call, n
<1>6. /\ calls' \in Seq(CallType) /\ Number' = n + 1
      /\ DOMAIN calls' = 1..(n + 1)
      /\ \A i \in 1..n : calls'[i] = calls[i]
      /\ calls'[n + 1] = call
  BY <1>1, <1>2, <1>4, AppendProperties, LenProperties DEF Number, n
<1>7. \A i : Landed(i)' <=> Landed(i)
  BY <1>1 DEF Landed
<1>8. ~Landed(n + 1)
  <2>1. \A k \in DOMAIN chain : chain[k].call \in 1..n
    BY <1>2 DEF Inv, Shape, TypeOK
  <2> QED
    BY <1>2, <2>1 DEF Landed
<1>9. \A i \in 1..(n + 1) : i \in 1..n \/ i = n + 1
  BY <1>2
<1>10. TypeOK'
  <2>1. \A i \in DOMAIN calls' : calls'[i] \in CallType
    BY <1>6, ElementOfSeq, LenProperties
  <2>2. \A k \in DOMAIN chain' :
            chain'[k] \in [call : DOMAIN calls', ok : BOOLEAN]
    BY <1>1, <1>2, <1>6 DEF Inv, Shape, TypeOK
  <2>3. pool' \subseteq DOMAIN calls'
    BY <1>1, <1>2, <1>6
  <2> QED
    BY <1>1, <1>2, <2>1, <2>2, <2>3 DEF Inv, Shape, TypeOK, CallType
<1>11. Shape'
  BY <1>1, <1>2, <1>6, <1>10 DEF Inv, Shape
<1>12. Placed'
  <2>1. Held' = 1
    BY <1>1 DEF Held, Fresh
  <2> QED
    BY <1>1, <1>2, <1>3, <1>6, <1>7, <2>1 DEF Inv, Placed
<1>13. Underway'
  <2>1. Number' \notin pool'
    BY <1>1, <1>2, <1>6
  <2>2. ~Landed(Number)'
    BY <1>6, <1>7, <1>8 DEF Landed
  <2> QED
    BY <1>1, <1>2, <1>5, <1>6, <2>1, <2>2 DEF Underway, Current
<1>14. Timely'
  <2>1. ASSUME NEW i \in DOMAIN calls'
        PROVE  calls'[i].maxTime = calls'[i].builtAt + EnvelopeLifetime
    BY <1>2, <1>5, <1>6, <1>9 DEF Inv, Timely
  <2>2. ASSUME WaitsForExpiry, NEW i \in DOMAIN calls', i < Number'
        PROVE  clock' > calls'[i].maxTime
    BY <1>1, <1>2, <1>6, <2>2 DEF Inv, Timely
  <2>3. ASSUME WaitsForExpiry, NEW k \in DOMAIN chain' PROVE ~chain'[k].ok
    BY <1>1, <2>3 DEF Inv, Timely
  <2> QED
    BY <1>1, <2>1, <2>2, <2>3 DEF Timely
<1>15. OutcomeIsTrue'
  BY <1>1, <1>2, <1>5, <1>6, <1>9 DEF Inv, OutcomeIsTrue
<1>16. EarlyErrorsAreFinal'
  BY <1>1, <1>2, <1>5, <1>6, <1>7, <1>9 DEF Inv, EarlyErrorsAreFinal
<1> QED
  BY <1>11, <1>12, <1>13, <1>14, <1>15, <1>16 DEF Inv

-----------------------------------------------------------------------------
(* The world outside.                                                      *)

\* An approval, the node's progress and the time between two calls.
LEMMA OutsideStep ==
    ASSUME Inv, Decide \/ RpcCatchesUp \/ Tick
    PROVE  Inv'
<1>1. /\ UNCHANGED <<phase, calls, polls, pool, chain>>
      /\ clock' = clock \/ (phase = "idle" /\ clock' = clock + 1 /\ clock < MaxClock)
      /\ seen' = seen \/ seen' \in seen + 1..Len(chain)
      /\ custody' = custody \/ custody' \in {"completed", "refused"}
  BY DEF Decide, RpcCatchesUp, Tick
<1>2. /\ clock \in 0..MaxClock /\ seen \in 0..Len(chain) /\ Len(chain) \in Nat
      /\ phase \in InCall \/ phase \in {"idle", "starting"}
  BY LenProperties DEF Inv, Shape, TypeOK, InCall, Fresh
<1>3. clock' \in 0..MaxClock /\ clock <= clock' /\ seen' \in 0..Len(chain)
  BY <1>1, <1>2
<1>4. TypeOK'
  BY <1>1, <1>3 DEF Inv, Shape, TypeOK
<1>5. Shape'
  BY <1>1, <1>4 DEF Inv, Shape, Number
<1>6. Placed'
  BY <1>1 DEF Inv, Placed, Held, Number, Landed
<1>7. Underway'
  BY <1>1 DEF Inv, Underway, Number, Current, Landed
<1>8. Timely'
  <2>1. ASSUME NEW i \in DOMAIN calls, clock > calls[i].maxTime
        PROVE  clock' > calls'[i].maxTime
    <3>1. calls[i].maxTime \in Nat
      BY DEF Inv, Shape, TypeOK
    <3> QED
      BY <1>1, <1>2, <1>3, <2>1, <3>1
  <2> QED
    BY <1>1, <2>1 DEF Inv, Timely, Number
<1>9. OutcomeIsTrue' /\ EarlyErrorsAreFinal'
  BY <1>1 DEF Inv, OutcomeIsTrue, EarlyErrorsAreFinal, Landed
<1> QED
  BY <1>5, <1>6, <1>7, <1>8, <1>9 DEF Inv

LEMMA DropStep ==
    ASSUME Inv, NEW i \in pool, Drop(i)
    PROVE  Inv'
<1>1. /\ UNCHANGED <<clock, phase, calls, polls, custody, chain, seen>>
      /\ pool' = pool \ {i}
  BY DEF Drop
<1>2. /\ IsFiniteSet(pool') /\ Cardinality(pool') = Cardinality(pool) - 1
      /\ Cardinality(pool) \in Nat
  BY <1>1, FS_RemoveElement, FS_CardinalityType DEF Inv, Placed
<1>3. Shape'
  BY <1>1 DEF Inv, Shape, TypeOK, Number
<1>4. Placed'
  <2>1. Len(chain) \in Nat /\ Number \in Nat /\ Held \in {0, 1}
    BY LenProperties DEF Inv, Shape, Number, Held
  <2>2. Number' = Number /\ Held' = Held
    BY <1>1 DEF Number, Held
  <2> QED
    BY <1>1, <1>2, <2>1, <2>2 DEF Inv, Placed, Landed
<1>5. Underway'
  BY <1>1 DEF Inv, Underway, Number, Current, Landed
<1>6. Timely'
  BY <1>1 DEF Inv, Timely, Number
<1>7. OutcomeIsTrue' /\ EarlyErrorsAreFinal'
  BY <1>1 DEF Inv, OutcomeIsTrue, EarlyErrorsAreFinal, Landed
<1> QED
  BY <1>3, <1>4, <1>5, <1>6, <1>7 DEF Inv

\* Of an operator who waits only the last call can land.
LEMMA LandStep ==
    ASSUME Inv, NEW i \in pool, Land(i)
    PROVE  Inv'
<1> PICK ok \in BOOLEAN : chain' = Append(chain, [call |-> i, ok |-> ok])
  BY DEF Land
<1> DEFINE entry == [call |-> i, ok |-> ok]
           m == Len(chain)
<1>1. /\ UNCHANGED <<clock, phase, calls, polls, custody, seen>>
      /\ pool' = pool \ {i} /\ clock <= calls[i].maxTime
  BY DEF Land
<1>2. /\ i \in DOMAIN calls /\ DOMAIN calls = 1..Number /\ Number \in Nat
      /\ ~Landed(i) /\ m \in Nat /\ DOMAIN chain = 1..m
      /\ seen \in 0..m
  BY LenProperties DEF Inv, Shape, TypeOK, Placed, Number
<1>3. entry \in [call : Nat, ok : BOOLEAN] /\ entry.call = i
  BY <1>2
<1> HIDE DEF entry, m
<1>4. chain' = Append(chain, entry)
  BY DEF entry
<1>5. /\ chain' \in Seq([call : Nat, ok : BOOLEAN]) /\ Len(chain') = m + 1
      /\ DOMAIN chain' = 1..(m + 1)
      /\ \A k \in 1..m : chain'[k] = chain[k]
      /\ chain'[m + 1] = entry
  BY <1>3, <1>4, AppendProperties, LenProperties DEF Inv, Shape, m
<1>6. \A k \in 1..(m + 1) : k \in 1..m \/ k = m + 1
  BY <1>2
<1>7. 1..m \subseteq 1..(m + 1) /\ m + 1 \in 1..(m + 1)
  BY <1>2
<1>8. ASSUME NEW j PROVE Landed(j)' <=> Landed(j) \/ j = i
  BY <1>2, <1>3, <1>5, <1>6, <1>7 DEF Landed
<1>9. Number' = Number /\ Held' = Held /\ Held \in {0, 1}
  BY <1>1 DEF Number, Held
<1>10. phase \in Fresh => i # Number
  BY DEF Inv, Underway
<1>11. TypeOK'
  <2>1. ASSUME NEW k \in DOMAIN chain'
        PROVE  chain'[k] \in [call : DOMAIN calls', ok : BOOLEAN]
    <3>1. CASE k \in 1..m
      BY <1>1, <1>2, <1>5, <3>1 DEF Inv, Shape, TypeOK
    <3>2. CASE k = m + 1
      BY <1>1, <1>2, <1>5, <3>2 DEF entry
    <3> QED
      BY <1>5, <1>6, <3>1, <3>2
  <2>2. seen' \in 0..Len(chain') /\ pool' \subseteq DOMAIN calls'
    BY <1>1, <1>2, <1>5 DEF Inv, Shape, TypeOK
  <2> QED
    BY <1>1, <2>1, <2>2 DEF Inv, Shape, TypeOK
<1>12. Shape'
  BY <1>1, <1>5, <1>9, <1>11 DEF Inv, Shape
<1>13. Placed'
  <2>1. /\ IsFiniteSet(pool') /\ Cardinality(pool') = Cardinality(pool) - 1
        /\ Cardinality(pool) \in Nat
    BY <1>1, FS_RemoveElement, FS_CardinalityType DEF Inv, Placed
  <2>2. Len(chain') + Cardinality(pool') + Held' <= Number'
    <3>1. m + Cardinality(pool) + Held <= Number
      BY DEF Inv, Placed, m
    <3> QED
      BY <1>2, <1>5, <1>9, <2>1, <3>1
  <2>3. \A j \in pool' : ~Landed(j)'
    <3>1. \A j \in pool' : j # i /\ ~Landed(j)
      BY <1>1 DEF Inv, Placed
    <3> QED
      BY <1>2, <1>3, <1>5, <1>6, <3>1 DEF Landed
  <2>4. ASSUME NEW k \in DOMAIN chain', NEW l \in DOMAIN chain',
               chain'[k].call = chain'[l].call
        PROVE  k = l
    <3>1. \A j \in 1..m : chain[j].call # i
      BY <1>2 DEF Landed
    <3>2. CASE k \in 1..m /\ l \in 1..m
      BY <1>2, <1>5, <2>4, <3>2 DEF Inv, Placed
    <3>3. CASE k = m + 1 \/ l = m + 1
      BY <1>3, <1>5, <1>6, <2>4, <3>1, <3>3
    <3> QED
      BY <1>5, <1>6, <3>2, <3>3
  <2> QED
    BY <2>1, <2>2, <2>3, <2>4 DEF Placed
<1>14. Underway'
  <2>1. ASSUME phase \in Fresh
        PROVE  Number \notin pool' /\ ~Landed(Number)'
    <3>1. Number \notin pool /\ \A k \in 1..m : chain[k].call # Number
      BY <1>2, <2>1 DEF Inv, Underway, Landed
    <3>2. \A k \in DOMAIN chain' : chain'[k].call # Number
      BY <1>3, <1>5, <1>6, <1>10, <2>1, <3>1
    <3> QED
      BY <1>1, <1>9, <3>1, <3>2 DEF Landed
  <2> QED
    BY <1>1, <1>9, <2>1 DEF Inv, Underway, Current, Landed
<1>15. Timely'
  <2>1. ASSUME WaitsForExpiry PROVE i = Number /\ phase # "starting"
    <3>1. ~(clock > calls[i].maxTime)
      <4>1. clock \in Nat /\ calls[i].maxTime \in Nat
        BY <1>2 DEF Inv, Shape, TypeOK
      <4> QED
        BY <1>1, <4>1
    <3> QED
      BY <1>2, <2>1, <3>1 DEF Inv, Timely
  <2>2. ASSUME WaitsForExpiry, NEW k \in DOMAIN chain', chain'[k].ok
        PROVE  chain'[k].call = Number' /\ phase' # "starting"
    <3>1. CASE k \in 1..m
      BY <1>1, <1>2, <1>5, <1>9, <2>2, <3>1 DEF Inv, Timely
    <3>2. CASE k = m + 1
      BY <1>1, <1>3, <1>5, <1>9, <2>1, <2>2, <3>2
    <3> QED
      BY <1>5, <1>6, <3>1, <3>2
  <2>3. /\ \A j \in DOMAIN calls' :
               calls'[j].maxTime = calls'[j].builtAt + EnvelopeLifetime
        /\ WaitsForExpiry => \A j \in DOMAIN calls' :
               j < Number' \/ phase' = "starting" => clock' > calls'[j].maxTime
    BY <1>1, <1>9 DEF Inv, Timely
  <2> QED
    BY <2>2, <2>3 DEF Timely
<1>16. OutcomeIsTrue'
  <2>1. ASSUME NEW j \in DOMAIN calls', calls'[j].result \in {"success", "failed"}
        PROVE  \E k \in DOMAIN chain' :
                   /\ chain'[k].call = j
                   /\ chain'[k].ok = (calls'[j].result = "success")
    <3>1. PICK k \in DOMAIN chain :
                /\ chain[k].call = j
                /\ chain[k].ok = (calls[j].result = "success")
      BY <1>1, <2>1 DEF Inv, OutcomeIsTrue
    <3> QED
      BY <1>1, <1>2, <1>5, <1>7, <3>1
  <2> QED
    BY <2>1 DEF OutcomeIsTrue
<1>17. EarlyErrorsAreFinal'
  <2>1. ASSUME NEW j \in DOMAIN calls',
               calls'[j].result \in {"simulationError", "signingError", "rejected"}
        PROVE  j \notin pool' /\ ~Landed(j)'
    <3>1. j \notin pool /\ ~Landed(j)
      BY <1>1, <2>1 DEF Inv, EarlyErrorsAreFinal
    <3>2. j # i
      BY <3>1
    <3> QED
      BY <1>1, <1>8, <3>1, <3>2
  <2> QED
    BY <2>1 DEF EarlyErrorsAreFinal
<1> QED
  BY <1>12, <1>13, <1>14, <1>15, <1>16, <1>17 DEF Inv

-----------------------------------------------------------------------------
(* The steps of a call.                                                    *)

LEMMA ClockMoves ==
    ASSUME Inv, Sleep \/ UNCHANGED clock
    PROVE  clock' \in clock..MaxClock
<1>1. clock \in 0..MaxClock
  BY DEF Inv, Shape, TypeOK
<1> QED
  BY <1>1 DEF Sleep

LEMMA PrepareStep ==
    ASSUME Inv, SimulateAndPrepare \/ SignLocally \/ SignHash
    PROVE  Inv'
<1>1. /\ phase \in {"built", "prepared"} /\ phase \in Fresh /\ phase \in InCall
      /\ UNCHANGED <<clock, pool, chain, seen>> /\ Submitted
  BY DEF SimulateAndPrepare, SignLocally, SignHash, Fresh, InCall, Submitted
<1>2. /\ clock' \in clock..MaxClock /\ polls = 0
      /\ custody \in {"none", "pending", "completed", "refused"}
  BY <1>1, ClockMoves DEF Inv, Shape, TypeOK
<1>3. ASSUME NEW result \in {"simulationError", "signingError"}, Settle(result)
      PROVE  Inv'
  BY <1>1, <1>2, <1>3, SettleStep DEF Results, Errors
<1>4. ASSUME phase' \in {"prepared", "signing", "signed"}, UNCHANGED <<calls, polls>>,
             custody' \in {custody, "pending"}
      PROVE  Inv'
  <2>1. phase' \in InCall /\ phase' # "polling"
    BY <1>4 DEF InCall, Fresh
  <2>2. polls' \in 0..(IF phase' = "signing" THEN SigningPolls - 1
                       ELSE IF phase' = "polling" THEN SubmitPolls - 1 ELSE 0)
    BY <1>2, <1>4
  <2> QED
    BY <1>1, <1>2, <1>4, <2>1, <2>2, OnStep
<1> QED
  BY <1>3, <1>4 DEF SimulateAndPrepare, SignLocally, SignHash

\* A poll without an answer to use.
LEMMA PollAgainStep ==
    ASSUME Inv, NEW budget \in Nat \ {0}, NEW error \in Results,
           PollAgain(budget, error), Sleep, UNCHANGED <<pool, chain, seen>>,
           \/ phase = "signing" /\ budget = SigningPolls /\ error = "signingError"
           \/ phase = "polling" /\ budget = SubmitPolls /\ error = "unconfirmed"
    PROVE  Inv'
<1>1. /\ clock' \in clock..MaxClock /\ Submitted /\ phase \in InCall
      /\ custody \in {"none", "pending", "completed", "refused"}
      /\ polls \in 0..(budget - 1)
      /\ phase = "signing" => phase \in Fresh
  BY ClockMoves DEF Submitted, InCall, Fresh, Inv, Shape, TypeOK
<1>2. CASE GivesUp(budget) /\ Settle(error)
  BY <1>1, <1>2, SettleStep
<1>3. CASE ~GivesUp(budget) /\ polls' = polls + 1 /\ UNCHANGED <<phase, calls, custody>>
  <2>1. polls' \in 0..(budget - 1)
    BY <1>1, <1>3 DEF GivesUp
  <2>2. polls' \in 0..(IF phase' = "signing" THEN SigningPolls - 1
                       ELSE IF phase' = "polling" THEN SubmitPolls - 1 ELSE 0)
    BY <1>3, <2>1
  <2> QED
    BY <1>1, <1>3, <2>2, OnStep
<1> QED
  BY <1>2, <1>3 DEF PollAgain

LEMMA SigningStep ==
    ASSUME Inv, PollFireblocksTransaction
    PROVE  Inv'
<1>1. /\ phase = "signing" /\ Sleep /\ UNCHANGED <<pool, chain, seen>>
      /\ phase \in Fresh /\ phase \in InCall /\ Submitted
      /\ clock' \in clock..MaxClock
      /\ custody \in {"none", "pending", "completed", "refused"}
  BY ClockMoves DEF PollFireblocksTransaction, Fresh, InCall, Submitted,
                    Inv, Shape, TypeOK
<1>2. CASE phase' = "signed" /\ polls' = 0 /\ UNCHANGED <<calls, custody>>
  <2>1. phase' \in InCall
    BY <1>2 DEF InCall, Fresh
  <2>2. polls' \in 0..(IF phase' = "signing" THEN SigningPolls - 1
                       ELSE IF phase' = "polling" THEN SubmitPolls - 1 ELSE 0)
    BY <1>2
  <2> QED
    BY <1>1, <1>2, <2>1, <2>2, OnStep
<1>3. CASE Settle("signingError")
  BY <1>1, <1>3, SettleStep DEF Results, Errors
<1>4. CASE PollAgain(SigningPolls, "signingError")
  BY <1>1, <1>4, PollAgainStep DEF Results, Errors
<1> QED
  BY <1>2, <1>3, <1>4 DEF PollFireblocksTransaction

LEMMA SendStep ==
    ASSUME Inv, SendTransaction
    PROVE  Inv'
<1>1. /\ phase = "signed" /\ phase \in Fresh /\ phase \in InCall
      /\ UNCHANGED <<clock, chain, seen>> /\ clock' \in clock..MaxClock
      /\ custody \in {"none", "pending", "completed", "refused"} /\ polls = 0
  BY ClockMoves DEF SendTransaction, Fresh, InCall, Inv, Shape, TypeOK
<1>2. pool' \in {pool, pool \cup {Number}} => Submitted
  BY <1>1 DEF Submitted
<1>3. CASE Settle("rejected") /\ UNCHANGED pool
  BY <1>1, <1>2, <1>3, SettleStep DEF Results, Errors
<1>4. CASE Settle("transportError") /\ pool' \in {pool, pool \cup {Number}}
  BY <1>1, <1>2, <1>4, SettleStep DEF Results, Errors
<1>5. CASE phase' = "polling" /\ pool' \in {pool, pool \cup {Number}}
           /\ UNCHANGED <<calls, polls, custody>>
  <2>1. phase' \in InCall /\ phase' \notin Fresh
    BY <1>5 DEF InCall, Fresh
  <2>2. polls' \in 0..(IF phase' = "signing" THEN SigningPolls - 1
                       ELSE IF phase' = "polling" THEN SubmitPolls - 1 ELSE 0)
    BY <1>1, <1>5
  <2> QED
    BY <1>1, <1>2, <1>5, <2>1, <2>2, OnStep
<1> QED
  BY <1>3, <1>4, <1>5 DEF SendTransaction

LEMMA PollStep ==
    ASSUME Inv, SubmitAndPoll
    PROVE  Inv'
<1>1. /\ phase = "polling" /\ Sleep /\ UNCHANGED <<pool, chain, seen>>
      /\ phase \in InCall /\ Submitted /\ clock' \in clock..MaxClock
  BY ClockMoves DEF SubmitAndPoll, InCall, Submitted
<1>2. ASSUME NEW k \in 1..seen, Found(k),
             Settle(IF chain[k].ok THEN "success" ELSE "failed")
      PROVE  Inv'
  <2>1. k \in DOMAIN chain /\ chain[k].ok \in BOOLEAN /\ chain[k].call = Number
    <3>1. /\ seen \in 0..Len(chain) /\ Len(chain) \in Nat
          /\ DOMAIN chain = 1..Len(chain)
      BY LenProperties DEF Inv, Shape, TypeOK
    <3>2. k \in DOMAIN chain
      BY <3>1
    <3> QED
      BY <1>2, <3>2 DEF Inv, Shape, TypeOK, Found
  <2>2. CASE chain[k].ok
    <3>1. Settle("success")
      BY <1>2, <2>2
    <3>2. chain[k].ok = ("success" = "success")
      BY <2>1, <2>2
    <3> QED
      BY <1>1, <2>1, <3>1, <3>2, SettleStep DEF Results
  <2>3. CASE ~chain[k].ok
    <3>1. Settle("failed")
      BY <1>2, <2>3
    <3>2. chain[k].ok = ("failed" = "success")
      BY <2>1, <2>3
    <3> QED
      BY <1>1, <2>1, <3>1, <3>2, SettleStep DEF Results
  <2> QED
    BY <2>2, <2>3
<1>3. CASE PollAgain(SubmitPolls, "unconfirmed")
  BY <1>1, <1>3, PollAgainStep DEF Results, Errors
<1> QED
  BY <1>2, <1>3 DEF SubmitAndPoll

LEMMA FailureStep ==
    ASSUME Inv, TransportFailure
    PROVE  Inv'
<1>1. /\ phase \in InCall /\ Submitted /\ clock' \in clock..MaxClock
      /\ UNCHANGED <<chain, seen>> /\ Settle("transportError")
  BY ClockMoves DEF TransportFailure, InCall, Fresh, Submitted
<1> QED
  BY <1>1, SettleStep DEF Results, Errors

LEMMA InvStep == Inv /\ [Next]_vars => Inv'
<1> SUFFICES ASSUME Inv, [Next]_vars PROVE Inv'
  OBVIOUS
<1>1. CASE UNCHANGED vars
  BY <1>1 DEF vars, Inv, Shape, TypeOK, Placed, Underway, Timely,
              OutcomeIsTrue, EarlyErrorsAreFinal, Held, Number, Current, Landed
<1>2. CASE Client
  BY <1>2, StartStep, BuildStep, PrepareStep, SigningStep, SendStep, PollStep,
     FailureStep DEF Client
<1>3. CASE World
  BY <1>3, OutsideStep, DropStep, LandStep DEF World
<1>4. CASE StartCall
  BY <1>4, StartStep
<1> QED
  BY <1>1, <1>2, <1>3, <1>4 DEF Next

LEMMA InvInvariant == Spec => []Inv
  BY InitInv, InvStep, PTL DEF Spec

-----------------------------------------------------------------------------
(* Calls, clock, mempool and ledgers stay within their bounds, and so does *)
(* the number of transactions: none is ever in two places.                 *)
THEOREM SubmissionTypes == Spec => []TypeOK
<1>1. Inv => TypeOK
  BY DEF Inv, Shape
<1> QED
  BY <1>1, InvInvariant, PTL

(* A result of the ledger that the SDK reports is that of the call's own   *)
(* transaction.                                                            *)
THEOREM OutcomeTheorem == Spec => []OutcomeIsTrue
<1>1. Inv => OutcomeIsTrue
  BY DEF Inv
<1> QED
  BY <1>1, InvInvariant, PTL

(* After a simulation error, a signing error or a rejection nothing of the *)
(* call can land any more.                                                 *)
THEOREM EarlyErrorsTheorem == Spec => []EarlyErrorsAreFinal
<1>1. Inv => EarlyErrorsAreFinal
  BY DEF Inv
<1> QED
  BY <1>1, InvInvariant, PTL

(* An operator who lets every earlier envelope expire before the next      *)
(* attempt has the effect once, whatever approvers, node and network do.   *)
THEOREM OnceTheorem == WaitsForExpiry => (Spec => []EffectAtMostOnce)
<1>1. ASSUME WaitsForExpiry, Inv PROVE EffectAtMostOnce
  <2> DEFINE Effective == {k \in DOMAIN chain : chain[k].ok}
  <2>1. \A k, l \in Effective : k = l
    BY <1>1 DEF Inv, Timely, Placed
  <2>2. CASE Effective = {}
    BY <2>2, FS_EmptySet DEF EffectAtMostOnce
  <2>3. ASSUME NEW k \in Effective PROVE EffectAtMostOnce
    <3>1. Effective = {k}
      BY <2>1, <2>3
    <3>2. Cardinality({k}) = 1
      BY FS_Singleton
    <3>3. Cardinality(Effective) = 1
      BY <3>1, <3>2
    <3> QED
      BY <3>3 DEF EffectAtMostOnce
  <2> QED
    BY <2>2, <2>3
<1>2. WaitsForExpiry /\ Inv => EffectAtMostOnce
  BY <1>1
<1>3. CASE WaitsForExpiry
  <2>1. Inv => EffectAtMostOnce
    BY <1>2, <1>3
  <2>2. Spec => []EffectAtMostOnce
    BY <2>1, InvInvariant, PTL
  <2> QED
    BY <2>2
<1> QED
  BY <1>3

-----------------------------------------------------------------------------
(* Calls are attempts.                                                     *)

\* What every step but the one that makes a call leaves alone: a transaction
\* lands out of the mempool in time or not at all, gets there out of the hands
\* of the current call or not at all, and only the current call, which has no
\* result yet, gets one.
Onward ==
    /\ Number' = Number /\ DOMAIN calls' = DOMAIN calls
    /\ \A i \in DOMAIN calls : calls'[i].maxTime = calls[i].maxTime
    /\ clock' \in clock..MaxClock
    /\ \/ chain' = chain
       \/ \E j \in pool, ok \in BOOLEAN :
             /\ chain' = Append(chain, [call |-> j, ok |-> ok])
             /\ clock <= calls[j].maxTime
    /\ \A i \in pool' : i \in pool \/ (i = Number /\ phase \in Fresh)
    /\ phase' \in Fresh => phase \in Fresh
    /\ \A i \in DOMAIN calls :
          \/ calls'[i].result = calls[i].result
          \/ calls[i].result = "none" /\ calls'[i].result \in Results \ {"none"}

LEMMA SettleOnward ==
    ASSUME Inv, phase \in InCall, NEW result \in Results \ {"none"},
           Settle(result), Submitted, UNCHANGED chain, clock' \in clock..MaxClock
    PROVE  Onward
<1>1. /\ Number' = Number /\ Number \in DOMAIN calls
      /\ DOMAIN calls' = DOMAIN calls /\ calls'[Number].result = result
      /\ \A i \in DOMAIN calls :
             /\ i # Number => calls'[i].result = calls[i].result
             /\ calls'[i].maxTime = calls[i].maxTime
  BY SettleCalls
<1>2. calls[Number].result = "none" /\ phase' \notin Fresh
  BY DEF Inv, Underway, Current, Settle, Fresh
<1>3. \A i \in pool' : i \in pool \/ (i = Number /\ phase \in Fresh)
  BY DEF Submitted, Fresh
<1> QED
  BY <1>1, <1>2, <1>3 DEF Onward

LEMMA MoveOnward ==
    ASSUME Inv, UNCHANGED <<calls, chain>>, Submitted \/ pool' \subseteq pool,
           clock' \in clock..MaxClock, phase' \in Fresh => phase \in Fresh
    PROVE  Onward
  BY DEF Onward, Submitted, Number, Fresh

LEMMA OnwardStep ==
    ASSUME Inv, Next
    PROVE  BuildTransaction \/ Onward
<1>1. CASE StartCall \/ StartFailure
  <2>1. UNCHANGED <<clock, calls, pool, chain>> /\ phase' \in {"idle", "starting"}
    BY <1>1 DEF StartCall, StartFailure
  <2> QED
    BY <2>1, ClockMoves, MoveOnward DEF Fresh
<1>2. CASE SimulateAndPrepare \/ SignLocally \/ SignHash
  <2>1. /\ phase \in Fresh /\ phase \in InCall
        /\ UNCHANGED <<clock, pool, chain>> /\ Submitted
    BY <1>2 DEF SimulateAndPrepare, SignLocally, SignHash, Fresh, InCall, Submitted
  <2>2. clock' \in clock..MaxClock
    BY <2>1, ClockMoves
  <2>3. \/ UNCHANGED calls
        \/ Settle("simulationError") \/ Settle("signingError")
    BY <1>2 DEF SimulateAndPrepare, SignLocally, SignHash
  <2> QED
    BY <2>1, <2>2, <2>3, MoveOnward, SettleOnward DEF Results, Errors
<1>3. CASE PollFireblocksTransaction \/ SubmitAndPoll
  <2>1. /\ phase \in InCall /\ Sleep /\ UNCHANGED <<pool, chain>> /\ Submitted
        /\ phase' \in Fresh => phase \in Fresh
    BY <1>3 DEF PollFireblocksTransaction, SubmitAndPoll, Fresh, InCall,
                Submitted, PollAgain, Settle
  <2>2. clock' \in clock..MaxClock
    BY <2>1, ClockMoves
  <2>3. \/ UNCHANGED calls
        \/ \E result \in {"signingError", "success", "failed", "unconfirmed"} :
               Settle(result)
    BY <1>3 DEF PollFireblocksTransaction, SubmitAndPoll, PollAgain
  <2> QED
    BY <2>1, <2>2, <2>3, MoveOnward, SettleOnward DEF Results, Errors
<1>4. CASE SendTransaction \/ TransportFailure
  <2>1. /\ phase \in InCall /\ UNCHANGED <<clock, chain>> /\ Submitted
        /\ phase' \in Fresh => phase \in Fresh
    BY <1>4 DEF SendTransaction, TransportFailure, Fresh, InCall, Submitted, Settle
  <2>2. clock' \in clock..MaxClock
    BY <2>1, ClockMoves
  <2>3. UNCHANGED calls \/ Settle("rejected") \/ Settle("transportError")
    BY <1>4 DEF SendTransaction, TransportFailure
  <2> QED
    BY <2>1, <2>2, <2>3, MoveOnward, SettleOnward DEF Results, Errors
<1>5. CASE Decide \/ RpcCatchesUp \/ Tick
  <2>1. /\ UNCHANGED <<phase, calls, pool, chain>>
        /\ clock' = clock \/ (clock' = clock + 1 /\ clock < MaxClock)
    BY <1>5 DEF Decide, RpcCatchesUp, Tick
  <2>2. clock' \in clock..MaxClock
    BY <2>1 DEF Inv, Shape, TypeOK
  <2> QED
    BY <2>1, <2>2, MoveOnward
<1>6. ASSUME NEW i \in pool, Drop(i) PROVE Onward
  <2>1. UNCHANGED <<clock, phase, calls, chain>> /\ pool' \subseteq pool
    BY <1>6 DEF Drop
  <2> QED
    BY <2>1, ClockMoves, MoveOnward
<1>7. ASSUME NEW i \in pool, Land(i) PROVE Onward
  <2>1. /\ UNCHANGED <<clock, phase, calls>> /\ pool' \subseteq pool
        /\ clock <= calls[i].maxTime
        /\ \E ok \in BOOLEAN : chain' = Append(chain, [call |-> i, ok |-> ok])
    BY <1>7 DEF Land
  <2> QED
    BY <2>1, ClockMoves DEF Onward, Number
<1> QED
  BY <1>1, <1>2, <1>3, <1>4, <1>5, <1>6, <1>7 DEF Next, Client, World

\* What a step makes of the chain, seen from one call.
LEMMA ChainOnward ==
    ASSUME Inv, Onward, NEW i \in DOMAIN calls
    PROVE  /\ Landed(i) => Fate(i)' = Fate(i)
           /\ ~Landed(i) /\ Landed(i)' =>
                  i \in pool /\ clock <= calls[i].maxTime
<1>1. CASE chain' = chain
  BY <1>1 DEF Fate, Landed
<1>2. ASSUME NEW j \in pool, NEW ok \in BOOLEAN,
             chain' = Append(chain, [call |-> j, ok |-> ok]),
             clock <= calls[j].maxTime
      PROVE  /\ Landed(i) => Fate(i)' = Fate(i)
             /\ ~Landed(i) /\ Landed(i)' =>
                    i \in pool /\ clock <= calls[i].maxTime
  <2> DEFINE m == Len(chain)
  <2>1. chain \in Seq([call : Nat, ok : BOOLEAN]) /\ j \in Nat /\ ~Landed(j)
    <3>1. DOMAIN calls = 1..Number /\ Number \in Nat
      BY LenProperties DEF Inv, Shape, Number
    <3> QED
      BY <3>1 DEF Inv, Shape, TypeOK, Placed
  <2>2. [call |-> j, ok |-> ok] \in [call : Nat, ok : BOOLEAN]
    BY <2>1
  <2>3. /\ m \in Nat /\ DOMAIN chain = 1..m /\ DOMAIN chain' = 1..(m + 1)
        /\ \A k \in 1..m : chain'[k] = chain[k]
        /\ chain'[m + 1].call = j
    BY <1>2, <2>1, <2>2, AppendProperties, LenProperties
  <2> HIDE DEF m
  <2>4. CASE i = j
    BY <1>2, <2>1, <2>4
  <2>5. CASE i # j
    <3>1. \A k \in DOMAIN chain' : chain'[k].call = i => k \in 1..m
      <4>1. \A k \in 1..(m + 1) : k \in 1..m \/ k = m + 1
        BY <2>3
      <4> QED
        BY <2>3, <2>5, <4>1
    <3>2. \A k \in 1..m : k \in DOMAIN chain' /\ k \in DOMAIN chain
      BY <2>3
    <3>3. Landed(i)' <=> Landed(i)
      BY <2>3, <3>1, <3>2 DEF Landed
    <3>4. (\E k \in DOMAIN chain' : chain'[k].call = i /\ chain'[k].ok)
            <=> \E k \in DOMAIN chain : chain[k].call = i /\ chain[k].ok
      BY <2>3, <3>1, <3>2
    <3> QED
      BY <3>3, <3>4 DEF Fate
  <2> QED
    BY <2>4, <2>5
<1> QED
  BY <1>1, <1>2 DEF Onward

\* A fate is decided once.
LEMMA FateOnward ==
    ASSUME Inv, Onward, NEW i \in DOMAIN calls
    PROVE  \/ Fate(i)' = Fate(i)
           \/ Fate(i) = "open" /\ Fate(i)' \in Attempt!Decided
<1>1. Fate(i)' \in {"applied", "failed", "open", "void"}
  BY DEF Fate
<1>2. CASE Landed(i)
  BY <1>2, ChainOnward
<1>3. CASE ~Landed(i) /\ Landed(i)'
  <2>1. Fate(i) = "open"
    BY <1>3, ChainOnward DEF Fate
  <2>2. Fate(i)' \in {"applied", "failed"}
    BY <1>3 DEF Fate
  <2> QED
    BY <2>1, <2>2 DEF Attempt!Decided
<1>4. CASE ~Landed(i) /\ ~Landed(i)'
  <2>1. Fate(i) \in {"open", "void"} /\ Fate(i)' \in {"open", "void"}
    BY <1>4 DEF Fate
  <2>2. ASSUME Fate(i)' = "open" PROVE Fate(i) = "open"
    <3>1. clock \in Nat /\ calls[i].maxTime \in Nat /\ clock' \in clock..MaxClock
      BY DEF Inv, Shape, TypeOK, Onward
    <3>2. CASE i \in pool' /\ clock' <= calls'[i].maxTime
      <4>1. clock <= calls[i].maxTime
        BY <3>1, <3>2 DEF Onward
      <4> QED
        BY <1>4, <3>2, <4>1 DEF Onward, Fate
    <3>3. CASE i = Number' /\ phase' \in Fresh
      BY <1>4, <3>3 DEF Onward, Fate
    <3> QED
      BY <1>4, <2>2, <3>2, <3>3 DEF Fate
  <2> QED
    BY <2>1, <2>2 DEF Attempt!Decided
<1> QED
  BY <1>2, <1>3, <1>4

\* What callers have been told is so.
AnswersAgree ==
    \A i \in DOMAIN calls : Attempt!Agrees(Answer(calls[i].result), Fate(i))

LEMMA AnswersTrue == Inv => AnswersAgree
<1> SUFFICES ASSUME Inv, NEW i \in DOMAIN calls
             PROVE  Attempt!Agrees(Answer(calls[i].result), Fate(i))
  BY DEF AnswersAgree
<1> DEFINE result == calls[i].result
<1>1. result \in Results
  BY DEF Inv, Shape, TypeOK
<1>2. CASE result \in {"success", "failed"}
  <2>1. PICK k \in DOMAIN chain : /\ chain[k].call = i
                                  /\ chain[k].ok = (result = "success")
    BY <1>2 DEF Inv, OutcomeIsTrue
  <2>2. \A l \in DOMAIN chain : chain[l].call = i => l = k
    BY <2>1 DEF Inv, Placed
  <2>3. Fate(i) = IF result = "success" THEN "applied" ELSE "failed"
    BY <2>1, <2>2 DEF Fate, Landed
  <2> QED
    BY <1>2, <2>3 DEF Answer, Attempt!Agrees
<1>3. CASE result \in {"simulationError", "signingError", "rejected"}
  <2>1. i \notin pool /\ ~Landed(i)
    BY <1>3 DEF Inv, EarlyErrorsAreFinal
  <2>2. ~(i = Number /\ phase \in Fresh)
    BY <1>3 DEF Inv, Underway, InCall, Current
  <2>3. Fate(i) = "void"
    BY <2>1, <2>2 DEF Fate
  <2> QED
    BY <1>3, <2>3 DEF Answer, Attempt!Agrees
<1>4. CASE result \in {"none", "unconfirmed", "transportError"}
  BY <1>4 DEF Answer, Attempt!Agrees
<1> QED
  BY <1>1, <1>2, <1>3, <1>4 DEF Results, Errors

LEMMA ProceedStep ==
    ASSUME Inv, Onward, AnswersAgree'
    PROVE  Attempt!Proceed
<1>1. DOMAIN calls' = DOMAIN calls
  BY DEF Onward
<1>2. ASSUME NEW i \in DOMAIN calls
      PROVE  /\ \/ Answer(calls'[i].result) = Answer(calls[i].result)
                \/ /\ Answer(calls[i].result) = "none"
                   /\ Answer(calls'[i].result) \in Attempt!Answers
             /\ Attempt!Agrees(Answer(calls'[i].result), Fate(i)')
  <2>1. Attempt!Agrees(Answer(calls'[i].result), Fate(i)')
    BY <1>1 DEF AnswersAgree
  <2>2. CASE calls'[i].result = calls[i].result
    BY <2>1, <2>2
  <2>3. CASE calls[i].result = "none" /\ calls'[i].result \in Results \ {"none"}
    BY <2>1, <2>3 DEF Answer, Attempt!Answers, Results, Errors
  <2> QED
    BY <2>2, <2>3 DEF Onward
<1> QED
  BY <1>1, <1>2, FateOnward DEF Attempt!Proceed, Attempt!Attempted

\* The envelope is built and in hand; an operator who waits has nothing left
\* of the calls before.
LEMMA BeginStep ==
    ASSUME Inv, BuildTransaction
    PROVE  Attempt!Begin
<1>0. PICK n \in Nat : n = Number
  <2>1. Number \in Nat
    BY LenProperties DEF Inv, Shape, Number
  <2> QED
    BY <2>1
<1> DEFINE call == [seq |-> seen + 1, builtAt |-> clock, maxTime |-> Timeout,
                    result |-> "none"]
<1>1. /\ phase = "starting" /\ phase' = "built"
      /\ calls' = Append(calls, call)
      /\ UNCHANGED <<clock, pool, chain>>
  BY DEF BuildTransaction
<1>2. /\ n \in Nat /\ DOMAIN calls = 1..n /\ calls \in Seq(CallType)
      /\ pool \subseteq 1..n
  BY <1>0, LenProperties DEF Inv, Shape, TypeOK, Number
<1>3. call.result = "none"
  OBVIOUS
<1> HIDE DEF call
<1>4. /\ DOMAIN calls' = 1..(n + 1) /\ Number' = n + 1
      /\ \A j \in 1..n : calls'[j] = calls[j]
      /\ calls'[n + 1] = call
  <2>1. Len(calls) = n /\ Len(calls') = n + 1
    BY <1>0, <1>1, <1>2 DEF Number
  <2> QED
    BY <1>1, <1>2, <2>1 DEF Number
<1>5. \A i : Landed(i)' <=> Landed(i)
  BY <1>1 DEF Landed
<1>6. ASSUME NEW j \in 1..n
      PROVE  /\ j \in DOMAIN calls /\ j # n + 1
             /\ Fate(j)' = Fate(j)
             /\ Answer(calls'[j].result) = Answer(calls[j].result)
  <2>1. j # n + 1
    BY <1>2
  <2>2. calls'[j] = calls[j] /\ j # Number' /\ phase \notin Fresh
    BY <1>1, <1>4, <2>1 DEF Fresh
  <2>3. Fate(j)' = Fate(j)
    BY <1>1, <1>5, <2>2 DEF Fate
  <2> QED
    BY <1>2, <2>1, <2>2, <2>3
<1>7. Fate(n + 1)' = "open" /\ Answer(calls'[n + 1].result) = "none"
  <2>1. ~Landed(n + 1)
    <3>1. \A k \in DOMAIN chain : chain[k].call \in 1..n
      BY <1>2 DEF Inv, Shape, TypeOK
    <3> QED
      BY <1>2, <3>1 DEF Landed
  <2>2. Fate(n + 1)' = "open"
    BY <1>1, <1>4, <1>5, <2>1 DEF Fate, Fresh
  <2>3. Answer(calls'[n + 1].result) = "none"
    BY <1>3, <1>4 DEF Answer
  <2> QED
    BY <2>2, <2>3
<1>8. DOMAIN calls' = DOMAIN calls \cup {n + 1} /\ n + 1 \notin DOMAIN calls
  BY <1>2, <1>4
<1>9. [i \in DOMAIN calls' |-> Fate(i)']
        = [j \in DOMAIN calls \cup {n + 1} |->
              IF j = n + 1 THEN "open" ELSE [i \in DOMAIN calls |-> Fate(i)][j]]
  BY <1>2, <1>6, <1>7, <1>8
<1>10. [i \in DOMAIN calls' |-> Answer(calls'[i].result)]
        = [j \in DOMAIN calls \cup {n + 1} |->
              IF j = n + 1 THEN "none"
              ELSE [i \in DOMAIN calls |-> Answer(calls[i].result)][j]]
  <2> DEFINE before == [i \in DOMAIN calls |-> Answer(calls[i].result)]
             after == [i \in DOMAIN calls' |-> Answer(calls'[i].result)]
  <2>1. \A j \in 1..n : after[j] = before[j] /\ j # n + 1
    BY <1>2, <1>6, <1>8
  <2>2. after[n + 1] = "none"
    BY <1>7, <1>8
  <2>3. after = [j \in DOMAIN calls' |-> after[j]]
    OBVIOUS
  <2> HIDE DEF before, after
  <2>4. after = [j \in DOMAIN calls \cup {n + 1} |->
                   IF j = n + 1 THEN "none" ELSE before[j]]
    BY <1>2, <1>8, <2>1, <2>2, <2>3
  <2> QED
    BY <2>4 DEF before, after
<1>11. ASSUME WaitsForExpiry, NEW i \in DOMAIN calls
       PROVE  Fate(i) \in {"failed", "void"}
  <2>1. /\ \A k \in DOMAIN chain : ~chain[k].ok
        /\ clock > calls[i].maxTime
    BY <1>1, <1>11 DEF Inv, Timely
  <2>2. ~(clock <= calls[i].maxTime)
    BY <2>1 DEF Inv, Shape, TypeOK
  <2> QED
    BY <1>1, <2>1, <2>2 DEF Fate, Fresh
<1> QED
  BY <1>8, <1>9, <1>10, <1>11 DEF Attempt!Begin, Attempt!Extended, Attempt!Attempted

(* The calls of the SDK implement attempts: each is decided once, however  *)
(* mempool, time bounds and polls race, no result says more than the chain *)
(* bears out for good, and an operator who waits for expiry makes a new    *)
(* call only after calls that can have no effect any more.                 *)
THEOREM AttemptsTheorem == Spec => ImplementsAttempts
<1>1. Init => Attempt!Init
  <2> SUFFICES ASSUME Init PROVE Attempt!Init
    OBVIOUS
  <2>1. DOMAIN calls = {}
    BY DEF Init
  <2> QED
    BY <2>1 DEF Attempt!Init, Attempt!Nobody
<1>2. Inv /\ AnswersAgree' /\ [Next]_vars => [Attempt!Next]_Attempt!attemptVars
  <2> SUFFICES ASSUME Inv, AnswersAgree', [Next]_vars
               PROVE  [Attempt!Next]_Attempt!attemptVars
    OBVIOUS
  <2>1. CASE UNCHANGED vars
    BY <2>1 DEF vars, Attempt!attemptVars, Fate, Landed, Number
  <2>2. CASE Next
    BY <2>2, OnwardStep, BeginStep, ProceedStep DEF Attempt!Next
  <2> QED
    BY <2>1, <2>2
<1> QED
  BY <1>1, <1>2, InvInvariant, AnswersTrue, PTL
  DEF Spec, ImplementsAttempts, Attempt!Spec
=============================================================================
