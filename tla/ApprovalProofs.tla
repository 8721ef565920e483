--------------------------- MODULE ApprovalProofs ---------------------------
(***************************************************************************)
(* Theorems about what approvers see, for any operations, approvers,       *)
(* networks and number of calls.                                           *)
(*                                                                         *)
(* The argument: a request's stash, when it has one, and its shared        *)
(* envelope are the very envelope that was hashed, and requests are never  *)
(* changed; so what an approver decoded from an envelope whose hash is the *)
(* request's stays the decoding of what is signed, whichever envelope that *)
(* was and whatever is requested meanwhile.                                *)
(*                                                                         *)
(* For the notes: a method has one argument, or up to three of short       *)
(* names, so that its arguments print on at most 201 characters, behind a  *)
(* head of at most 42; 243 is under the 247 a truncated note keeps.        *)
(***************************************************************************)
EXTENDS Approval, Integers, SequenceTheorems, TLAPS

USE ApprovalAssumption

Requests == [content : Envelopes \X {Network},
             stash : Envelopes \cup {Nothing},
             shared : Envelopes]

Genuine(request) ==
    /\ request.stash = Nothing \/ request.content = <<request.stash, Network>>
    /\ request.content[1].op.type \in Simulated =>
           request.content[1].assembled

About(pair) == \E q, m \in DOMAIN requests : pair = <<q, m>>

\* Requests hash what they carry; desks hold what was looked at.
Shape ==
    /\ requests \in Seq(Requests)
    /\ Len(requests) <= MaxCalls
    /\ \A q \in DOMAIN requests : Genuine(requests[q])
    /\ refused \subseteq Operations
    /\ DOMAIN desk = Approvers /\ desk = [a \in Approvers |-> desk[a]]
    /\ \A pair \in approved : About(pair)

DeskOK(a) ==
    /\ desk[a].request \in 0..Len(requests)
    /\ desk[a].verdict \in Verdicts
    /\ desk[a].verdict # "none" => desk[a].request > 0
    /\ desk[a].verdict = "verified" =>
           LET signed == requests[desk[a].request].content
           IN  /\ desk[a].shown = FormatOperation(signed[1].op)
               /\ desk[a].network = DescribeNetwork(signed[2])
    /\ desk[a].verdict = "tamper" => desk[a].network # Network

Inv == Shape /\ \A a \in Approvers : DeskOK(a)

\* Two operations an approver cannot tell apart are the same.
DecodedApart ==
    \A op, other \in Operations :
        FormatOperation(op) = FormatOperation(other) => op = other

LEMMA InitInv == Init => Inv
<1> SUFFICES ASSUME Init PROVE Inv
  OBVIOUS
<1>1. requests = << >> /\ Len(requests) = 0 /\ DOMAIN requests = {}
  BY DEF Init
<1>2. Shape
  BY <1>1 DEF Init, Shape
<1>3. ASSUME NEW a \in Approvers PROVE DeskOK(a)
  BY <1>1 DEF Init, DeskOK, EmptyDesk, Verdicts
<1> QED
  BY <1>2, <1>3 DEF Inv

LEMMA EnvelopeType ==
    ASSUME NEW op \in Operations, NEW k \in 1..MaxCalls
    PROVE  LET e == SimulateAndPrepare([op |-> op, assembled |-> FALSE,
                                        call |-> k])
           IN  /\ e \in Envelopes
               /\ e.op.type \in Simulated => e.assembled
<1> DEFINE raw == [op |-> op, assembled |-> FALSE, call |-> k]
           e == SimulateAndPrepare(raw)
           b == op.type \in Simulated
<1>1. e = [raw EXCEPT !.assembled = b]
  BY DEF SimulateAndPrepare
<1>2. b \in BOOLEAN
  OBVIOUS
<1> HIDE DEF b
<1>3. [raw EXCEPT !.assembled = b] = [op |-> op, assembled |-> b, call |-> k]
  OBVIOUS
<1>4. e.op = op /\ e.assembled = b /\ e \in Envelopes
  BY <1>1, <1>2, <1>3 DEF Envelopes
<1> QED
  BY <1>4 DEF b

\* What is requested is added; what was requested stays.
LEMMA SubmitStep ==
    ASSUME Inv, NEW op \in Operations, NEW stashes \in BOOLEAN,
           Submit(op, stashes)
    PROVE  Inv'
<1> DEFINE e == SimulateAndPrepare([op |-> op, assembled |-> FALSE,
                                    call |-> Len(requests) + 1])
           new == [content |-> Hash(e, Network),
                   stash |-> IF stashes THEN EnvelopeXdr(e) ELSE Nothing,
                   shared |-> EnvelopeXdr(e)]
<1>1. /\ Len(requests) < MaxCalls /\ requests' = Append(requests, new)
      /\ UNCHANGED <<refused, desk, approved>>
  BY DEF Submit
<1>2. requests \in Seq(Requests) /\ Len(requests) \in Nat
  BY DEF Inv, Shape
<1>3. /\ e \in Envelopes
      /\ e.op.type \in Simulated => e.assembled
  BY <1>1, <1>2, EnvelopeType
<1> HIDE DEF e
<1>4. new \in Requests /\ Genuine(new)
  BY <1>3 DEF Requests, Genuine, Hash, EnvelopeXdr
<1> HIDE DEF new
<1>5. /\ requests' \in Seq(Requests) /\ Len(requests') = Len(requests) + 1
      /\ \A q \in 1..Len(requests) : requests'[q] = requests[q]
      /\ requests'[Len(requests) + 1] = new
  BY <1>1, <1>2, <1>4, AppendProperties
<1>6. /\ DOMAIN requests = 1..Len(requests)
      /\ DOMAIN requests' = 1..(Len(requests) + 1)
  BY <1>2, <1>5
<1>7. \A q \in DOMAIN requests' : Genuine(requests'[q])
  BY <1>2, <1>4, <1>5, <1>6 DEF Inv, Shape
<1>8. Shape'
  <2>1. \A pair \in approved' : About(pair)'
    BY <1>1, <1>2, <1>6 DEF Inv, Shape, About
  <2>2. \A q \in DOMAIN requests' : Genuine(requests[q])'
    BY <1>7 DEF Genuine
  <2>3. desk' = [a \in Approvers |-> desk'[a]] /\ DOMAIN desk' = Approvers
    BY <1>1 DEF Inv, Shape
  <2> QED
    BY <1>1, <1>2, <1>5, <2>1, <2>2, <2>3 DEF Inv, Shape
<1>9. ASSUME NEW a \in Approvers PROVE DeskOK(a)'
  <2>1. DeskOK(a) /\ desk'[a] = desk[a]
    BY <1>1 DEF Inv
  <2>2. desk[a].request > 0 => requests'[desk[a].request] =
                                 requests[desk[a].request]
    BY <1>2, <1>5, <2>1 DEF DeskOK
  <2> QED
    BY <1>2, <1>5, <2>1, <2>2 DEF DeskOK
<1> QED
  BY <1>8, <1>9 DEF Inv

\* A desk laid with what was looked at, or cleared.
LEMMA DeskStep ==
    ASSUME Inv, NEW a \in Approvers, NEW d,
           desk' = [desk EXCEPT ![a] = d], UNCHANGED <<requests, refused>>,
           \A pair \in approved' : About(pair),
           d.request \in 0..Len(requests), d.verdict \in Verdicts,
           d.verdict # "none" => d.request > 0,
           d.verdict = "verified" =>
               LET signed == requests[d.request].content
               IN  /\ d.shown = FormatOperation(signed[1].op)
                   /\ d.network = DescribeNetwork(signed[2]),
           d.verdict = "tamper" => d.network # Network
    PROVE  Inv'
<1>1. DOMAIN desk = Approvers /\ desk = [u \in Approvers |-> desk[u]]
  BY DEF Inv, Shape
<1>2. /\ DOMAIN desk' = Approvers /\ desk' = [u \in Approvers |-> desk'[u]]
      /\ desk'[a] = d
      /\ \A u \in Approvers : u # a => desk'[u] = desk[u]
  BY <1>1
<1>3. Shape'
  BY <1>2 DEF Inv, Shape, Genuine, About
<1>4. ASSUME NEW u \in Approvers PROVE DeskOK(u)'
  <2>1. CASE u = a
    BY <1>2, <2>1 DEF DeskOK
  <2>2. CASE u # a
    BY <1>2, <2>2 DEF Inv, DeskOK
  <2> QED
    BY <2>1, <2>2
<1> QED
  BY <1>3, <1>4 DEF Inv

LEMMA LayStep ==
    ASSUME Inv, NEW a \in Approvers, NEW q \in DOMAIN requests,
           NEW verdict \in Verdicts, NEW envelope, NEW n \in ApproverNetworks,
           Lay(a, q, verdict, envelope, n),
           verdict = "verified" =>
               HashesAgree(envelope, n, requests[q].content),
           verdict = "tamper" => n # Network
    PROVE  Inv'
<1> DEFINE d == [request |-> q, verdict |-> verdict,
                 shown |-> IF verdict = "verified"
                           THEN FormatOperation(envelope.op) ELSE Nothing,
                 network |-> DescribeNetwork(n)]
<1>1. /\ desk' = [desk EXCEPT ![a] = d]
      /\ UNCHANGED <<requests, refused, approved>>
  BY DEF Lay
<1>2. requests \in Seq(Requests)
  BY DEF Inv, Shape
<1>3. q \in 0..Len(requests) /\ q > 0
  BY <1>2
<1>4. verdict = "verified" => requests[q].content = <<envelope, n>>
  BY DEF HashesAgree, Hash
<1>5. verdict = "verified" =>
          /\ d.shown = FormatOperation(requests[q].content[1].op)
          /\ d.network = DescribeNetwork(requests[q].content[2])
  BY <1>4
<1>6. verdict = "tamper" => d.network # Network
  BY DEF DescribeNetwork
<1>7. \A pair \in approved' : About(pair)
  BY <1>1 DEF Inv, Shape
<1>8. d.request = q /\ d.verdict = verdict
  OBVIOUS
<1> HIDE DEF d
<1> QED
  BY <1>1, <1>3, <1>5, <1>6, <1>7, <1>8, DeskStep

LEMMA InspectStep ==
    ASSUME Inv, NEW a \in Approvers, NEW q \in DOMAIN requests,
           NEW n \in ApproverNetworks, Inspect(a, q, n)
    PROVE  Inv'
<1>1. Genuine(requests[q])
  BY DEF Inv, Shape
<1>2. requests[q].stash # Nothing
      /\ ~HashesAgree(requests[q].stash, n, requests[q].content)
          => n # Network
  BY <1>1 DEF Genuine, HashesAgree, Hash
<1>3. {"limited", "verified", "tamper"} \subseteq Verdicts
  BY DEF Verdicts
<1> QED
  BY <1>2, <1>3, LayStep DEF Inspect

LEMMA VerifyStep ==
    ASSUME Inv, NEW a \in Approvers, NEW s \in DOMAIN requests,
           NEW n \in ApproverNetworks, VerifyEnvelope(a, s, n)
    PROVE  Inv'
<1> DEFINE q == desk[a].request
<1>1. desk[a].verdict \in {"limited", "differs"}
  BY DEF VerifyEnvelope
<1>2. requests \in Seq(Requests)
  BY DEF Inv, Shape
<1>3. q \in DOMAIN requests
  BY <1>1, <1>2 DEF Inv, DeskOK
<1>4. {"differs", "verified"} \subseteq Verdicts
  BY DEF Verdicts
<1> QED
  BY <1>3, <1>4, LayStep DEF VerifyEnvelope

LEMMA ApproveStep ==
    ASSUME Inv, NEW a \in Approvers, NEW m \in DOMAIN requests, Approve(a, m)
    PROVE  Inv'
<1>1. requests \in Seq(Requests) /\ DeskOK(a)
  BY DEF Inv, Shape
<1>2. desk[a].request \in DOMAIN requests
  BY <1>1 DEF Approve, DeskOK
<1>3. \A pair \in approved' : About(pair)
  BY <1>2 DEF Approve, Inv, Shape, About
<1>4. /\ desk' = [desk EXCEPT ![a] = EmptyDesk]
      /\ UNCHANGED <<requests, refused>>
  BY DEF Approve
<1>5. EmptyDesk.request = 0 /\ EmptyDesk.verdict = "none"
  BY DEF EmptyDesk
<1>6. 0 \in 0..Len(requests) /\ "none" \in Verdicts
  BY <1>1 DEF Verdicts
<1> QED
  BY <1>3, <1>4, <1>5, <1>6, DeskStep

LEMMA InvStep == Inv /\ [Next]_vars => Inv'
<1> SUFFICES ASSUME Inv, [Next]_vars PROVE Inv'
  OBVIOUS
<1>1. ASSUME NEW op \in Operations, Refuse(op) PROVE Inv'
  BY <1>1 DEF Refuse, Inv, Shape, Genuine, About, DeskOK
<1>2. CASE UNCHANGED vars
  BY <1>2 DEF vars, Inv, Shape, Genuine, About, DeskOK
<1> QED
  BY <1>1, <1>2, SubmitStep, InspectStep, VerifyStep, ApproveStep DEF Next

LEMMA InvInvariant == Spec => []Inv
BY InitInv, InvStep, PTL DEF Spec

-----------------------------------------------------------------------------
(* The theorems.                                                           *)

(* Requests, desks and approvals stay in their types: what was simulated   *)
(* is signed assembled, and a verdict is about a request that exists.      *)
THEOREM ApprovalTypes == Spec => []TypeOK
<1>1. ASSUME Inv PROVE TypeOK
  <2>1. requests \in Seq(Requests) /\ Len(requests) <= MaxCalls
    BY <1>1 DEF Inv, Shape
  <2>2. ASSUME NEW q \in DOMAIN requests
        PROVE  /\ requests[q].content \in Envelopes \X {Network}
               /\ requests[q].stash \in Envelopes \cup {Nothing}
               /\ requests[q].shared \in Envelopes
               /\ requests[q].content[1].op.type \in Simulated =>
                      requests[q].content[1].assembled
    <3>1. requests[q] \in Requests /\ Genuine(requests[q])
      BY <1>1, <2>1 DEF Inv, Shape
    <3> QED
      BY <3>1 DEF Requests, Genuine
  <2>3. ASSUME NEW a \in Approvers
        PROVE  /\ desk[a].request \in 0..Len(requests)
               /\ desk[a].verdict \in Verdicts
               /\ desk[a].verdict \in {"tamper", "verified"} =>
                      desk[a].request > 0
    BY <1>1 DEF Inv, DeskOK
  <2>4. approved \subseteq (1..MaxCalls) \X (1..MaxCalls)
    <3>1. DOMAIN requests \subseteq 1..MaxCalls
      BY <2>1
    <3>2. \A pair \in approved : About(pair)
      BY <1>1 DEF Inv, Shape
    <3>3. \A q, m \in 1..MaxCalls : <<q, m>> \in (1..MaxCalls) \X (1..MaxCalls)
      OBVIOUS
    <3> QED
      BY <3>1, <3>2, <3>3 DEF About
  <2>5. refused \subseteq Operations
    BY <1>1 DEF Inv, Shape
  <2> QED
    BY <2>1, <2>2, <2>3, <2>4, <2>5 DEF TypeOK
<1>2. Inv => TypeOK
  BY <1>1
<1> QED
  BY <1>2, InvInvariant, PTL

(* What fb-tx-inspect or verify-envelope lets an approver take for         *)
(* verified is the decoding of what will be signed, on the network it is   *)
(* signed for.                                                             *)
THEOREM VerifiedTheorem == Spec => []VerifiedIsSigned
<1>1. Inv => VerifiedIsSigned
  BY DEF Inv, DeskOK, VerifiedIsSigned
<1> QED
  BY <1>1, InvInvariant, PTL

(* fb-tx-inspect run for the network of the request never takes a request  *)
(* of this SDK for tampered with.                                          *)
THEOREM NoFalseAlarmTheorem == Spec => []NoFalseAlarm
<1>1. Inv => NoFalseAlarm
  BY DEF Inv, DeskOK, NoFalseAlarm
<1> QED
  BY <1>1, InvInvariant, PTL

(* An approval signs the operation its approver meant, provided that the   *)
(* tools decode different operations differently.                          *)
THEOREM DescribedTheorem ==
    DecodedApart => (Spec => []ApprovedIsDescribed)
<1> SUFFICES ASSUME DecodedApart PROVE Spec => []ApprovedIsDescribed
  OBVIOUS
<1>1. Init => ApprovedIsDescribed
  BY DEF Init, ApprovedIsDescribed
<1>2. ASSUME Inv, ApprovedIsDescribed, [Next]_vars
      PROVE  ApprovedIsDescribed'
  <2>1. requests \in Seq(Requests)
    BY <1>2 DEF Inv, Shape
  <2>2. ASSUME NEW q \in DOMAIN requests
        PROVE  requests[q].content[1].op \in Operations
    <3>1. requests[q] \in Requests
      BY <2>1
    <3>2. requests[q].content[1] \in Envelopes
      BY <3>1 DEF Requests
    <3> QED
      BY <3>2 DEF Envelopes
  <2>3. \A pair \in approved : /\ pair[1] \in DOMAIN requests
                               /\ pair[2] \in DOMAIN requests
    BY <1>2 DEF Inv, Shape, About
  <2>4. ASSUME approved' = approved,
               \A q \in DOMAIN requests : requests'[q] = requests[q]
        PROVE  ApprovedIsDescribed'
    BY <1>2, <2>3, <2>4 DEF ApprovedIsDescribed
  <2>5. ASSUME NEW op \in Operations, NEW stashes \in BOOLEAN,
               Submit(op, stashes)
        PROVE  ApprovedIsDescribed'
    <3>1. /\ approved' = approved
          /\ \A q \in DOMAIN requests : requests'[q] = requests[q]
      BY <2>1, <2>5 DEF Submit
    <3> QED
      BY <2>4, <3>1
  <2>6. ASSUME NEW a \in Approvers, NEW m \in DOMAIN requests, Approve(a, m)
        PROVE  ApprovedIsDescribed'
    <3> DEFINE q == desk[a].request
    <3>1. /\ desk[a].verdict = "verified" /\ requests' = requests
          /\ desk[a].shown = FormatOperation(requests[m].content[1].op)
          /\ approved' = approved \cup {<<q, m>>}
      BY <2>6 DEF Approve
    <3>2. DeskOK(a)
      BY <1>2 DEF Inv
    <3>3. /\ q \in DOMAIN requests
          /\ FormatOperation(requests[q].content[1].op) =
                 FormatOperation(requests[m].content[1].op)
      BY <2>1, <3>1, <3>2 DEF DeskOK
    <3>4. requests[q].content[1].op = requests[m].content[1].op
      BY <2>2, <3>3 DEF DecodedApart
    <3> QED
      BY <1>2, <3>1, <3>4 DEF ApprovedIsDescribed
  <2>7. ASSUME NEW a \in Approvers, NEW s \in DOMAIN requests,
               NEW n \in ApproverNetworks,
               Inspect(a, s, n) \/ VerifyEnvelope(a, s, n)
        PROVE  ApprovedIsDescribed'
    BY <2>4, <2>7 DEF Inspect, VerifyEnvelope, Lay
  <2>8. ASSUME NEW op \in Operations, Refuse(op)
        PROVE  ApprovedIsDescribed'
    BY <2>4, <2>8 DEF Refuse
  <2>9. CASE UNCHANGED vars
    BY <2>4, <2>9 DEF vars
  <2> QED
    BY <1>2, <2>5, <2>6, <2>7, <2>8, <2>9 DEF Next
<1>3. Inv /\ ApprovedIsDescribed /\ [Next]_vars => ApprovedIsDescribed'
  BY <1>2
<1> QED
  BY <1>1, <1>3, InvInvariant, PTL DEF Spec

-----------------------------------------------------------------------------
(* Notes.                                                                  *)

(* What FoldFunction computes of up to three numbers.  It chooses a        *)
(* function that is equal to its own definition by recursion; the sums     *)
(* over all sets of up to three are one, and so it is one that sums.       *)
Part(f, s, i) == IF i \in s THEN f[i] ELSE 0
Rest(s) == s \ {CHOOSE x \in s : TRUE}
Body(f, g, s) == IF s = {} THEN 0 ELSE f[CHOOSE x \in s : TRUE] + g[Rest(s)]
Fold(f, S) == CHOOSE g : g = [s \in SUBSET S |-> Body(f, g, s)]

LEMMA FoldIs ==
    ASSUME NEW f, NEW S
    PROVE  FoldFunctionOnSet(LAMBDA n, m : n + m, 0, f, S) = Fold(f, S)[S]
  BY DEF FoldFunctionOnSet, MapThenFoldSet, Fold, Body, Rest

LEMMA FoldShort ==
    ASSUME NEW S \in SUBSET {1, 2, 3}, NEW f, \A i \in S : f[i] \in Nat
    PROVE  Fold(f, S)[S] = Part(f, S, 1) + Part(f, S, 2) + Part(f, S, 3)
<1> DEFINE Sum(s) == Part(f, s, 1) + Part(f, s, 2) + Part(f, s, 3)
           h == [s \in SUBSET S |-> Sum(s)]
<1>1. ASSUME NEW s \in SUBSET S, s # {}
      PROVE  /\ Rest(s) \in SUBSET S
             /\ Sum(s) = f[CHOOSE x \in s : TRUE] + Sum(Rest(s))
  <2>1. PICK x \in s : x = (CHOOSE y \in s : TRUE)
    BY <1>1
  <2>2. Rest(s) = s \ {x} /\ x \in {1, 2, 3}
    BY <2>1 DEF Rest
  <2>3. \A i \in {1, 2, 3} : /\ Part(f, s, i) \in Nat
                              /\ Part(f, s \ {x}, i) = IF i = x THEN 0
                                                       ELSE Part(f, s, i)
    BY <2>1, <2>2 DEF Part
  <2>4. Part(f, s, x) = f[x]
    BY DEF Part
  <2>5. Sum(s) = f[x] + Sum(s \ {x})
    BY <2>2, <2>3, <2>4
  <2> QED
    BY <2>1, <2>2, <2>5
<1>2. h = [s \in SUBSET S |-> Body(f, h, s)]
  BY <1>1 DEF Body, Part
<1>3. Fold(f, S) = [s \in SUBSET S |-> Body(f, Fold(f, S), s)]
  BY <1>2 DEF Fold
<1> DEFINE g == Fold(f, S)
<1>4. /\ g[{}] = 0
      /\ \A s \in SUBSET S : s # {} =>
             g[s] = f[CHOOSE x \in s : TRUE] + g[Rest(s)]
  <2> HIDE DEF g
  <2> QED
    BY <1>3 DEF Body, g
<1> HIDE DEF g, Sum
<1>5. Sum({}) = 0
  BY DEF Sum, Part
<1>6. ASSUME NEW s \in SUBSET S, s # {}, g[Rest(s)] = Sum(Rest(s))
      PROVE  g[s] = Sum(s)
  BY <1>1, <1>4, <1>6
<1>7. ASSUME NEW i \in S PROVE g[{i}] = Sum({i})
  <2>1. Rest({i}) = {}
    BY DEF Rest
  <2> QED
    BY <1>4, <1>5, <1>6, <2>1
<1>8. ASSUME NEW i \in S, NEW j \in S PROVE g[{i, j}] = Sum({i, j})
  <2>1. Rest({i, j}) \in {{}, {i}, {j}}
    BY DEF Rest
  <2> QED
    BY <1>4, <1>5, <1>6, <1>7, <2>1
<1>9. ASSUME NEW i \in S, NEW j \in S, NEW k \in S
      PROVE  g[{i, j, k}] = Sum({i, j, k})
  <2>1. PICK x \in {i, j, k} : x = (CHOOSE y \in {i, j, k} : TRUE)
    OBVIOUS
  <2>2. Rest({i, j, k}) \in {{}, {i}, {j}, {k}, {i, j}, {i, k}, {j, k}}
    BY <2>1 DEF Rest
  <2>3. g[Rest({i, j, k})] = Sum(Rest({i, j, k}))
    <3>1. /\ g[{}] = Sum({}) /\ g[{i}] = Sum({i}) /\ g[{j}] = Sum({j})
          /\ g[{k}] = Sum({k}) /\ g[{i, j}] = Sum({i, j})
          /\ g[{i, k}] = Sum({i, k}) /\ g[{j, k}] = Sum({j, k})
      BY <1>4, <1>5, <1>7, <1>8
    <3> QED
      BY <2>2, <3>1
  <2>4. {i, j, k} \in SUBSET S /\ {i, j, k} # {}
    OBVIOUS
  <2> QED
    BY <1>6, <2>3, <2>4
<1>10. S = {} \/ \E i, j, k \in S : S = {i, j, k}
  <2>1. S \in {{}, {1}, {2}, {3}, {1, 2}, {1, 3}, {2, 3}, {1, 2, 3}}
    <3>1. S = {i \in {1, 2, 3} : i \in S}
      OBVIOUS
    <3>2. CASE 1 \in S
      <4>1. CASE 2 \in S
        BY <3>2, <4>1
      <4>2. CASE 2 \notin S
        BY <3>2, <4>2
      <4> QED
        BY <4>1, <4>2
    <3>3. CASE 1 \notin S
      <4>1. CASE 2 \in S
        BY <3>3, <4>1
      <4>2. CASE 2 \notin S
        BY <3>3, <4>2
      <4> QED
        BY <4>1, <4>2
    <3> QED
      BY <3>2, <3>3
  <2>2. \A i, j, k : {i, i, i} = {i} /\ {i, j, j} = {i, j}
    OBVIOUS
  <2> QED
    BY <2>1, <2>2
<1>11. g[S] = Sum(S)
  <2>1. CASE S = {}
    BY <1>4, <1>5, <2>1
  <2>2. ASSUME NEW i \in S, NEW j \in S, NEW k \in S, S = {i, j, k}
        PROVE  g[S] = Sum(S)
    <3>1. g[{i, j, k}] = Sum({i, j, k})
      BY <1>9
    <3> QED
      BY <2>2, <3>1
  <2> QED
    BY <1>10, <2>1, <2>2
<1> QED
  BY <1>11 DEF g, Sum

ShortWords == {"to", "from", "amount", "first", "last", "users_count"}
Words == {"rate_bps", "new_minter", "new_admin", "new_yrm", "new_ftm",
          "new_pauser", "new_yield_recipient", "new_sac_admin",
          "new_wasm_hash", "user", "addr", "amount"}

\* Of one argument, or of up to three whose words are short.
Brief(args) ==
    \/ args = << >>
    \/ \E a \in Words : args = <<a>>
    \/ \E a, b \in ShortWords : args = <<a, b>>
    \/ \E a, b, c \in ShortWords : args = <<a, b, c>>

LEMMA NotesAreBrief ==
    ASSUME NEW method \in DOMAIN NoteArguments
    PROVE  Brief(NoteArguments[method])
<1>1. /\ Brief(<< >>)
      /\ \A a \in Words : Brief(<<a>>)
      /\ \A a, b \in ShortWords : Brief(<<a, b>>)
      /\ \A a, b, c \in ShortWords : Brief(<<a, b, c>>)
  BY DEF Brief
<1>2. ASSUME method \in DOMAIN SettingArguments
      PROVE  Brief(SettingArguments[method])
  <2>1. \/ SettingArguments[method] \in {<<"to", "amount">>, <<"from", "amount">>}
        \/ \E a \in Words : SettingArguments[method] = <<a>>
    BY <1>2 DEF SettingArguments, Words
  <2> QED
    BY <1>1, <2>1 DEF ShortWords
<1>3. ASSUME method \in DOMAIN HolderArguments
      PROVE  Brief(HolderArguments[method])
  <2>1. \/ HolderArguments[method] \in
               {<< >>, <<"user">>, <<"amount">>,
                <<"users_count", "first", "last">>, <<"from", "to", "amount">>}
    BY <1>3 DEF HolderArguments
  <2> QED
    BY <1>1, <2>1 DEF ShortWords, Words
<1>4. ASSUME method \in DOMAIN OperatorArguments
      PROVE  Brief(OperatorArguments[method])
  <2>1. OperatorArguments[method] = <<"addr">>
    BY <1>4 DEF OperatorArguments
  <2> QED
    BY <1>1, <2>1 DEF Words
<1> QED
  BY <1>2, <1>3, <1>4 DEF NoteArguments

\* What one argument takes of a note.
Cost(a, digits) == Len(ArgumentFrame) + Len(a) + ValueLength(a, digits)

LEMMA CostBounded ==
    ASSUME NEW digits \in Digits
    PROVE  /\ \A a \in Words : Cost(a, digits) \in 1..88
           /\ \A a \in ShortWords : Cost(a, digits) \in 1..67
<1>1. digits \in 1..39
  OBVIOUS
<1>2. \A a : ValueLength(a, digits) \in 1..64
  BY <1>1 DEF ValueLength, AddressLength
<1>3. \A a \in ShortWords : /\ ValueLength(a, digits) \in 1..56
                            /\ a = "users_count" => ValueLength(a, digits) = 2
  BY <1>1 DEF ValueLength, AddressLength, ShortWords
<1>4. \A a \in Words : Len(a) \in 1..19
  BY WordsAssumption DEF Words
<1>5. \A a \in ShortWords : Len(a) \in 1..6 \/ (a = "users_count" /\ Len(a) = 11)
  BY WordsAssumption DEF ShortWords
<1>6. Len(ArgumentFrame) = 5
  BY WordsAssumption
<1>7. \A l \in 1..19, v \in 1..64 : 5 + l + v \in 1..88
  OBVIOUS
<1>8. /\ \A l \in 1..6, v \in 1..56 : 5 + l + v \in 1..67
      /\ 5 + 11 + 2 \in 1..67
  OBVIOUS
<1>9. \A a \in Words : Cost(a, digits) \in 1..88
  BY <1>2, <1>4, <1>6, <1>7 DEF Cost
<1>10. \A a \in ShortWords : Cost(a, digits) \in 1..67
  <2> SUFFICES ASSUME NEW a \in ShortWords PROVE Cost(a, digits) \in 1..67
    OBVIOUS
  <2>1. CASE Len(a) \in 1..6
    BY <2>1, <1>3, <1>6, <1>8 DEF Cost
  <2>2. CASE a = "users_count" /\ Len(a) = 11
    BY <2>2, <1>3, <1>6, <1>8 DEF Cost
  <2> QED
    BY <2>1, <2>2, <1>5
<1> QED
  BY <1>9, <1>10

LEMMA ArgumentsBounded ==
    ASSUME NEW method \in DOMAIN NoteArguments, NEW digits \in Digits
    PROVE  ArgumentsLength(method, digits) \in 0..201
<1> DEFINE args == NoteArguments[method]
           S == DOMAIN args
           f == [i \in S |-> Len(ArgumentFrame) + Len(args[i])
                             + ValueLength(args[i], digits)]
<1>1. Brief(args)
  BY NotesAreBrief
<1>2. /\ S \in SUBSET {1, 2, 3}
      /\ \A i \in S : Cost(args[i], digits) \in 1..88
      /\ S \subseteq {1} \/ \A i \in S : Cost(args[i], digits) \in 1..67
  <2> HIDE DEF args
  <2>1. \A n \in 1..67 : n \in 1..88
    OBVIOUS
  <2>2. \/ S = {}
        \/ S = {1} /\ args[1] \in Words
        \/ S \in {{1, 2}, {1, 2, 3}} /\ \A i \in S : args[i] \in ShortWords
    BY <1>1 DEF Brief
  <2> HIDE DEF S
  <2>3. CASE S = {}
    BY <2>3
  <2>4. CASE S = {1} /\ args[1] \in Words
    BY <2>4, CostBounded
  <2>5. CASE S \in {{1, 2}, {1, 2, 3}} /\ \A i \in S : args[i] \in ShortWords
    BY <2>1, <2>5, CostBounded
  <2> QED
    BY <2>2, <2>3, <2>4, <2>5
<1>3. \A i \in S : f[i] = Cost(args[i], digits)
  BY DEF Cost
<1>4. ArgumentsLength(method, digits) = Fold(f, S)[S]
  BY DEF ArgumentsLength, FoldFunction, FoldFunctionOnSet, MapThenFoldSet,
         Fold, Body, Rest
<1> HIDE DEF f, S, args
<1>5. Fold(f, S)[S] = Part(f, S, 1) + Part(f, S, 2) + Part(f, S, 3)
  BY <1>2, <1>3, FoldShort
<1>6. /\ \A i \in {1, 2, 3} : Part(f, S, i) \in 0..88
      /\ \/ Part(f, S, 2) = 0 /\ Part(f, S, 3) = 0
         \/ \A i \in {1, 2, 3} : Part(f, S, i) \in 0..67
  BY <1>2, <1>3 DEF Part
<1> QED
  BY <1>4, <1>5, <1>6

(* Truncation never reaches the method and the arguments in a note,        *)
(* whatever the amount, for every method of the wrappers: what is in front *)
(* of the contract's address is at most 243 characters long.               *)
THEOREM NoteTheorem == Spec => []NoteKeepsArguments
<1>1. ASSUME NEW method \in DOMAIN NoteArguments, NEW digits \in Digits
      PROVE  ArgumentsEnd(method, digits) <= KeptLength(method, digits)
  <2>1. HeadLength(method) \in 0..42
    <3>1. Len(Prefix) = 15 /\ Len(method) \in 1..27
      BY WordsAssumption
    <3>2. \A l \in 1..27 : 15 + l \in 0..42
      OBVIOUS
    <3> QED
      BY <3>1, <3>2 DEF HeadLength
  <2>2. ArgumentsLength(method, digits) \in 0..201
    BY ArgumentsBounded
  <2>3. ContractLength \in Nat /\ CallerLength \in Nat
    BY WordsAssumption DEF ContractLength, CallerLength, AddressLength
  <2>4. \A h \in 0..42, l \in 0..201, c, d \in Nat :
            /\ h + l <= h + l + c + d
            /\ h + l <= MaxNoteLength - 3
    BY DEF MaxNoteLength
  <2> QED
    BY <2>1, <2>2, <2>3, <2>4 DEF ArgumentsEnd, KeptLength, NoteLength
<1>2. ASSUME Inv PROVE NoteKeepsArguments
  <2>1. ASSUME NEW q \in DOMAIN requests
        PROVE  requests[q].content[1].op \in Operations
    <3>1. requests[q] \in Requests
      BY <1>2 DEF Inv, Shape
    <3>2. requests[q].content[1] \in Envelopes
      BY <3>1 DEF Requests
    <3> QED
      BY <3>2 DEF Envelopes
  <2> QED
    BY <1>1, <2>1, OperationsAssumption DEF NoteKeepsArguments
<1>3. Inv => NoteKeepsArguments
  BY <1>2
<1> QED
  BY <1>3, InvInvariant, PTL
=============================================================================
