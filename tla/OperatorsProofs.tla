--------------------------- MODULE OperatorsProofs ---------------------------
(***************************************************************************)
(* Theorems about the operator's command lines, for any commands, keys and *)
(* assets, any number of runs side by side and of transactions of others.  *)
(*                                                                         *)
(* The argument: between two ledgers without a successful transaction the  *)
(* gateway is the same (Quiet), so what a run read is still so when its    *)
(* transaction lands unless somebody else succeeded in between; and a      *)
(* transaction lands once at most (LandedOK), so what a run reads after its*)
(* own is its own work unless somebody else succeeded since.  What a run   *)
(* tells of its own transaction it has polled for (Told), and a ledger does*)
(* not change, which makes the runs attempts (Attempts).                   *)
(***************************************************************************)
EXTENDS Operators, SequenceTheorems, TLAPS

USE OperatorsAssumption

State == [admin : Keys, paused : BOOLEAN, blocked : SUBSET Keys,
          balance : [Keys -> Nat], domain : Domains,
          lines : SUBSET (Keys \X Assets), seq : [Keys -> Nat],
          run : 0..MaxRuns, ok : BOOLEAN]

Shape ==
    /\ ledgers \in Seq(State) /\ Len(ledgers) > 0
    /\ node \in DOMAIN ledgers /\ horizon \in DOMAIN ledgers
    /\ runs \in Seq(Commands) /\ Len(runs) <= MaxRuns
    /\ at \in Seq(Phases \cup Ends) /\ Len(at) = Len(runs)
    /\ base \in Seq(0..Len(ledgers)) /\ Len(base) = Len(runs)
    /\ number \in Seq(Nat) /\ Len(number) = Len(runs)
    /\ inFlight \subseteq DOMAIN runs

\* Two ledgers between which nothing of the gateway and the accounts differs.
Same(l, m) ==
    /\ l.admin = m.admin /\ l.paused = m.paused /\ l.blocked = m.blocked
    /\ l.balance = m.balance /\ l.domain = m.domain /\ l.lines = m.lines

Quiet ==
    \A i, j \in DOMAIN ledgers :
        /\ i <= j
        /\ \A k \in DOMAIN ledgers : i < k /\ k <= j => ~ledgers[k].ok
        => Same(ledgers[i], ledgers[j])

Trusted(l, c) ==
    c.tool = "trustlineSelf" =>
        <<c.key, NameOf[SacToken[c.arg]]>> \in l.lines

\* What the ledger says of a run whose transaction it has.
LandedOK(r) ==
    \A i \in LandedAt(r) :
        /\ r \notin inFlight /\ base[r] < i
        /\ at[r] \in {"poll", "postcheck", "error", "ok", "alarm", "unchecked"}
        /\ \A j \in LandedAt(r) : j = i
        /\ Trusted(ledgers[i], runs[r])
        /\ ledgers[i].ok => Done(ledgers[i], runs[r])
        /\ ~ledgers[i].ok => \E j \in OthersAfter(r, base[r]) : j < i

\* Ends and phases a run reaches without, and those it reaches only with,
\* its vault and its preflight passed.
PastVault == (Phases \cup Ends) \ {"vault", "refused", "unread"}
PastPreflight == PastVault \ {"preflight", "unchanged"}

Passed(r) ==
    /\ Tool(r) = "transferAdmin" /\ at[r] \in PastVault =>
           runs[r].signer = runs[r].key
    /\ at[r] \in PastPreflight /\ Tool(r) \in Preflighted => base[r] > 0
    /\ at[r] \in PastPreflight /\ Tool(r) \in Rotations =>
           ledgers[base[r]].admin = runs[r].key
    /\ at[r] \in PastPreflight /\ Tool(r) = "trustlineSelf" =>
           DerivedSacMatches(SacToken[runs[r].arg])

Built(r) ==
    /\ Tool(r) \notin ReadsHorizon => base[r] <= node
    /\ r \in inFlight => at[r] \in {"poll", "error"}
    /\ at[r] = "sign" \/ r \in inFlight =>
           /\ base[r] > 0
           /\ \E n \in DOMAIN ledgers :
                  /\ base[r] <= n \/ Tool(r) \in ReadsHorizon
                  /\ Simulates(ledgers[n], runs[r])

\* A postcheck follows the transaction of its run, one of Horizon a
\* successful one.
Seen(r) ==
    at[r] = "postcheck" =>
        /\ Tool(r) \in Postchecked
        /\ \E i \in LandedAt(r) :
               /\ i <= node
               /\ Tool(r) \in ReadsHorizon => ledgers[i].ok

Ended(r) ==
    /\ Tool(r) \in Postchecked /\ at[r] = "ok" =>
           \E i \in LandedAt(r), j \in DOMAIN ledgers :
               i <= j /\ Done(ledgers[j], runs[r])
    /\ Tool(r) \in Rotations /\ at[r] = "alarm" =>
           OthersAfter(r, base[r]) # {}

RunOK(r) == LandedOK(r) /\ Passed(r) /\ Built(r) /\ Seen(r) /\ Ended(r)

Owned == \A i \in DOMAIN ledgers : ledgers[i].run \in Run \cup {0}

Inv ==
    /\ Shape
    /\ Quiet
    /\ Owned
    /\ \A r \in Run : RunOK(r)
-----------------------------------------------------------------------------
(* Ledgers.                                                                *)

LEMMA SameMeans ==
    ASSUME NEW l, NEW m, Same(l, m), NEW c
    PROVE  /\ Simulates(l, c) <=> Simulates(m, c)
           /\ Done(l, c) <=> Done(m, c)
BY DEF Same, Simulates, Done

LEMMA EffectType ==
    ASSUME NEW l \in State, NEW c, Permitted(l, c), c.key \in Keys,
           c.arg \in ArgumentsOf(c.tool),
           c.tool = "trustlineSelf" => NameOf[SacToken[c.arg]] \in Assets
    PROVE  /\ Effect(l, c) \in State
           /\ Done(Effect(l, c), c) /\ Trusted(Effect(l, c), c)
<1> DEFINE admin == IF c.tool \in Rotations THEN c.arg ELSE l.admin
           paused == (c.tool = "pause") \/ (l.paused /\ c.tool # "unpause")
           blocked == IF c.tool = "block" THEN l.blocked \cup {c.arg}
                      ELSE l.blocked
                           \ {a \in Keys : c.tool = "unblock" /\ a = c.arg}
           balance == [k \in Keys |->
                 l.balance[k]
                     + (IF c.tool = "mint" /\ k = c.arg THEN 1 ELSE 0)
                     - (IF c.tool = "burn" /\ k = c.key THEN 1 ELSE 0)]
           domain == IF c.tool = "updateHomeDomain" THEN c.arg ELSE l.domain
           lines == l.lines
                    \cup (IF c.tool = "trustline" THEN {<<c.key, c.arg>>}
                          ELSE IF c.tool = "trustlineSelf"
                          THEN {<<c.key, NameOf[SacToken[c.arg]]>>}
                          ELSE {})
           e == [l EXCEPT !.admin = admin, !.paused = paused,
                          !.blocked = blocked, !.balance = balance,
                          !.domain = domain, !.lines = lines]
<1>1. Effect(l, c) = e
  BY DEF Effect
<1>2. /\ l.admin \in Keys /\ l.paused \in BOOLEAN /\ l.blocked \subseteq Keys
      /\ l.balance \in [Keys -> Nat] /\ l.domain \in Domains
      /\ l.lines \subseteq Keys \X Assets
  BY DEF State
<1>3. /\ c.tool \in Rotations \cup {"block"} => c.arg \in Keys
      /\ c.tool = "updateHomeDomain" => c.arg \in Domains
      /\ c.tool = "trustline" => c.arg \in Assets
  BY DEF ArgumentsOf, Rotations
<1>4. admin \in Keys /\ paused \in BOOLEAN /\ domain \in Domains
  BY <1>2, <1>3
<1>5. blocked \in SUBSET Keys
  BY <1>2, <1>3
<1>6. balance \in [Keys -> Nat]
  <2>1. c.tool = "burn" => l.balance[c.key] > 0
    BY DEF Permitted, Simulates
  <2>2. ASSUME NEW k \in Keys
        PROVE  l.balance[k]
                   + (IF c.tool = "mint" /\ k = c.arg THEN 1 ELSE 0)
                   - (IF c.tool = "burn" /\ k = c.key THEN 1 ELSE 0) \in Nat
    BY <1>2, <2>1
  <2> QED
    BY <2>2
<1>7. /\ lines \in SUBSET (Keys \X Assets)
      /\ c.tool = "trustlineSelf" =>
             <<c.key, NameOf[SacToken[c.arg]]>> \in lines
  BY <1>2, <1>3
<1>8. /\ c.tool \in Rotations => admin = c.arg
      /\ c.tool = "pause" => paused
      /\ c.tool = "unpause" => ~paused
      /\ c.tool = "updateHomeDomain" => domain = c.arg
  OBVIOUS
<1> HIDE DEF admin, paused, blocked, balance, domain, lines
<1>9. e \in State
  BY <1>4, <1>5, <1>6, <1>7 DEF State
<1>10. /\ e.admin = admin /\ e.paused = paused /\ e.domain = domain
       /\ e.lines = lines
  BY DEF State
<1>11. Done(e, c) /\ Trusted(e, c)
  BY <1>7, <1>8, <1>10 DEF Done, Trusted
<1> QED
  BY <1>1, <1>9, <1>11

\* A transaction of c that lands for run q.
LEMMA CloseEffect ==
    ASSUME Shape, NEW q \in 0..MaxRuns, NEW c, Close(q, c), c.key \in Keys,
           c.arg \in ArgumentsOf(c.tool),
           c.tool = "trustlineSelf" => NameOf[SacToken[c.arg]] \in Assets
    PROVE  \E new \in State :
               /\ ledgers' = Append(ledgers, new)
               /\ new.run = q
               /\ new.ok <=> Permitted(Last, c)
               /\ new.ok => Done(new, c) /\ Trusted(new, c)
               /\ ~new.ok => Same(Last, new)
<1> DEFINE ok == Permitted(Last, c)
           l == IF ok THEN Effect(Last, c) ELSE Last
           new == [l EXCEPT !.seq[c.key] = @ + 1, !.run = q, !.ok = ok]
<1>1. ledgers' = Append(ledgers, new)
  BY DEF Close
<1>2. Last \in State
  BY DEF Shape, Last
<1>3. l \in State /\ (ok => Done(l, c) /\ Trusted(l, c))
  BY <1>2, EffectType
<1>4. ~ok => l = Last
  OBVIOUS
<1>5. ok \in BOOLEAN
  BY DEF Permitted, Simulates
<1> HIDE DEF l, ok
<1>6. [l.seq EXCEPT ![c.key] = @ + 1] \in [Keys -> Nat]
  BY <1>3 DEF State
<1>7. new = [l EXCEPT !.seq = [l.seq EXCEPT ![c.key] = @ + 1], !.run = q,
                      !.ok = ok]
  BY <1>3 DEF State
<1>8. new \in State
  BY <1>3, <1>5, <1>6, <1>7 DEF State
<1>9. /\ new.run = q /\ new.ok = ok
      /\ new.admin = l.admin /\ new.paused = l.paused
      /\ new.blocked = l.blocked /\ new.balance = l.balance
      /\ new.domain = l.domain /\ new.lines = l.lines
  BY <1>3, <1>7 DEF State
<1>10. ok => Done(new, c) /\ Trusted(new, c)
  BY <1>3, <1>9 DEF Done, Trusted
<1>11. ~ok => Same(Last, new)
  BY <1>4, <1>9 DEF Same
<1> HIDE DEF new
<1> QED
  BY <1>1, <1>8, <1>9, <1>10, <1>11 DEF ok
-----------------------------------------------------------------------------
(* What lasts.                                                             *)

LEMMA InitInv == Init => Inv
<1> SUFFICES ASSUME Init PROVE Inv
  OBVIOUS
<1>1. PICK domain \in Domains :
          ledgers = << [admin |-> FirstAdmin, paused |-> FALSE,
                        blocked |-> {}, balance |-> [k \in Keys |-> 0],
                        domain |-> domain, lines |-> {},
                        seq |-> [k \in Keys |-> 0],
                        run |-> 0, ok |-> TRUE] >>
  BY DEF Init
<1>2. [admin |-> FirstAdmin, paused |-> FALSE, blocked |-> {},
       balance |-> [k \in Keys |-> 0], domain |-> domain, lines |-> {},
       seq |-> [k \in Keys |-> 0], run |-> 0, ok |-> TRUE] \in State
  BY DEF State
<1>3. /\ ledgers \in Seq(State) /\ Len(ledgers) = 1 /\ DOMAIN ledgers = {1}
      /\ ledgers[1].run = 0
  BY <1>1, <1>2
<1>4. /\ node = 1 /\ horizon = 1 /\ runs = << >> /\ at = << >>
      /\ base = << >> /\ number = << >> /\ inFlight = {}
  BY DEF Init
<1>5. Shape
  BY <1>3, <1>4 DEF Shape
<1>6. Quiet
  BY <1>3 DEF Quiet, Same
<1>7. Run = {} /\ Owned
  BY <1>3, <1>4 DEF Run, Owned
<1> QED
  BY <1>5, <1>6, <1>7 DEF Inv

\* The chain is only added to.
Grown ==
    /\ \A i \in DOMAIN ledgers : i \in DOMAIN ledgers' /\ ledgers'[i] = ledgers[i]
    /\ node <= node'

LEMMA Types ==
    ASSUME Shape
    PROVE  /\ DOMAIN ledgers = 1..Len(ledgers) /\ Len(ledgers) \in Nat
           /\ DOMAIN runs = 1..Len(runs) /\ Run = 1..Len(runs)
           /\ Len(runs) \in Nat /\ MaxRuns \in Nat
           /\ node \in 1..Len(ledgers) /\ horizon \in 1..Len(ledgers)
           /\ \A i \in DOMAIN ledgers : ledgers[i] \in State
           /\ \A r \in Run : /\ runs[r] \in Commands
                             /\ at[r] \in Phases \cup Ends
                             /\ base[r] \in 0..Len(ledgers)
                             /\ number[r] \in Nat
           /\ DOMAIN at = Run /\ DOMAIN base = Run /\ DOMAIN number = Run
<1>1. /\ DOMAIN ledgers = 1..Len(ledgers) /\ Len(ledgers) \in Nat
      /\ DOMAIN runs = 1..Len(runs) /\ Run = 1..Len(runs)
      /\ Len(runs) \in Nat
      /\ \A i \in DOMAIN ledgers : ledgers[i] \in State
  BY DEF Shape, Run
<1>2. node \in 1..Len(ledgers) /\ horizon \in 1..Len(ledgers)
  BY <1>1 DEF Shape
<1>3. DOMAIN at = Run /\ DOMAIN base = Run /\ DOMAIN number = Run
  BY <1>1 DEF Shape
<1>4. \A r \in Run : /\ runs[r] \in Commands
                     /\ at[r] \in Phases \cup Ends
                     /\ base[r] \in 0..Len(ledgers)
                     /\ number[r] \in Nat
  BY <1>1 DEF Shape
<1> QED
  BY <1>1, <1>2, <1>3, <1>4

LEMMA CommandTypes ==
    ASSUME NEW c \in Commands
    PROVE  c.key \in Keys /\ c.signer \in Keys /\ c.arg \in ArgumentsOf(c.tool)
BY DEF CommandType

\* A run that does nothing itself stays as it is, whatever others land.
LEMMA RunKept ==
    ASSUME Shape, NEW r \in Run, RunOK(r), Grown, node' \in Nat,
           runs'[r] = runs[r], at'[r] = at[r], base'[r] = base[r],
           r \in inFlight' => r \in inFlight,
           \A j \in DOMAIN ledgers' :
               ledgers'[j].run = r => j \in DOMAIN ledgers
    PROVE  RunOK(r)'
<1>1. /\ Tool(r)' = Tool(r)
      /\ base[r] \in 0..Len(ledgers) /\ node \in Nat
      /\ DOMAIN ledgers = 1..Len(ledgers) /\ Len(ledgers) \in Nat
  BY Types DEF Tool, Shape
<1>2. \A i \in DOMAIN ledgers :
          i \in DOMAIN ledgers' /\ ledgers'[i] = ledgers[i]
  BY DEF Grown
<1>3. LandedAt(r)' = LandedAt(r)
  BY <1>2 DEF LandedAt
<1>4. \A j \in OthersAfter(r, base[r]) : j \in OthersAfter(r, base[r])'
  BY <1>2 DEF OthersAfter
<1>5. \A i \in LandedAt(r) : i \in DOMAIN ledgers /\ ledgers'[i] = ledgers[i]
  BY <1>2 DEF LandedAt
<1>6. LandedOK(r)'
  <2> SUFFICES ASSUME NEW i \in LandedAt(r)
               PROVE  /\ r \notin inFlight' /\ base'[r] < i
                      /\ at'[r] \in {"poll", "postcheck", "error", "ok",
                                     "alarm", "unchecked"}
                      /\ \A j \in LandedAt(r) : j = i
                      /\ Trusted(ledgers'[i], runs'[r])
                      /\ ledgers'[i].ok => Done(ledgers'[i], runs'[r])
                      /\ ~ledgers'[i].ok =>
                             \E j \in OthersAfter(r, base[r])' : j < i
    BY <1>3 DEF LandedOK
  <2> QED
    BY <1>4, <1>5 DEF RunOK, LandedOK
<1>7. Passed(r)'
  <2>1. base[r] > 0 => ledgers'[base[r]] = ledgers[base[r]]
    BY <1>1, <1>2
  <2>2. Rotations \subseteq Preflighted
    BY DEF Preflighted
  <2> QED
    BY <1>1, <2>1, <2>2 DEF RunOK, Passed
<1>8. Built(r)'
  <2>1. Tool(r) \notin ReadsHorizon => base[r] <= node'
    BY <1>1 DEF RunOK, Built, Grown
  <2>2. ASSUME NEW n \in DOMAIN ledgers, Simulates(ledgers[n], runs[r])
        PROVE  n \in DOMAIN ledgers' /\ Simulates(ledgers'[n], runs'[r])
    BY <1>2, <2>2
  <2> QED
    BY <1>1, <2>1, <2>2 DEF RunOK, Built
<1>9. Seen(r)'
  <2>1. \A i \in LandedAt(r) : i <= node => i <= node'
    BY <1>1 DEF LandedAt, Grown
  <2> QED
    BY <1>1, <1>3, <1>5, <2>1 DEF RunOK, Seen
<1>10. Ended(r)'
  <2>1. ASSUME NEW j \in DOMAIN ledgers, Done(ledgers[j], runs[r])
        PROVE  j \in DOMAIN ledgers' /\ Done(ledgers'[j], runs'[r])
    BY <1>2, <2>1
  <2>2. Tool(r) \in Postchecked /\ at[r] = "ok" =>
            \E i \in LandedAt(r)', j \in DOMAIN ledgers' :
                i <= j /\ Done(ledgers'[j], runs'[r])
    BY <1>3, <2>1 DEF RunOK, Ended
  <2>3. Tool(r) \in Rotations /\ at[r] = "alarm" =>
            OthersAfter(r, base[r])' # {}
    BY <1>4 DEF RunOK, Ended
  <2> QED
    BY <1>1, <2>2, <2>3 DEF Ended
<1> QED
  BY <1>6, <1>7, <1>8, <1>9, <1>10 DEF RunOK
-----------------------------------------------------------------------------
(* A ledger is closed.                                                     *)

LEMMA QuietExtends ==
    ASSUME Shape, Quiet, NEW new \in State, ledgers' = Append(ledgers, new),
           ~new.ok => Same(Last, new)
    PROVE  Quiet'
<1> DEFINE n == Len(ledgers)
<1>1. /\ n \in Nat /\ n > 0 /\ DOMAIN ledgers = 1..n
      /\ DOMAIN ledgers' = 1..(n + 1) /\ ledgers'[n + 1] = new
      /\ \A i \in 1..n : ledgers'[i] = ledgers[i]
  BY Types, AppendProperties DEF Shape
<1>2. Last = ledgers[n] /\ n \in DOMAIN ledgers
  BY <1>1 DEF Last
<1> HIDE DEF n
<1> SUFFICES ASSUME NEW i \in DOMAIN ledgers', NEW j \in DOMAIN ledgers',
                    i <= j,
                    \A k \in DOMAIN ledgers' :
                        i < k /\ k <= j => ~ledgers'[k].ok
             PROVE  Same(ledgers'[i], ledgers'[j])
  BY DEF Quiet
<1>3. CASE j \in 1..n
  BY <1>1, <1>3 DEF Quiet
<1>4. CASE i = n + 1
  BY <1>1, <1>4 DEF Same
<1>5. CASE i \in 1..n /\ j = n + 1
  <2>1. \A k \in DOMAIN ledgers : i < k /\ k <= n => ~ledgers[k].ok
    BY <1>1, <1>5
  <2>2. Same(ledgers[i], ledgers[n])
    BY <1>1, <1>2, <1>5, <2>1 DEF Quiet
  <2>3. Same(ledgers[n], new)
    BY <1>1, <1>2, <1>5
  <2> QED
    BY <1>1, <1>5, <2>2, <2>3 DEF Same
<1> QED
  BY <1>1, <1>3, <1>4, <1>5

\* What a ledger leaves of everything but the run whose transaction it has.
LEMMA CloseStep ==
    ASSUME Inv, NEW new \in State, ledgers' = Append(ledgers, new),
           ~new.ok => Same(Last, new), new.run \in Run \cup {0},
           UNCHANGED <<node, horizon, runs, at, base, number>>,
           inFlight' \subseteq inFlight,
           new.run \in Run => RunOK(new.run)'
    PROVE  Inv'
<1> DEFINE n == Len(ledgers)
<1>1. Shape
  BY DEF Inv
<1>2. /\ n \in Nat /\ DOMAIN ledgers = 1..n
      /\ DOMAIN ledgers' = 1..(n + 1) /\ ledgers'[n + 1] = new
      /\ Len(ledgers') = n + 1 /\ ledgers' \in Seq(State)
      /\ \A i \in 1..n : ledgers'[i] = ledgers[i]
  BY <1>1, Types, AppendProperties DEF Shape
<1> HIDE DEF n
<1>3. Shape'
  <2>1. base \in Seq(0..(n + 1))
    <3>1. base \in Seq(0..n) /\ 0..n \subseteq 0..(n + 1)
      BY <1>1, <1>2 DEF Shape, n
    <3> QED
      BY <3>1, SeqMonotonic
  <2> QED
    BY <1>1, <1>2, <2>1 DEF Shape
<1>4. Quiet'
  BY <1>1, QuietExtends DEF Inv
<1>5. Grown
  BY <1>1, <1>2 DEF Grown, Shape
<1>6. Run' = Run
  BY DEF Run
<1>7. Owned'
  BY <1>2, <1>6 DEF Inv, Owned
<1>8. ASSUME NEW r \in Run PROVE RunOK(r)'
  <2>1. CASE r = new.run
    BY <2>1
  <2>2. CASE r # new.run
    <3>1. \A j \in DOMAIN ledgers' :
              ledgers'[j].run = r => j \in DOMAIN ledgers
      BY <1>2, <2>2
    <3>2. node' \in Nat /\ RunOK(r)
      BY <1>1, <1>2 DEF Shape, Inv
    <3> QED
      BY <1>1, <1>5, <3>1, <3>2, RunKept
  <2> QED
    BY <2>1, <2>2
<1> QED
  BY <1>3, <1>4, <1>6, <1>7, <1>8 DEF Inv

LEMMA OutsideStep == Inv /\ Outside => Inv'
<1> SUFFICES ASSUME Inv, Outside PROVE Inv'
  OBVIOUS
<1>1. /\ UNCHANGED <<node, horizon, runs, at, base, number, inFlight>>
      /\ \E c \in Outsiders : Close(0, c)
  BY DEF Outside
<1>2. PICK c \in Outsiders : Close(0, c)
  BY <1>1
<1>3. /\ c.key \in Keys /\ c.arg \in ArgumentsOf(c.tool)
      /\ c.tool # "trustlineSelf"
  BY DEF Outsiders, ArgumentsOf
<1>4. Shape /\ 0 \in 0..MaxRuns
  BY DEF Inv
<1>5. PICK new \in State : /\ ledgers' = Append(ledgers, new)
                           /\ new.run = 0
                           /\ ~new.ok => Same(Last, new)
  BY <1>2, <1>3, <1>4, CloseEffect
<1>6. 0 \notin Run
  BY <1>4, Types
<1> QED
  BY <1>1, <1>5, <1>6, CloseStep

\* A transaction that fails met somebody else's success.
LEMMA LandStep ==
    ASSUME Inv, NEW r \in Run, Land(r)
    PROVE  Inv'
<1> DEFINE n == Len(ledgers)
           c == runs[r]
<1>1. /\ r \in inFlight /\ Close(r, c) /\ inFlight' = inFlight \ {r}
      /\ UNCHANGED <<node, horizon, runs, at, base, number>>
  BY DEF Land
<1>2. Shape /\ RunOK(r)
  BY DEF Inv
<1>3. /\ n \in Nat /\ n > 0 /\ DOMAIN ledgers = 1..n /\ r \in 0..MaxRuns
      /\ c \in Commands /\ base[r] \in 0..n /\ r # 0
  BY <1>2, Types DEF Shape
<1>4. at[r] \in {"poll", "error"}
  BY <1>1, <1>2 DEF RunOK, Built
<1>5. c.tool = "trustlineSelf" => NameOf[SacToken[c.arg]] \in Assets
  BY <1>2, <1>4
     DEF RunOK, Passed, PastPreflight, PastVault, Phases, Ends, Tool,
         DerivedSacMatches
<1>6. PICK new \in State :
          /\ ledgers' = Append(ledgers, new)
          /\ new.run = r
          /\ new.ok <=> Permitted(Last, c)
          /\ new.ok => Done(new, c) /\ Trusted(new, c)
          /\ ~new.ok => Same(Last, new)
  BY <1>1, <1>2, <1>3, <1>5, CommandTypes, CloseEffect
<1>7. /\ DOMAIN ledgers' = 1..(n + 1) /\ ledgers'[n + 1] = new
      /\ \A i \in 1..n : ledgers'[i] = ledgers[i]
  BY <1>2, <1>3, <1>6, AppendProperties DEF Shape
<1>8. Last = ledgers[n]
  BY DEF Last
<1>9. LandedAt(r) = {}
  BY <1>1, <1>2 DEF RunOK, LandedOK
<1>10. LandedAt(r)' = {n + 1}
  BY <1>3, <1>6, <1>7, <1>9 DEF LandedAt
<1> HIDE DEF n, c
<1>11. ~new.ok => OthersAfter(r, base[r]) # {}
  <2> SUFFICES ASSUME OthersAfter(r, base[r]) = {} PROVE Permitted(Last, c)
    BY <1>6
  <2>1. /\ base[r] > 0
        /\ \E m \in DOMAIN ledgers :
               /\ base[r] <= m \/ Tool(r) \in ReadsHorizon
               /\ Simulates(ledgers[m], c)
    BY <1>1, <1>2 DEF RunOK, Built, c
  <2>2. CASE Tool(r) \in ReadsHorizon
    BY <2>2 DEF ReadsHorizon, Permitted, Simulates, Rotations, Tool, c
  <2>3. CASE Tool(r) \notin ReadsHorizon
    <3>1. PICK m \in 1..n : base[r] <= m /\ Simulates(ledgers[m], c)
      BY <1>3, <2>1, <2>3
    <3>2. \A k \in DOMAIN ledgers : base[r] < k => ~ledgers[k].ok
      BY <1>9 DEF OthersAfter, LandedAt
    <3>3. Same(ledgers[m], ledgers[n])
      BY <1>3, <3>1, <3>2 DEF Inv, Quiet
    <3>4. Same(ledgers[base[r]], ledgers[n])
      BY <1>3, <2>1, <3>2 DEF Inv, Quiet
    <3>5. Simulates(Last, c)
      BY <1>8, <3>1, <3>3, SameMeans
    <3>6. c.tool \in Rotations => c.key = Last.admin
      <4>1. c.tool \in Rotations => ledgers[base[r]].admin = c.key
        BY <1>2, <1>4 DEF RunOK, Passed, PastPreflight, PastVault, Phases,
                          Ends, Tool, c
      <4> QED
        BY <1>8, <3>4, <4>1 DEF Same
    <3> QED
      BY <3>5, <3>6 DEF Permitted
  <2> QED
    BY <2>2, <2>3
<1>12. \A j \in OthersAfter(r, base[r]) :
           j \in OthersAfter(r, base[r])' /\ j < n + 1
  BY <1>1, <1>3, <1>7 DEF OthersAfter
<1>13. Trusted(new, c)
  <2>1. c.tool = "trustlineSelf" => Permitted(Last, c)
    BY DEF Permitted, Simulates, Rotations
  <2> QED
    BY <1>6, <2>1 DEF Trusted
<1>14. LandedOK(r)'
  <2>1. base[r] < n + 1
    BY <1>3
  <2>2. ~new.ok => \E j \in OthersAfter(r, base[r])' : j < n + 1
    BY <1>11, <1>12
  <2> SUFFICES ASSUME NEW i \in LandedAt(r)'
               PROVE  /\ r \notin inFlight' /\ base'[r] < i
                      /\ at'[r] \in {"poll", "postcheck", "error", "ok",
                                     "alarm", "unchecked"}
                      /\ \A j \in LandedAt(r)' : j = i
                      /\ Trusted(ledgers'[i], runs'[r])
                      /\ ledgers'[i].ok => Done(ledgers'[i], runs'[r])
                      /\ ~ledgers'[i].ok =>
                             \E j \in OthersAfter(r, base[r])' : j < i
    BY DEF LandedOK
  <2>3. i = n + 1 /\ ledgers'[i] = new
    BY <1>7, <1>10
  <2> QED
    BY <1>1, <1>4, <1>6, <1>10, <1>13, <2>1, <2>2, <2>3 DEF c
<1>15. /\ Tool(r)' = Tool(r) /\ at'[r] = at[r] /\ base'[r] = base[r]
       /\ runs' = runs /\ node' = node
  BY <1>1 DEF Tool
<1>16. Passed(r)'
  <2>1. base[r] > 0 => ledgers'[base[r]] = ledgers[base[r]]
    BY <1>3, <1>7
  <2>2. Rotations \subseteq Preflighted
    BY DEF Preflighted
  <2> QED
    BY <1>2, <1>15, <2>1, <2>2 DEF RunOK, Passed
<1>17. Built(r)'
  BY <1>1, <1>2, <1>4, <1>15 DEF RunOK, Built
<1>18. Seen(r)' /\ Ended(r)'
  BY <1>4, <1>15 DEF Seen, Ended
<1>19. RunOK(r)'
  BY <1>14, <1>16, <1>17, <1>18 DEF RunOK
<1>20. inFlight' \subseteq inFlight
  BY <1>1
<1> QED
  BY <1>1, <1>6, <1>19, <1>20, CloseStep
-----------------------------------------------------------------------------
(* A run takes a step.                                                     *)

\* It goes to phase p with reading b; its own part of the invariant is left
\* to show, and that a landed transaction is still accounted for.
LEMMA RunStep ==
    ASSUME Inv, NEW r \in Run, NEW p \in Phases \cup Ends,
           NEW b \in 0..Len(ledgers),
           at' = [at EXCEPT ![r] = p], base' = [base EXCEPT ![r] = b],
           UNCHANGED <<ledgers, node, horizon, runs>>,
           number' \in Seq(Nat), Len(number') = Len(number),
           inFlight' \subseteq inFlight \cup {r},
           LandedAt(r) # {} =>
               /\ p \in {"poll", "postcheck", "error", "ok", "alarm", "unchecked"}
               /\ b = base[r] /\ inFlight' \subseteq inFlight,
           at'[r] = p /\ base'[r] = b =>
               Passed(r)' /\ Built(r)' /\ Seen(r)' /\ Ended(r)'
    PROVE  Inv'
<1>1. Shape /\ RunOK(r)
  BY DEF Inv
<1>2. /\ at \in Seq(Phases \cup Ends) /\ base \in Seq(0..Len(ledgers))
      /\ r \in 1..Len(at) /\ r \in 1..Len(base) /\ Run = 1..Len(runs)
      /\ Len(at) = Len(runs) /\ Len(base) = Len(runs) /\ DOMAIN runs = Run
  BY <1>1, Types DEF Shape
<1>3. /\ at' \in Seq(Phases \cup Ends) /\ Len(at') = Len(at)
      /\ at'[r] = p
      /\ \A s \in Run : s # r => at'[s] = at[s]
  BY <1>2, ExceptSeq
<1>4. /\ base' \in Seq(0..Len(ledgers)) /\ Len(base') = Len(base)
      /\ base'[r] = b
      /\ \A s \in Run : s # r => base'[s] = base[s]
  BY <1>2, ExceptSeq
<1>5. Shape'
  BY <1>1, <1>2, <1>3, <1>4 DEF Shape
<1>6. Run' = Run /\ Quiet' /\ Owned'
  BY DEF Inv, Run, Quiet, Owned
<1>7. LandedAt(r)' = LandedAt(r)
  BY DEF LandedAt
<1>8. LandedOK(r)'
  <2>1. CASE LandedAt(r) = {}
    BY <1>7, <2>1 DEF LandedOK
  <2>2. CASE LandedAt(r) # {}
    <3>1. base'[r] = base[r]
      BY <1>4, <2>2
    <3>2. OthersAfter(r, base[r])' = OthersAfter(r, base[r])
      BY <3>1 DEF OthersAfter
    <3> QED
      BY <1>1, <1>3, <1>7, <2>2, <3>1, <3>2 DEF RunOK, LandedOK
  <2> QED
    BY <2>1, <2>2
<1>9. ASSUME NEW s \in Run PROVE RunOK(s)'
  <2>1. CASE s = r
    BY <1>3, <1>4, <1>8, <2>1 DEF RunOK
  <2>2. CASE s # r
    <3>1. node \in Nat /\ RunOK(s)
      BY <1>1, Types DEF Inv
    <3>2. Grown /\ node' \in Nat
      BY <3>1 DEF Grown
    <3>3. s \in inFlight' => s \in inFlight
      BY <2>2
    <3> QED
      BY <1>1, <1>3, <1>4, <2>2, <3>1, <3>2, <3>3, RunKept
  <2> QED
    BY <2>1, <2>2
<1> QED
  BY <1>5, <1>6, <1>9 DEF Inv

\* A phase is entered and nothing else done.
LEMMA GoToStep ==
    ASSUME Inv, NEW r \in Run, NEW p \in Phases \cup Ends, GoTo(r, p),
           UNCHANGED base,
           LandedAt(r) # {} =>
               p \in {"poll", "postcheck", "error", "ok", "alarm", "unchecked"},
           at'[r] = p /\ base'[r] = base[r] =>
               Passed(r)' /\ Built(r)' /\ Seen(r)' /\ Ended(r)'
    PROVE  Inv'
<1>1. Shape
  BY DEF Inv
<1>2. /\ base[r] \in 0..Len(ledgers) /\ base' = [base EXCEPT ![r] = base[r]]
      /\ number \in Seq(Nat)
  BY <1>1, Types DEF Shape
<1> QED
  BY <1>1, <1>2, RunStep DEF GoTo, chain

\* Nothing has landed for a run that has not sent.
LEMMA Unlanded ==
    ASSUME Inv, NEW r \in Run,
           at[r] \in {"vault", "preflight", "confirm", "build", "sign"}
    PROVE  LandedAt(r) = {} /\ r \notin inFlight
BY DEF Inv, RunOK, LandedOK, Built

LEMMA CheckVaultStep ==
    ASSUME Inv, NEW r \in Run, CheckVault(r)
    PROVE  Inv'
<1> DEFINE p == IF AssertVaultMatchesPubkey(r) THEN AfterVault(Tool(r))
                                               ELSE "refused"
<1>1. /\ at[r] = "vault" /\ GoTo(r, p) /\ UNCHANGED base
      /\ UNCHANGED <<ledgers, node, horizon, runs, inFlight>>
  BY DEF CheckVault, GoTo, chain
<1>2. RunOK(r) /\ LandedAt(r) = {} /\ r \notin inFlight
  BY <1>1, Unlanded DEF Inv
<1>3. /\ p \in {"refused", "preflight", "build", "confirm"}
      /\ p # "refused" => runs[r].signer = runs[r].key
      /\ p \in {"build", "confirm"} => Tool(r) \notin Preflighted
  BY DEF AfterVault, AfterPreflight, AssertVaultMatchesPubkey
<1> HIDE DEF p
<1>4. ASSUME at'[r] = p, base'[r] = base[r]
      PROVE  Passed(r)' /\ Built(r)' /\ Seen(r)' /\ Ended(r)'
  <2>1. Passed(r)'
    BY <1>1, <1>3, <1>4
       DEF Passed, Tool, PastVault, PastPreflight, Preflighted
  <2>2. Built(r)'
    BY <1>1, <1>2, <1>3, <1>4 DEF Built, RunOK, Tool
  <2>3. Seen(r)' /\ Ended(r)'
    BY <1>3, <1>4 DEF Seen, Ended
  <2> QED
    BY <2>1, <2>2, <2>3
<1>5. p \in Phases \cup Ends
  BY <1>3 DEF Phases, Ends
<1> QED
  BY <1>1, <1>2, <1>4, <1>5, GoToStep

LEMMA PreflightStep ==
    ASSUME Inv, NEW r \in Run, Preflight(r)
    PROVE  Inv'
<1> DEFINE p == IF PreflightPasses(ledgers[View(r)], runs[r])
                THEN AfterPreflight(Tool(r))
                ELSE IF Tool(r) = "updateHomeDomain" THEN "unchanged"
                ELSE "refused"
           b == View(r)
<1>1. /\ at[r] = "preflight" /\ at' = [at EXCEPT ![r] = p]
      /\ base' = [base EXCEPT ![r] = b]
      /\ UNCHANGED <<ledgers, node, horizon, runs, number, inFlight>>
  BY DEF Preflight, GoTo, chain
<1>2. /\ RunOK(r) /\ LandedAt(r) = {} /\ r \notin inFlight /\ Shape
      /\ number \in Seq(Nat)
  BY <1>1, Unlanded DEF Inv, Shape
<1>3. /\ p \in {"refused", "unchanged", "build", "confirm"}
      /\ p \in {"build", "confirm"} =>
             PreflightPasses(ledgers[b], runs[r])
  BY DEF AfterPreflight
<1>4. /\ b \in 0..Len(ledgers) /\ b > 0 /\ node \in Nat
      /\ Tool(r) \notin ReadsHorizon => b = node
  BY <1>2, Types DEF View
<1> HIDE DEF p, b
<1>5. ASSUME at'[r] = p, base'[r] = b
      PROVE  Passed(r)' /\ Built(r)' /\ Seen(r)' /\ Ended(r)'
  <2>1. Passed(r)'
    BY <1>1, <1>2, <1>3, <1>4, <1>5
       DEF RunOK, Passed, Tool, PastVault, PastPreflight, PreflightPasses,
           Phases, Ends
  <2>2. Built(r)'
    BY <1>1, <1>2, <1>3, <1>4, <1>5 DEF Built, RunOK, Tool
  <2>3. Seen(r)' /\ Ended(r)'
    BY <1>3, <1>5 DEF Seen, Ended
  <2> QED
    BY <2>1, <2>2, <2>3
<1>6. p \in Phases \cup Ends
  BY <1>3 DEF Phases, Ends
<1> QED
  BY <1>1, <1>2, <1>4, <1>5, <1>6, RunStep

LEMMA ConfirmStep ==
    ASSUME Inv, NEW r \in Run, Confirm(r) \/ DryRun(r)
    PROVE  Inv'
<1>1. PICK p \in {"build", "aborted"} : GoTo(r, p)
  BY DEF Confirm, DryRun
<1>2. /\ at[r] \in {"confirm", "build"} /\ UNCHANGED base
      /\ UNCHANGED <<ledgers, node, horizon, runs, inFlight>>
  BY DEF Confirm, DryRun, GoTo, chain
<1>3. RunOK(r) /\ LandedAt(r) = {} /\ r \notin inFlight
  BY <1>2, Unlanded DEF Inv
<1>4. ASSUME at'[r] = p, base'[r] = base[r]
      PROVE  Passed(r)' /\ Built(r)' /\ Seen(r)' /\ Ended(r)'
  <2>1. Passed(r)'
    BY <1>2, <1>3, <1>4
       DEF RunOK, Passed, Tool, PastVault, PastPreflight, Phases, Ends
  <2>2. Built(r)'
    BY <1>2, <1>3, <1>4 DEF Built, RunOK, Tool
  <2>3. Seen(r)' /\ Ended(r)'
    BY <1>4 DEF Seen, Ended
  <2> QED
    BY <2>1, <2>2, <2>3
<1>5. p \in Phases \cup Ends
  BY DEF Phases, Ends
<1> QED
  BY <1>1, <1>2, <1>3, <1>4, <1>5, GoToStep

LEMMA BuildStep ==
    ASSUME Inv, NEW r \in Run, Build(r)
    PROVE  Inv'
<1> DEFINE b == IF base[r] = 0 THEN node ELSE base[r]
<1>1. /\ at[r] = "build" /\ base' = [base EXCEPT ![r] = b]
      /\ UNCHANGED <<ledgers, node, horizon, runs, inFlight>>
  BY DEF Build, chain
<1>2. PICK p \in {"sign", "error"} :
          /\ at' = [at EXCEPT ![r] = p]
          /\ p = "sign" => Simulates(ledgers[node], runs[r])
          /\ p = "sign" =>
                 number' = [number EXCEPT
                              ![r] = ledgers[node].seq[runs[r].key] + 1]
          /\ p = "error" => number' = number
  BY DEF Build, SimulateAndPrepare
<1>3. /\ RunOK(r) /\ LandedAt(r) = {} /\ r \notin inFlight /\ Shape
  BY <1>1, Unlanded DEF Inv
<1>4. /\ node \in 1..Len(ledgers) /\ base[r] \in 0..Len(ledgers)
      /\ Len(ledgers) \in Nat /\ ledgers[node] \in State
      /\ runs[r] \in Commands /\ node \in DOMAIN ledgers
  BY <1>3, Types DEF Shape
<1>5. number' \in Seq(Nat) /\ Len(number') = Len(number)
  <2>1. ledgers[node].seq[runs[r].key] + 1 \in Nat
    BY <1>4, CommandTypes DEF State
  <2>2. number \in Seq(Nat) /\ r \in 1..Len(number)
    BY <1>3, Types DEF Shape
  <2> QED
    BY <1>2, <2>1, <2>2, ExceptSeq
<1>6. /\ b \in 0..Len(ledgers) /\ b > 0
      /\ Tool(r) \notin ReadsHorizon => b <= node
      /\ base[r] > 0 => b = base[r]
  BY <1>3, <1>4 DEF RunOK, Built
<1> HIDE DEF b
<1>7. ASSUME at'[r] = p, base'[r] = b
      PROVE  Passed(r)' /\ Built(r)' /\ Seen(r)' /\ Ended(r)'
  <2>1. Passed(r)'
    <3>1. at[r] \in PastPreflight /\ at[r] \in PastVault
      BY <1>1 DEF PastVault, PastPreflight, Phases
    <3>2. Tool(r) \in Preflighted => b = base[r]
      BY <1>3, <1>6, <3>1 DEF RunOK, Passed
    <3>3. Rotations \subseteq Preflighted
      BY DEF Preflighted
    <3> QED
      BY <1>1, <1>3, <1>6, <1>7, <3>1, <3>2, <3>3 DEF RunOK, Passed, Tool
  <2>2. Built(r)'
    BY <1>1, <1>2, <1>3, <1>4, <1>6, <1>7 DEF Built, Tool
  <2>3. Seen(r)' /\ Ended(r)'
    BY <1>7 DEF Seen, Ended
  <2> QED
    BY <2>1, <2>2, <2>3
<1>8. p \in Phases \cup Ends
  BY DEF Phases, Ends
<1> QED
  BY <1>1, <1>2, <1>3, <1>5, <1>6, <1>7, <1>8, RunStep

LEMMA SendStep ==
    ASSUME Inv, NEW r \in Run, Send(r)
    PROVE  Inv'
<1>1. /\ at[r] = "sign" /\ base' = base
      /\ UNCHANGED <<ledgers, node, horizon, runs, number>>
  BY DEF Send, chain
<1>2. PICK p \in {"poll", "error"} :
          /\ at' = [at EXCEPT ![r] = p]
          /\ inFlight' \subseteq inFlight \cup {r}
  BY DEF Send
<1>3. /\ RunOK(r) /\ LandedAt(r) = {} /\ Shape
  BY <1>1, Unlanded DEF Inv
<1>4. /\ base[r] \in 0..Len(ledgers) /\ base' = [base EXCEPT ![r] = base[r]]
      /\ number \in Seq(Nat)
  BY <1>1, <1>3, Types DEF Shape
<1>5. ASSUME at'[r] = p, base'[r] = base[r]
      PROVE  Passed(r)' /\ Built(r)' /\ Seen(r)' /\ Ended(r)'
  <2>1. Passed(r)'
    BY <1>1, <1>3, <1>5
       DEF RunOK, Passed, Tool, PastVault, PastPreflight, Phases, Ends
  <2>2. Built(r)'
    BY <1>1, <1>3, <1>5 DEF Built, RunOK, Tool
  <2>3. Seen(r)' /\ Ended(r)'
    BY <1>5 DEF Seen, Ended
  <2> QED
    BY <2>1, <2>2, <2>3
<1>6. p \in Phases \cup Ends
  BY DEF Phases, Ends
<1> QED
  BY <1>1, <1>2, <1>3, <1>4, <1>5, <1>6, RunStep

LEMMA PollStep ==
    ASSUME Inv, NEW r \in Run, PollResult(r) \/ GiveUp(r)
    PROVE  Inv'
<1>1. /\ at[r] = "poll" /\ UNCHANGED base
      /\ UNCHANGED <<ledgers, node, horizon, runs, inFlight>>
  BY DEF PollResult, GiveUp, GoTo, chain
<1>2. PICK p \in {"error", "ok", "postcheck"} :
          /\ GoTo(r, p)
          /\ p # "error" => LandedAt(r) # {}
          /\ p = "ok" => Tool(r) \notin Postchecked
          /\ p = "postcheck" =>
                 /\ Tool(r) \in Postchecked
                 /\ \E i \in LandedAt(r) :
                        /\ i <= node
                        /\ Tool(r) \in ReadsHorizon => ledgers[i].ok
  <2>1. CASE GiveUp(r)
    BY <2>1 DEF GiveUp
  <2>2. CASE PollResult(r)
    <3>1. PICK i \in LandedAt(r) :
              /\ Tool(r) # "trustlineSelf" => i <= node
              /\ GoTo(r, PrintResult(Tool(r), ledgers[i].ok))
      BY <2>2 DEF PollResult, Gate
    <3>2. /\ PrintResult(Tool(r), ledgers[i].ok) \in
                 {"error", "ok", "postcheck"}
          /\ PrintResult(Tool(r), ledgers[i].ok) = "ok" =>
                 Tool(r) \notin Postchecked
          /\ PrintResult(Tool(r), ledgers[i].ok) = "postcheck" =>
                 /\ Tool(r) \in Postchecked
                 /\ Tool(r) # "trustlineSelf"
                 /\ Tool(r) \in ReadsHorizon => ledgers[i].ok
      BY DEF PrintResult, ReadsHorizon, Throwing, Postchecked, Rotations,
             Pausing
    <3> QED
      BY <3>1, <3>2
  <2> QED
    BY <2>1, <2>2
<1>3. RunOK(r)
  BY DEF Inv
<1>4. ASSUME at'[r] = p, base'[r] = base[r]
      PROVE  Passed(r)' /\ Built(r)' /\ Seen(r)' /\ Ended(r)'
  <2>1. Passed(r)'
    BY <1>1, <1>3, <1>4
       DEF RunOK, Passed, Tool, PastVault, PastPreflight, Phases, Ends
  <2>2. Built(r)'
    <3>1. r \in inFlight => p = "error"
      BY <1>2, <1>3 DEF RunOK, LandedOK
    <3> QED
      BY <1>1, <1>3, <1>4, <3>1 DEF Built, RunOK, Tool
  <2>3. Seen(r)'
    BY <1>1, <1>2, <1>4 DEF Seen, Tool, LandedAt
  <2>4. Ended(r)'
    BY <1>1, <1>2, <1>4 DEF Ended, Tool
  <2> QED
    BY <2>1, <2>2, <2>3, <2>4
<1>5. p \in Phases \cup Ends
  BY DEF Phases, Ends
<1> QED
  BY <1>1, <1>2, <1>4, <1>5, GoToStep

\* The second reading of a rotation shows its own work, or somebody's.
LEMMA PostcheckStep ==
    ASSUME Inv, NEW r \in Run, Postcheck(r)
    PROVE  Inv'
<1> DEFINE p == IF PostcheckPasses(r) THEN "ok" ELSE "alarm"
           c == runs[r]
<1>1. /\ at[r] = "postcheck" /\ GoTo(r, p) /\ UNCHANGED base
      /\ UNCHANGED <<ledgers, node, horizon, runs, inFlight>>
  BY DEF Postcheck, GoTo, chain
<1>2. RunOK(r) /\ Shape
  BY DEF Inv
<1>3. PICK i \in LandedAt(r) :
          /\ i <= node
          /\ Tool(r) \in ReadsHorizon => ledgers[i].ok
  BY <1>1, <1>2 DEF RunOK, Seen
<1>4. /\ i \in DOMAIN ledgers /\ base[r] < i
      /\ ledgers[i].ok => Done(ledgers[i], c)
      /\ ~ledgers[i].ok => OthersAfter(r, base[r]) # {}
      /\ \A j \in LandedAt(r) : j = i
      /\ r \notin inFlight
      /\ DOMAIN ledgers = 1..Len(ledgers) /\ Len(ledgers) \in Nat
      /\ i \in Nat /\ node \in DOMAIN ledgers /\ base[r] \in Nat
  <2>1. i \in DOMAIN ledgers
    BY DEF LandedAt
  <2>2. /\ base[r] < i
        /\ ledgers[i].ok => Done(ledgers[i], c)
        /\ ~ledgers[i].ok => OthersAfter(r, base[r]) # {}
        /\ \A j \in LandedAt(r) : j = i
        /\ r \notin inFlight
    BY <1>2 DEF RunOK, LandedOK
  <2>3. /\ DOMAIN ledgers = 1..Len(ledgers) /\ Len(ledgers) \in Nat
        /\ base[r] \in Nat /\ node \in DOMAIN ledgers
    BY <1>2, Types
  <2> QED
    BY <2>1, <2>2, <2>3
<1>5. p = "ok" => \E j \in DOMAIN ledgers : i <= j /\ Done(ledgers[j], c)
  <2>1. CASE Tool(r) \in ReadsHorizon
    BY <1>3, <1>4, <2>1
  <2>2. CASE Tool(r) \notin ReadsHorizon
    BY <1>3, <1>4, <2>2 DEF PostcheckPasses, View
  <2> QED
    BY <2>1, <2>2
<1>6. p = "alarm" /\ Tool(r) \in Rotations => OthersAfter(r, base[r]) # {}
  <2> SUFFICES ASSUME Tool(r) \in Rotations, OthersAfter(r, base[r]) = {}
               PROVE  PostcheckPasses(r)
    OBVIOUS
  <2>1. Done(ledgers[i], c)
    BY <1>4
  <2>2. \A k \in DOMAIN ledgers : i < k => ~ledgers[k].ok
    <3> SUFFICES ASSUME NEW k \in DOMAIN ledgers, i < k PROVE ~ledgers[k].ok
      OBVIOUS
    <3>1. k \in Nat /\ base[r] < k
      BY <1>4
    <3>2. ledgers[k].run # r
      BY <1>4 DEF LandedAt
    <3> QED
      BY <3>1, <3>2 DEF OthersAfter
  <2>3. Same(ledgers[i], ledgers[node])
    BY <1>3, <1>4, <2>2 DEF Inv, Quiet
  <2>4. Done(ledgers[node], c)
    BY <2>1, <2>3, SameMeans
  <2> QED
    BY <2>4 DEF PostcheckPasses, View, Rotations, ReadsHorizon
<1>7. p \in {"ok", "alarm"}
  OBVIOUS
<1> HIDE DEF p
<1>8. ASSUME at'[r] = p, base'[r] = base[r]
      PROVE  Passed(r)' /\ Built(r)' /\ Seen(r)' /\ Ended(r)'
  <2>1. Passed(r)'
    BY <1>1, <1>2, <1>7, <1>8
       DEF RunOK, Passed, Tool, PastVault, PastPreflight, Phases, Ends
  <2>2. Built(r)'
    BY <1>1, <1>2, <1>4, <1>7, <1>8 DEF Built, RunOK, Tool
  <2>3. Seen(r)'
    BY <1>7, <1>8 DEF Seen
  <2>4. Ended(r)'
    <3>1. LandedAt(r)' = LandedAt(r) /\ Tool(r)' = Tool(r)
      BY <1>1 DEF LandedAt, Tool
    <3>2. OthersAfter(r, base[r])' = OthersAfter(r, base[r])
      BY <1>1, <1>8 DEF OthersAfter
    <3> QED
      BY <1>1, <1>3, <1>5, <1>6, <1>8, <3>1, <3>2 DEF Ended
  <2> QED
    BY <2>1, <2>2, <2>3, <2>4
<1>9. p \in Phases \cup Ends
  BY <1>7 DEF Phases, Ends
<1> QED
  BY <1>1, <1>7, <1>8, <1>9, GoToStep

\* A reading that fails leaves what the run has done as it is.
LEMMA ReadFailsStep ==
    ASSUME Inv, NEW r \in Run, ReadFails(r)
    PROVE  Inv'
<1>1. PICK p \in {"unread", "unchecked"} :
          /\ GoTo(r, p)
          /\ p = "unread" => at[r] \in {"vault", "preflight"}
          /\ p = "unchecked" => at[r] = "postcheck"
  BY DEF ReadFails
<1>2. UNCHANGED <<ledgers, node, horizon, runs, inFlight, base>>
  BY DEF ReadFails, GoTo, chain
<1>3. RunOK(r) /\ r \notin inFlight
  BY <1>1 DEF Inv, RunOK, Built
<1>4. LandedAt(r) # {} => p = "unchecked"
  BY <1>1, Unlanded
<1>5. ASSUME at'[r] = p, base'[r] = base[r]
      PROVE  Passed(r)' /\ Built(r)' /\ Seen(r)' /\ Ended(r)'
  <2>1. Passed(r)'
    BY <1>1, <1>2, <1>3, <1>5
       DEF RunOK, Passed, Tool, PastVault, PastPreflight, Phases, Ends
  <2>2. Built(r)'
    BY <1>2, <1>3, <1>5 DEF Built, RunOK, Tool
  <2>3. Seen(r)' /\ Ended(r)'
    BY <1>5 DEF Seen, Ended
  <2> QED
    BY <2>1, <2>2, <2>3
<1>6. p \in Phases \cup Ends
  BY DEF Phases, Ends
<1> QED
  BY <1>1, <1>2, <1>4, <1>5, <1>6, GoToStep
-----------------------------------------------------------------------------
(* Every step.                                                             *)

LEMMA StartStep ==
    ASSUME Inv, NEW c \in Commands, Start(c)
    PROVE  Inv'
<1> DEFINE p == IF Configured(c) THEN AfterStart(c.tool) ELSE "refused"
<1>1. Shape
  BY DEF Inv
<1>0. PICK n \in Nat : n = Len(runs) + 1
  BY <1>1, Types
<1>2. /\ Len(runs) \in Nat /\ Len(runs) < MaxRuns /\ Run = 1..Len(runs)
      /\ DOMAIN runs = Run /\ node \in Nat /\ node > 0
      /\ Len(ledgers) \in Nat
  BY <1>1, Types DEF Start
<1>3. /\ runs' = Append(runs, c) /\ at' = Append(at, p)
      /\ base' = Append(base, 0) /\ number' = Append(number, 0)
      /\ UNCHANGED <<ledgers, node, horizon, inFlight>>
  BY DEF Start, chain
<1>4. /\ p \in {"refused", "vault", "preflight", "build", "confirm"}
      /\ p # "refused" /\ p # "vault" => c.tool # "transferAdmin"
      /\ p \in {"build", "confirm"} => c.tool \notin Preflighted
  BY DEF AfterStart, AfterVault, AfterPreflight, ChecksVault
<1> HIDE DEF p
<1>5. p \in Phases \cup Ends
  BY <1>4 DEF Phases, Ends
<1>6. /\ runs \in Seq(Commands) /\ at \in Seq(Phases \cup Ends)
      /\ base \in Seq(0..Len(ledgers)) /\ number \in Seq(Nat)
      /\ Len(at) = Len(runs) /\ Len(base) = Len(runs)
      /\ Len(number) = Len(runs)
  BY <1>1 DEF Shape
<1>7. /\ runs' \in Seq(Commands) /\ Len(runs') = n /\ runs'[n] = c
      /\ \A r \in Run : runs'[r] = runs[r]
  BY <1>0, <1>2, <1>3, <1>6, AppendProperties
<1>8. /\ at' \in Seq(Phases \cup Ends) /\ Len(at') = n /\ at'[n] = p
      /\ \A r \in Run : at'[r] = at[r]
  BY <1>0, <1>2, <1>3, <1>5, <1>6, AppendProperties
<1>9. /\ base' \in Seq(0..Len(ledgers)) /\ Len(base') = n /\ base'[n] = 0
      /\ \A r \in Run : base'[r] = base[r]
  <2>1. 0 \in 0..Len(ledgers)
    BY <1>2
  <2> QED
    BY <1>0, <1>2, <1>3, <1>6, <2>1, AppendProperties
<1>10. /\ number' \in Seq(Nat) /\ Len(number') = n
  BY <1>0, <1>3, <1>6, AppendProperties
<1>11. Run' = 1..n /\ DOMAIN runs' = Run' /\ Run \subseteq Run' /\ n \notin Run
  BY <1>0, <1>2, <1>7 DEF Run
<1>12. Shape'
  <2>1. inFlight' \subseteq DOMAIN runs'
    BY <1>1, <1>2, <1>3, <1>11 DEF Shape
  <2>2. n <= MaxRuns
    BY <1>0, <1>2
  <2> QED
    BY <1>1, <1>3, <1>7, <1>8, <1>9, <1>10, <2>1, <2>2 DEF Shape
<1>13. Quiet' /\ Owned'
  BY <1>3, <1>11 DEF Inv, Quiet, Owned
<1>14. ASSUME NEW r \in Run PROVE RunOK(r)'
  <2>1. Grown /\ node' \in Nat /\ RunOK(r)
    BY <1>2, <1>3 DEF Grown, Inv
  <2> QED
    BY <1>1, <1>3, <1>7, <1>8, <1>9, <2>1, RunKept
<1>15. RunOK(n)'
  <2>1. LandedAt(n)' = {} /\ n \notin inFlight'
    <3>1. LandedAt(n) = {}
      BY <1>0, <1>2, <1>11 DEF Inv, Owned, LandedAt
    <3>2. LandedAt(n)' = LandedAt(n)
      BY <1>3 DEF LandedAt
    <3>3. n \notin inFlight
      BY <1>1, <1>2, <1>11 DEF Shape
    <3> QED
      BY <1>3, <3>1, <3>2, <3>3
  <2>2. LandedOK(n)'
    BY <2>1 DEF LandedOK
  <2>3. Tool(n)' = c.tool
    BY <1>7 DEF Tool
  <2>4. Passed(n)'
    <3>1. Rotations \cup {"trustlineSelf"} \subseteq Preflighted
      BY DEF Preflighted
    <3> QED
      BY <1>4, <1>8, <2>3, <3>1 DEF Passed, PastVault, PastPreflight
  <2>5. Built(n)'
    BY <1>2, <1>3, <1>4, <1>8, <1>9, <2>1 DEF Built
  <2>6. Seen(n)' /\ Ended(n)'
    BY <1>4, <1>8 DEF Seen, Ended
  <2> QED
    BY <2>2, <2>4, <2>5, <2>6 DEF RunOK
<1>16. \A r \in Run' : r \in Run \/ r = n
  BY <1>0, <1>2, <1>11
<1> QED
  BY <1>12, <1>13, <1>14, <1>15, <1>16 DEF Inv

\* What nobody's run takes part in.
LEMMA EnvironmentStep ==
    ASSUME Inv, UNCHANGED <<ledgers, runs, at, base, number>>,
           inFlight' \subseteq inFlight,
           node' \in node..Len(ledgers), horizon' \in horizon..Len(ledgers)
    PROVE  Inv'
<1>1. Shape
  BY DEF Inv
<1>2. /\ node \in 1..Len(ledgers) /\ horizon \in 1..Len(ledgers)
      /\ Len(ledgers) \in Nat /\ DOMAIN ledgers = 1..Len(ledgers)
  BY <1>1, Types
<1>3. node' \in DOMAIN ledgers /\ horizon' \in DOMAIN ledgers
  BY <1>2
<1>4. Shape'
  BY <1>1, <1>3 DEF Shape
<1>5. Quiet' /\ Owned' /\ Run' = Run
  BY DEF Inv, Quiet, Owned, Run
<1>6. Grown /\ node' \in Nat
  BY <1>2 DEF Grown
<1>7. ASSUME NEW r \in Run PROVE RunOK(r)'
  <2>1. RunOK(r)
    BY DEF Inv
  <2> QED
    BY <1>1, <1>6, <2>1, RunKept
<1> QED
  BY <1>4, <1>5, <1>7 DEF Inv

LEMMA InvStep == Inv /\ [Next]_vars => Inv'
<1> SUFFICES ASSUME Inv, [Next]_vars PROVE Inv'
  OBVIOUS
<1>1. /\ node \in node..Len(ledgers) /\ horizon \in horizon..Len(ledgers)
      /\ \A i : i \in node + 1..Len(ledgers) => i \in node..Len(ledgers)
      /\ \A i : i \in horizon + 1..Len(ledgers) => i \in horizon..Len(ledgers)
  BY Types DEF Inv
<1>2. ASSUME NEW r \in Run, Drop(r) PROVE Inv'
  BY <1>1, <1>2, EnvironmentStep DEF Drop, chain
<1>3. ASSUME NodeSees PROVE Inv'
  BY <1>1, <1>3, EnvironmentStep DEF NodeSees
<1>4. ASSUME HorizonSees PROVE Inv'
  BY <1>1, <1>4, EnvironmentStep DEF HorizonSees
<1>5. ASSUME UNCHANGED vars PROVE Inv'
  BY <1>1, <1>5, EnvironmentStep DEF vars, chain
<1>6. ASSUME NEW r \in Run, Step(r) PROVE Inv'
  BY <1>6, CheckVaultStep, PreflightStep, ConfirmStep, BuildStep, SendStep,
     PollStep, PostcheckStep, ReadFailsStep DEF Step
<1> QED
  BY <1>2, <1>3, <1>4, <1>5, <1>6, StartStep, LandStep, OutsideStep DEF Next

LEMMA InvInvariant == Spec => []Inv
BY InitInv, InvStep, PTL DEF Spec

-----------------------------------------------------------------------------
(* The theorems.                                                           *)

(* The chain and the runs stay in their types: only what was sent reaches  *)
(* a ledger, and no tool with a preflight asks without having looked.      *)
THEOREM OperatorsTypes == Spec => []TypeOK
<1>1. ASSUME Inv PROVE TypeOK
  <2>1. Shape
    BY <1>1 DEF Inv
  <2>2. /\ \A i \in DOMAIN ledgers : ledgers[i] \in State
        /\ node \in DOMAIN ledgers /\ horizon \in DOMAIN ledgers
        /\ runs \in Seq(Commands) /\ inFlight \subseteq Run
    BY <2>1, Types DEF Shape, Run
  <2>3. /\ at \in [Run -> Phases \cup Ends]
        /\ base \in [Run -> 0..Len(ledgers)]
        /\ number \in [Run -> Nat]
    <3>1. Run = 1..Len(at) /\ Run = 1..Len(base) /\ Run = 1..Len(number)
      BY <2>1, Types DEF Shape
    <3>2. /\ at \in Seq(Phases \cup Ends) /\ base \in Seq(0..Len(ledgers))
          /\ number \in Seq(Nat)
      BY <2>1 DEF Shape
    <3> QED
      BY <3>1, <3>2, LenProperties
  <2>4. ASSUME NEW r \in Run
        PROVE  /\ LandedAt(r) # {} =>
                      at[r] \in {"poll", "postcheck", "error", "ok", "alarm",
                                "unchecked"}
               /\ Tool(r) \in Preflighted
                  /\ at[r] \in Phases \ {"vault", "preflight"} => base[r] > 0
    <3>1. RunOK(r)
      BY <1>1 DEF Inv
    <3>2. at[r] \in Phases \ {"vault", "preflight"} => at[r] \in PastPreflight
      BY DEF Phases, PastPreflight, PastVault
    <3> QED
      BY <3>1, <3>2 DEF RunOK, LandedOK, Passed
  <2> QED
    BY <2>2, <2>3, <2>4 DEF TypeOK, State
<1>2. Inv => TypeOK
  BY <1>1
<1> QED
  BY <1>2, InvInvariant, PTL

(* A transaction that passed its tool's preflight or simulation and failed *)
(* in its ledger met somebody else's successful one.                       *)
THEOREM FailureTheorem == Spec => []FailureMeansInterference
<1>1. Inv => FailureMeansInterference
  BY DEF Inv, RunOK, LandedOK, FailureMeansInterference
<1> QED
  BY <1>1, InvInvariant, PTL

(* A tool with a postcheck that exits without an error has changed the     *)
(* chain as it was asked to, at its transaction or after it.               *)
THEOREM CheckedExitTheorem == Spec => []CheckedExitMeansDone
<1>1. Inv => CheckedExitMeansDone
  BY DEF Inv, RunOK, Ended, CheckedExitMeansDone
<1> QED
  BY <1>1, InvInvariant, PTL

(* An alarm of set-admin or transfer-admin means that somebody else        *)
(* changed the chain since the preflight.                                  *)
THEOREM AlarmTheorem == Spec => []AlarmMeansInterference
<1>1. Inv => AlarmMeansInterference
  BY DEF Inv, RunOK, Ended, AlarmMeansInterference
<1> QED
  BY <1>1, InvInvariant, PTL

\* A rotation that got as far as a signature request was asked for by the
\* key that was the admin when the tool looked, and transfer-admin never
\* asks a vault of another key (transfer-admin.ts, set-admin.ts).
RequestsAreChecked ==
    \A r \in Run :
        Tool(r) \in Rotations
        /\ at[r] \in {"sign", "poll", "postcheck", "ok", "alarm", "unchecked"} =>
            /\ ledgers[base[r]].admin = runs[r].key
            /\ Tool(r) = "transferAdmin" => runs[r].signer = runs[r].key

(* No rotation gets to a signature request unless the chain's admin, as    *)
(* the tool read it, is the key it signs with.                             *)
THEOREM RequestsTheorem == Spec => []RequestsAreChecked
<1>1. Inv => RequestsAreChecked
  BY DEF Inv, RunOK, Passed, RequestsAreChecked, PastPreflight, PastVault,
         Phases, Ends
<1> QED
  BY <1>1, InvInvariant, PTL

(* trustline-self never trusts an asset but the one the wrapper's token    *)
(* contract is the contract of, whatever that contract says its name is.   *)
THEOREM TrustTheorem == Spec => []TrustsTheWrappersAsset
<1>1. ASSUME Inv PROVE TrustsTheWrappersAsset
  <2> SUFFICES ASSUME NEW r \in Run, NEW i \in LandedAt(r),
                      Tool(r) = "trustlineSelf"
               PROVE  \E a \in Assets :
                          /\ <<runs[r].key, a>> \in ledgers[i].lines
                          /\ SacOf[a] = SacToken[runs[r].arg]
    BY DEF TrustsTheWrappersAsset
  <2>1. RunOK(r)
    BY <1>1 DEF Inv
  <2>2. DerivedSacMatches(SacToken[runs[r].arg])
    BY <2>1 DEF RunOK, LandedOK, Passed, PastPreflight, PastVault, Phases,
                Ends
  <2>3. <<runs[r].key, NameOf[SacToken[runs[r].arg]]>> \in ledgers[i].lines
    BY <2>1 DEF RunOK, LandedOK, Trusted, Tool
  <2> QED
    BY <2>2, <2>3 DEF DerivedSacMatches
<1>2. Inv => TrustsTheWrappersAsset
  BY <1>1
<1> QED
  BY <1>2, InvInvariant, PTL
-----------------------------------------------------------------------------
(* Runs are attempts.                                                      *)

\* Runs that have not sent, and runs that tell what became of their
\* transaction.
Asking == Phases \ {"poll", "postcheck"}
Telling == {"postcheck", "ok", "alarm", "unchecked"}

Confirmed(r) == \E i \in LandedAt(r) : Tool(r) \in Throwing => ledgers[i].ok

Told == \A r \in Run : at[r] \in Telling => Confirmed(r)

Moves(r, p) ==
    \/ at[r] \in Asking /\ p \notin Telling
    \/ at[r] = "poll" /\ p \in {"error", "ok", "postcheck"}
       /\ (p # "error" => Confirmed(r))
    \/ at[r] = "postcheck" /\ p \in {"ok", "alarm", "unchecked"}

\* What a step that starts no run makes of run r.
Onward(r) ==
    /\ at'[r] = at[r] \/ Moves(r, at'[r])
    /\ r \in inFlight' => r \in inFlight \/ at[r] = "sign"
    /\ \A i \in LandedAt(r) : i \in LandedAt(r)' /\ ledgers'[i] = ledgers[i]
    /\ \A i \in LandedAt(r)' : i \in LandedAt(r) \/ r \in inFlight

Continue == runs' = runs /\ \A r \in Run : Onward(r)

LEMMA MoveOnward ==
    ASSUME Inv, NEW r \in Run, NEW p, at' = [at EXCEPT ![r] = p],
           Moves(r, p), UNCHANGED <<ledgers, runs>>,
           inFlight' \subseteq
               inFlight \cup (IF at[r] = "sign" THEN {r} ELSE {})
    PROVE  Continue
<1>1. DOMAIN at = Run
  BY Types DEF Inv
<1>2. ASSUME NEW s \in Run PROVE Onward(s)
  <2>1. LandedAt(s)' = LandedAt(s)
    BY DEF LandedAt
  <2>2. at'[s] = at[s] \/ Moves(s, at'[s])
    BY <1>1
  <2> QED
    BY <2>1, <2>2 DEF Onward, LandedAt
<1> QED
  BY <1>2 DEF Continue

LEMMA CloseOnward ==
    ASSUME Inv, NEW new \in State, ledgers' = Append(ledgers, new),
           new.run \in inFlight \cup {0}, UNCHANGED <<runs, at>>,
           inFlight' \subseteq inFlight
    PROVE  Continue
<1>1. PICK n \in Nat : n = Len(ledgers)
  <2>1. Shape
    BY DEF Inv
  <2> QED
    BY <2>1, Types
<1>2. /\ DOMAIN ledgers = 1..n /\ DOMAIN ledgers' = 1..(n + 1)
      /\ ledgers'[n + 1] = new
      /\ \A i \in 1..n : ledgers'[i] = ledgers[i]
  BY <1>1, Types, AppendProperties DEF Inv, Shape
<1>3. ASSUME NEW r \in Run PROVE Onward(r)
  <2>1. \A i \in LandedAt(r) : i \in LandedAt(r)' /\ ledgers'[i] = ledgers[i]
    BY <1>2 DEF LandedAt
  <2>2. ASSUME NEW i \in LandedAt(r)' PROVE i \in LandedAt(r) \/ r \in inFlight
    <3>1. i \in 1..(n + 1) /\ ledgers'[i].run = r
      BY <1>2 DEF LandedAt
    <3>2. CASE i \in 1..n
      BY <1>2, <3>1, <3>2 DEF LandedAt
    <3>3. CASE i = n + 1
      <4>1. r # 0
        BY Types DEF Inv
      <4> QED
        BY <1>2, <3>1, <3>3, <4>1
    <3> QED
      BY <3>1, <3>2, <3>3
  <2> QED
    BY <2>1, <2>2 DEF Onward
<1> QED
  BY <1>3 DEF Continue

LEMMA StepOnward ==
    ASSUME Inv, NEW r \in Run, Step(r)
    PROVE  Continue
<1>1. UNCHANGED <<ledgers, runs>>
  BY DEF Step, CheckVault, Preflight, Confirm, DryRun, Build, Send, PollResult,
         GiveUp, Postcheck, ReadFails, GoTo, chain
<1>2. CASE CheckVault(r)
  <2>1. /\ at[r] \in Asking
        /\ AfterVault(Tool(r)) \in Phases \ Telling
    BY <1>2 DEF CheckVault, Asking, Telling, Phases, AfterVault, AfterPreflight
  <2> QED
    BY <1>1, <1>2, <2>1, MoveOnward DEF CheckVault, GoTo, Moves, Telling
<1>3. CASE Preflight(r)
  <2>1. /\ at[r] \in Asking
        /\ AfterPreflight(Tool(r)) \in Phases \ Telling
    BY <1>3 DEF Preflight, Asking, Telling, Phases, AfterPreflight
  <2> QED
    BY <1>1, <1>3, <2>1, MoveOnward DEF Preflight, GoTo, Moves, Telling
<1>4. CASE Confirm(r) \/ DryRun(r) \/ Build(r)
  <2>1. at[r] \in Asking
    BY <1>4 DEF Confirm, DryRun, Build, Asking, Phases
  <2>2. PICK p \in {"build", "aborted", "sign", "error"} :
            at' = [at EXCEPT ![r] = p] /\ inFlight' = inFlight
    BY <1>4 DEF Confirm, DryRun, Build, GoTo
  <2> QED
    BY <1>1, <2>1, <2>2, MoveOnward DEF Moves, Telling
<1>5. CASE Send(r)
  <2>1. at[r] = "sign" /\ at[r] \in Asking
    BY <1>5 DEF Send, Asking, Phases
  <2>2. PICK p \in {"poll", "error"} :
            at' = [at EXCEPT ![r] = p] /\ inFlight' \subseteq inFlight \cup {r}
    BY <1>5 DEF Send
  <2> QED
    BY <1>1, <2>1, <2>2, MoveOnward DEF Moves, Telling
<1>6. CASE PollResult(r)
  <2>1. PICK i \in LandedAt(r) : GoTo(r, PrintResult(Tool(r), ledgers[i].ok))
    BY <1>6 DEF PollResult
  <2>2. PICK p \in {"error", "ok", "postcheck"} :
            /\ p = PrintResult(Tool(r), ledgers[i].ok)
            /\ p # "error" => Confirmed(r)
    BY DEF PrintResult, Confirmed
  <2> QED
    BY <1>1, <1>6, <2>1, <2>2, MoveOnward DEF PollResult, GoTo, Moves
<1>7. CASE GiveUp(r)
  BY <1>1, <1>7, MoveOnward DEF GiveUp, GoTo, Moves
<1>8. CASE Postcheck(r)
  BY <1>1, <1>8, MoveOnward DEF Postcheck, GoTo, Moves
<1>9. CASE ReadFails(r)
  <2>1. CASE at[r] \in {"vault", "preflight"} /\ GoTo(r, "unread")
    <3>1. at[r] \in Asking
      BY <2>1 DEF Asking, Phases
    <3> QED
      BY <1>1, <2>1, <3>1, MoveOnward DEF GoTo, Moves, Telling
  <2>2. CASE at[r] = "postcheck" /\ GoTo(r, "unchecked")
    BY <1>1, <2>2, MoveOnward DEF GoTo, Moves
  <2> QED
    BY <1>9, <2>1, <2>2 DEF ReadFails
<1> QED
  BY <1>2, <1>3, <1>4, <1>5, <1>6, <1>7, <1>8, <1>9 DEF Step

LEMMA OnwardStep ==
    ASSUME Inv, [Next]_vars
    PROVE  Continue \/ \E c \in Commands : Start(c)
<1>1. ASSUME UNCHANGED <<ledgers, runs, at>>, inFlight' \subseteq inFlight
      PROVE  Continue
  BY <1>1 DEF Continue, Onward, LandedAt
<1>2. ASSUME NEW r \in Run, Land(r) PROVE Continue
  <2>1. /\ r \in inFlight /\ Close(r, runs[r]) /\ inFlight' \subseteq inFlight
        /\ UNCHANGED <<runs, at>>
    BY <1>2 DEF Land
  <2>2. Shape /\ RunOK(r)
    BY DEF Inv
  <2>3. /\ r \in 1..Len(runs) /\ Len(runs) \in Nat /\ Len(runs) <= MaxRuns
        /\ MaxRuns \in Nat /\ runs[r] \in Commands
    BY <2>2, Types DEF Shape
  <2>4. Tool(r) = "trustlineSelf" => NameOf[SacToken[runs[r].arg]] \in Assets
    BY <2>1, <2>2
       DEF RunOK, Built, Passed, PastPreflight, PastVault, Phases, Ends,
           DerivedSacMatches
  <2>5. PICK new \in State : ledgers' = Append(ledgers, new) /\ new.run = r
    BY <2>1, <2>2, <2>3, <2>4, CommandTypes, CloseEffect DEF Tool
  <2> QED
    BY <2>1, <2>5, CloseOnward
<1>3. ASSUME Outside PROVE Continue
  <2>1. /\ UNCHANGED <<runs, at, inFlight>>
        /\ \E c \in Outsiders : Close(0, c)
    BY <1>3 DEF Outside
  <2>2. PICK c \in Outsiders : Close(0, c)
    BY <2>1
  <2>3. /\ c.key \in Keys /\ c.arg \in ArgumentsOf(c.tool)
        /\ c.tool # "trustlineSelf"
    BY DEF Outsiders, ArgumentsOf
  <2>4. PICK new \in State : ledgers' = Append(ledgers, new) /\ new.run = 0
    BY <2>2, <2>3, CloseEffect DEF Inv
  <2> QED
    BY <2>1, <2>4, CloseOnward
<1>4. ASSUME NEW r \in Run, Drop(r) PROVE Continue
  BY <1>1, <1>4 DEF Drop, chain
<1>5. CASE NodeSees \/ HorizonSees
  BY <1>1, <1>5 DEF NodeSees, HorizonSees
<1>6. CASE UNCHANGED vars
  BY <1>1, <1>6 DEF vars, chain
<1> QED
  BY <1>2, <1>3, <1>4, <1>5, <1>6, StepOnward DEF Next

\* A tool tells of a transaction that stays in its ledger.
LEMMA ToldStep ==
    ASSUME Inv, Told, Continue
    PROVE  Told'
<1>1. Run' = Run
  BY DEF Continue, Run
<1>2. ASSUME NEW r \in Run, at'[r] \in Telling PROVE Confirmed(r)'
  <2>1. Onward(r) /\ Tool(r)' = Tool(r)
    BY DEF Continue, Tool
  <2>2. Confirmed(r)
    BY <1>2, <2>1 DEF Onward, Moves, Told, Telling
  <2> QED
    BY <2>1, <2>2 DEF Onward, Confirmed
<1> QED
  BY <1>1, <1>2 DEF Told

\* A fate is decided once.
LEMMA FateOnward ==
    ASSUME Inv, NEW r \in Run, Onward(r)
    PROVE  \/ Fate(r)' = Fate(r)
           \/ Fate(r) = "open" /\ Fate(r)' \in Attempt!Decided
<1>1. LandedAt(r) # {} => r \notin inFlight
  BY DEF Inv, RunOK, LandedOK
<1>2. CASE LandedAt(r) # {}
  <2>1. /\ LandedAt(r)' = LandedAt(r)
        /\ \A i \in LandedAt(r) : ledgers'[i] = ledgers[i]
    BY <1>1, <1>2 DEF Onward
  <2> QED
    BY <1>2, <2>1 DEF Fate
<1>3. CASE LandedAt(r) = {} /\ LandedAt(r)' # {}
  <2>1. Fate(r) = "open"
    BY <1>3 DEF Onward, Fate
  <2>2. Fate(r)' \in {"applied", "failed"}
    BY <1>3 DEF Fate
  <2> QED
    BY <2>1, <2>2 DEF Attempt!Decided
<1>4. CASE LandedAt(r) = {} /\ LandedAt(r)' = {}
  <2>1. Fate(r) \in {"open", "void"} /\ Fate(r)' \in {"open", "void"}
    BY <1>4 DEF Fate
  <2>2. ASSUME Fate(r)' = "open" PROVE Fate(r) = "open"
    <3>1. r \in inFlight' \/ at'[r] \in Asking
      BY <1>4, <2>2 DEF Fate, Asking
    <3>2. r \in inFlight \/ at[r] \in Asking
      BY <3>1 DEF Onward, Moves, Asking, Phases
    <3> QED
      BY <1>4, <3>2 DEF Fate, Asking
  <2> QED
    BY <2>1, <2>2 DEF Attempt!Decided
<1> QED
  BY <1>2, <1>3, <1>4

LEMMA AnswerOnward ==
    ASSUME Inv, NEW r \in Run, Onward(r), Tool(r)' = Tool(r)
    PROVE  \/ Answer(r)' = Answer(r)
           \/ Answer(r) = "none" /\ Answer(r)' \in Attempt!Answers
<1>1. /\ at[r] \in Asking \cup {"poll"} => Answer(r) = "none"
      /\ Answer(r)' \in Attempt!Answers \cup {"none"}
  BY DEF Answer, Attempt!Answers, Asking, Phases
<1>2. CASE at[r] \in Asking \cup {"poll"}
  BY <1>1, <1>2
<1>3. CASE at'[r] = at[r]
  BY <1>3 DEF Answer
<1>4. CASE at[r] = "postcheck" /\ at'[r] \in {"ok", "alarm", "unchecked"}
  BY <1>4 DEF Answer
<1> QED
  BY <1>2, <1>3, <1>4 DEF Onward, Moves

\* What tools have told is so.
AnswersAgree == \A r \in Run : Attempt!Agrees(Answer(r), Fate(r))

LEMMA AnswersTrue == Inv /\ Told => AnswersAgree
<1> SUFFICES ASSUME Inv, Told, NEW r \in Run
             PROVE  Attempt!Agrees(Answer(r), Fate(r))
  BY DEF AnswersAgree
<1>1. RunOK(r) /\ at[r] \in Phases \cup Ends
  BY Types DEF Inv
<1>2. CASE at[r] \in {"refused", "unread", "aborted", "unchanged"}
  <2>1. Fate(r) = "void"
    BY <1>1, <1>2 DEF RunOK, LandedOK, Built, Fate, Phases
  <2> QED
    BY <1>2, <2>1 DEF Answer, Attempt!Agrees
<1>3. CASE at[r] \in Telling
  <2>1. PICK i \in LandedAt(r) : Tool(r) \in Throwing => ledgers[i].ok
    BY <1>3 DEF Told, Confirmed
  <2>2. /\ Fate(r) \in {"applied", "failed"}
        /\ Tool(r) \in Throwing => Fate(r) = "applied"
    BY <2>1 DEF Fate
  <2>3. Answer(r) = IF Tool(r) \in Throwing THEN "success" ELSE "landed"
    BY <1>3 DEF Answer, Telling
  <2> QED
    BY <2>2, <2>3 DEF Attempt!Agrees
<1>4. CASE at[r] \in Asking \cup {"poll", "error"}
  <2>1. Answer(r) \in {"none", "unknown"}
    BY <1>4 DEF Answer, Asking, Phases
  <2> QED
    BY <2>1 DEF Attempt!Agrees
<1> QED
  BY <1>1, <1>2, <1>3, <1>4 DEF Asking, Telling, Phases, Ends

LEMMA ProceedStep ==
    ASSUME Inv, Continue, AnswersAgree'
    PROVE  Attempt!Proceed
<1>1. Run' = Run
  BY DEF Continue, Run
<1>2. ASSUME NEW r \in Run
      PROVE  /\ \/ Fate(r)' = Fate(r)
                \/ Fate(r) = "open" /\ Fate(r)' \in Attempt!Decided
             /\ \/ Answer(r)' = Answer(r)
                \/ Answer(r) = "none" /\ Answer(r)' \in Attempt!Answers
             /\ Attempt!Agrees(Answer(r), Fate(r))'
  <2>1. Onward(r) /\ Tool(r)' = Tool(r)
    BY DEF Continue, Tool
  <2>2. Attempt!Agrees(Answer(r), Fate(r))'
    BY <1>1 DEF AnswersAgree
  <2> QED
    BY <2>1, <2>2, FateOnward, AnswerOnward
<1> QED
  BY <1>1, <1>2 DEF Attempt!Proceed, Attempt!Attempted, Attempt!Agrees

\* A run is started: it has not told anything, and nothing of it is sent.
LEMMA BeginStep ==
    ASSUME Inv, Told, NEW c \in Commands, Start(c)
    PROVE  Attempt!Begin /\ Told'
<1>0. PICK n \in Nat : n = Len(runs) + 1
  <2>1. Shape
    BY DEF Inv
  <2> QED
    BY <2>1, Types
<1>1. PICK p \in Asking \cup {"refused"} :
          runs' = Append(runs, c) /\ at' = Append(at, p)
  BY DEF Start, AfterStart, AfterVault, AfterPreflight, Asking, Phases
<1>2. UNCHANGED <<ledgers, inFlight>>
  BY DEF Start, chain
<1>3. /\ Len(runs) \in Nat /\ Run = 1..Len(runs) /\ DOMAIN runs = Run
      /\ runs \in Seq(Commands) /\ at \in Seq(Phases \cup Ends)
      /\ Len(at) = Len(runs) /\ inFlight \subseteq Run
      /\ p \in Phases \cup Ends
  BY Types DEF Inv, Shape, Run, Asking, Ends
<1>4. /\ Len(runs') = n /\ runs' \in Seq(Commands)
      /\ \A r \in Run : runs'[r] = runs[r]
  BY <1>0, <1>1, <1>3, AppendProperties
<1>5. at'[n] = p /\ \A r \in Run : at'[r] = at[r]
  BY <1>0, <1>1, <1>3, AppendProperties
<1>6. n \notin Run /\ Run' = Run \cup {n}
  <2>1. DOMAIN runs' = 1..n
    BY <1>4
  <2> QED
    BY <1>0, <1>3, <2>1 DEF Run
<1>7. \A r : LandedAt(r)' = LandedAt(r)
  BY <1>2 DEF LandedAt
<1>8. ASSUME NEW r \in Run
      PROVE  r # n /\ Fate(r)' = Fate(r) /\ Answer(r)' = Answer(r)
  <2>1. Tool(r)' = Tool(r) /\ at'[r] = at[r] /\ LandedAt(r)' = LandedAt(r)
    BY <1>4, <1>5, <1>7 DEF Tool
  <2>2. Fate(r)' = Fate(r)
    BY <1>2, <2>1 DEF Fate
  <2>3. Answer(r)' = Answer(r)
    BY <2>1 DEF Answer
  <2> QED
    BY <1>6, <2>2, <2>3
<1>9. LandedAt(n)' = {} /\ n \notin inFlight'
  <2>1. LandedAt(n) = {}
    BY <1>0, <1>3, <1>6 DEF Inv, Owned, LandedAt
  <2> QED
    BY <1>2, <1>3, <1>6, <1>7, <2>1
<1>10. IF p = "refused"
       THEN Fate(n)' = "void" /\ Answer(n)' = "never"
       ELSE Fate(n)' = "open" /\ Answer(n)' = "none"
  <2>1. Fate(n)' = IF p \in Asking THEN "open" ELSE "void"
    BY <1>5, <1>9 DEF Fate, Asking
  <2>2. Answer(n)' = IF p = "refused" THEN "never" ELSE "none"
    BY <1>5 DEF Answer, Asking, Phases
  <2>3. p \in Asking <=> p # "refused"
    BY DEF Asking, Phases
  <2> QED
    BY <2>1, <2>2, <2>3
<1>11. ASSUME NEW f, NEW a, Fate(n)' = f, Answer(n)' = a
       PROVE  /\ [r \in Run' |-> Fate(r)'] =
                     [q \in Run \cup {n} |->
                         IF q = n THEN f ELSE [r \in Run |-> Fate(r)][q]]
              /\ [r \in Run' |-> Answer(r)'] =
                     [q \in Run \cup {n} |->
                         IF q = n THEN a ELSE [r \in Run |-> Answer(r)][q]]
  BY <1>6, <1>8, <1>11
<1>12. Attempt!Begin
  BY <1>6, <1>10, <1>11 DEF Attempt!Begin, Attempt!Extended, Attempt!Attempted
<1>13. Told'
  <2>1. ASSUME NEW r \in Run, at'[r] \in Telling PROVE Confirmed(r)'
    <3>1. Confirmed(r)
      BY <1>5, <2>1 DEF Told
    <3> QED
      BY <1>2, <1>4, <1>7, <3>1 DEF Confirmed, Tool
  <2>2. at'[n] \notin Telling
    BY <1>5 DEF Asking, Telling, Phases
  <2> QED
    BY <1>6, <2>1, <2>2 DEF Told
<1> QED
  BY <1>12, <1>13

(* The command lines implement attempts, as the calls of the SDK they are  *)
(* made of do: however runs, nodes and other tools interleave, each run's  *)
(* transaction is decided once, a run that is refused, aborted or finds    *)
(* nothing to do has nothing left that may land, and no tool that ends     *)
(* without throwing is contradicted by the chain, then or later.           *)
THEOREM AttemptsTheorem == Spec => ImplementsAttempts
<1>1. Init => Told /\ Attempt!Init
  <2> SUFFICES ASSUME Init PROVE Told /\ Attempt!Init
    OBVIOUS
  <2>1. Run = {}
    BY DEF Init, Run
  <2> QED
    BY <2>1 DEF Told, Attempt!Init, Attempt!Nobody
<1>2. Inv /\ Told /\ [Next]_vars => Told'
  BY OnwardStep, ToldStep, BeginStep
<1>3. Inv /\ Told /\ AnswersAgree' /\ [Next]_vars =>
          [Attempt!Next]_Attempt!attemptVars
  BY OnwardStep, BeginStep, ProceedStep DEF Attempt!Next
<1> QED
  BY <1>1, <1>2, <1>3, InvInvariant, AnswersTrue, PTL
  DEF Spec, ImplementsAttempts, Attempt!Spec
=============================================================================
