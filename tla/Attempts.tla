------------------------------ MODULE Attempts ------------------------------
(***************************************************************************)
(* What a client promises of the transactions it makes, whatever nodes,    *)
(* custodians, queues and polls they go through.  An attempt has a fate on *)
(* the chain, which is decided once, and an answer to its caller, which is *)
(* given once and does not contradict the fate: not the one it has and not *)
(* the one it will have.                                                   *)
(*                                                                         *)
(* What "unknown" answers is open: the attempt may still be decided any    *)
(* way, and a caller who makes another one as if nothing had happened may  *)
(* have both applied.  An exclusive caller does not.                       *)
(***************************************************************************)

CONSTANT Exclusive   \* TRUE: an attempt is made only when none before it has
                     \*   had an effect or can still have one

VARIABLES fate,      \* of each attempt
          answer     \* to each attempt's caller

attemptVars == <<fate, answer>>

Attempted == DOMAIN fate

\* In a ledger with its effect, in a ledger without one, or lost for good.
Decided == {"applied", "failed", "void"}

Agrees(a, f) ==
    /\ a = "success" => f = "applied"
    /\ a = "failed" => f = "failed"
    /\ a = "landed" => f \in {"applied", "failed"}
    /\ a = "never" => f = "void"

Answers == {"success", "failed", "landed", "never", "unknown"}

Nobody == [i \in {} |-> "none"]

Init == fate = Nobody /\ answer = Nobody

Extended(f, i, value) ==
    [j \in Attempted \cup {i} |-> IF j = i THEN value ELSE f[j]]

\* An attempt is made, or refused before it is one.
Begin ==
    /\ Exclusive => \A i \in Attempted : fate[i] \in {"failed", "void"}
    /\ \E i \in DOMAIN fate' \ Attempted :
          \/ /\ fate' = Extended(fate, i, "open")
             /\ answer' = Extended(answer, i, "none")
          \/ /\ fate' = Extended(fate, i, "void")
             /\ answer' = Extended(answer, i, "never")

\* Attempts are decided, and callers answered.
Proceed ==
    /\ DOMAIN fate' = Attempted /\ DOMAIN answer' = Attempted
    /\ \A i \in Attempted :
          /\ \/ fate'[i] = fate[i]
             \/ fate[i] = "open" /\ fate'[i] \in Decided
          /\ \/ answer'[i] = answer[i]
             \/ answer[i] = "none" /\ answer'[i] \in Answers
          /\ Agrees(answer'[i], fate'[i])

Next == Begin \/ Proceed

Spec == Init /\ [][Next]_attemptVars
=============================================================================
