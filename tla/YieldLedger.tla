----------------------------- MODULE YieldLedger ----------------------------
(***************************************************************************)
(* What a yield-bearing token promises, whatever index, present values and *)
(* rounding it is built from.  Amounts are in the unit of the worth; the   *)
(* principal is worth so much, so much is outstanding.                     *)
(*                                                                         *)
(* No step pays ahead of earnings, no issue adds more worth than tokens    *)
(* and no redemption retires more tokens than worth.                       *)
(***************************************************************************)
EXTENDS Integers

VARIABLES worth, outstanding, earned, paid

ledgerVars == <<worth, outstanding, earned, paid>>

Init == worth = 0 /\ outstanding = 0 /\ earned = 0 /\ paid = 0

Accrue ==
    /\ earned' >= earned
    /\ worth' - worth = earned' - earned
    /\ UNCHANGED <<outstanding, paid>>

Issue ==
    /\ worth' >= worth
    /\ worth' - worth <= outstanding' - outstanding
    /\ UNCHANGED <<earned, paid>>

Redeem ==
    /\ outstanding' <= outstanding
    /\ outstanding' >= 0
    /\ worth - worth' >= outstanding - outstanding'
    /\ UNCHANGED <<earned, paid>>

Pay ==
    /\ outstanding' >= outstanding
    /\ paid' - paid = outstanding' - outstanding
    /\ outstanding' <= worth
    /\ UNCHANGED <<worth, earned>>

Next == Accrue \/ Issue \/ Redeem \/ Pay

Spec == Init /\ [][Next]_ledgerVars

\* Everything paid was earned before it was paid.
PaidWithinEarned == paid <= earned
=============================================================================
