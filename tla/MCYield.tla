------------------------------- MODULE MCYield ------------------------------
(***************************************************************************)
(* The yield arithmetic over a longer time: nobody holds a trustline, the  *)
(* gateway mints and pays to the issuer and reconciles what is destroyed   *)
(* there, so that the accumulators are the whole state.  One operator has  *)
(* every role.  100 is the fixed-point one and a ledger is a year, so that *)
(* every division leaves a remainder and a gap of three years at the       *)
(* highest rate overflows MaxI128.                                         *)
(***************************************************************************)
EXTENDS GatewayProperties

CONSTANTS op, issuer, gateway

MCOperators == {op}
MCRecipients == {issuer}
MCAmounts == {-1, 1, 3}
MCRates == {0, 50, 51}
=============================================================================
