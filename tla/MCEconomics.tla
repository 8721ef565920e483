----------------------------- MODULE MCEconomics ----------------------------
(***************************************************************************)
(* The two books on a small scale: two holders who trade and send to the   *)
(* issuer, one operator in every role, a SAC adminship that goes away and  *)
(* comes back, an index of which 100 is the fixed-point one, and ledgers a *)
(* year apart, so that every division leaves a remainder.                  *)
(***************************************************************************)
EXTENDS GatewayProperties, TLC

CONSTANTS alice, bob, op, issuer, gateway, outside

MCHolders == {alice, bob}
MCOperators == {op}
MCRecipients == MCHolders
HolderSymmetry == Permutations(MCHolders)
MCAmounts == {-1, 1, 2}
MCOutsideAdmins == {outside}
MCRates == {0, 50, 51}
=============================================================================
