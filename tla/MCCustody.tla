------------------------------ MODULE MCCustody -----------------------------
(***************************************************************************)
(* Who may do what: two addresses that hold each role alone, both or       *)
(* neither and rotate them, a holder who opens and closes a trustline, a   *)
(* SAC adminship that goes away and comes back, and one rate and one year, *)
(* after which a claim pays, to the issuer.                                *)
(***************************************************************************)
EXTENDS GatewayProperties, TLC

CONSTANTS alice, op1, op2, issuer, gateway, outside

MCHolders == {alice}
MCOperators == {op1, op2}
MCRecipients == {issuer}
MCOutsideAdmins == {outside}
OperatorSymmetry == Permutations(MCOperators)
=============================================================================
