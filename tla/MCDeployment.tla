---------------------------- MODULE MCDeployment ----------------------------
(***************************************************************************)
(* Two outsiders, and up to three runs of the tools on one issuer.         *)
(***************************************************************************)
EXTENDS Deployment, TLC

CONSTANTS alice, bob, issuer, noSac

MCOutsiders == {alice, bob}
OutsiderSymmetry == Permutations(MCOutsiders)
=============================================================================
