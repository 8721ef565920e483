-------------------------- MODULE IssuerLifecycle --------------------------
(***************************************************************************)
(* What an issuer and the contract of its asset (SAC) may go through,      *)
(* whatever runs of the tools fail, are repeated or land late: forward     *)
(* only, and in this order.                                                *)
(***************************************************************************)
EXTENDS Naturals

CONSTANTS Issuer, NoSac,  \* the SAC's admin at first, and before it exists
          Careful         \* TRUE: only a deployment that passed its smoke
                          \*   test is followed by giving up the key

VARIABLES flags,      \* of the issuer's account
          signers,    \* who can sign for it
          admin,      \* of the SAC: a gateway's number in the end
          completed,  \* gateways whose deployment passed its smoke test
          reported    \* the last word on the issuer is that it is renounced

issuerVars == <<flags, signers, admin, completed, reported>>

AuthFlags == {"required", "revocable", "clawback"}
Sealed == AuthFlags \cup {"immutable"}
HandedOver == admin \in Nat \ {0}

Init ==
    /\ flags = {}
    /\ signers = {"master"}
    /\ admin = NoSac
    /\ completed = {}
    /\ reported = FALSE

\* Only the master key does anything, and nothing once the flags are locked.
Unlocked == "master" \in signers /\ "immutable" \notin flags

Configure ==
    /\ Unlocked
    /\ flags' = flags \cup AuthFlags
    /\ UNCHANGED <<signers, admin, completed, reported>>

AddSigner ==
    /\ Unlocked
    /\ signers' = signers \cup {"second"}
    /\ UNCHANGED <<flags, admin, completed, reported>>

CreateSac ==
    /\ admin = NoSac
    /\ admin' = Issuer
    /\ UNCHANGED <<flags, signers, completed, reported>>

HandOver ==
    /\ "master" \in signers
    /\ admin = Issuer
    /\ HandedOver'
    /\ UNCHANGED <<flags, signers, completed, reported>>

Complete ==
    /\ AuthFlags \subseteq flags
    /\ HandedOver
    /\ completed' = completed \cup {admin}
    /\ UNCHANGED <<flags, signers, admin, reported>>

\* There is no way back from here.
GiveUpTheKey ==
    /\ Unlocked
    /\ Careful => AuthFlags \subseteq flags /\ admin \in completed
    /\ flags' = flags \cup {"immutable"}
    /\ signers' = signers \ {"master"}
    /\ UNCHANGED <<admin, completed, reported>>

ReportRenounced ==
    /\ signers = {} /\ flags = Sealed /\ HandedOver
    /\ reported' = TRUE
    /\ UNCHANGED <<flags, signers, admin, completed>>

\* Another run begins.
Forget ==
    /\ reported' = FALSE
    /\ UNCHANGED <<flags, signers, admin, completed>>

Next ==
    \/ Configure \/ AddSigner
    \/ CreateSac \/ HandOver \/ Complete
    \/ GiveUpTheKey \/ ReportRenounced \/ Forget

Spec == Init /\ [][Next]_issuerVars
=============================================================================
