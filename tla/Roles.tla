-------------------------------- MODULE Roles -------------------------------
(***************************************************************************)
(* admin.rs and roles.rs: who may call which entry point.  Four roles and  *)
(* the passive yield recipient are single addresses; block operators,      *)
(* unblock operators and pausers are membership sets.  require_auth is the *)
(* identity of the caller a gateway action is given.                       *)
(***************************************************************************)

CONSTANTS Operators,   \* addresses that call the gateway
          Recipients   \* addresses claimed yield may be sent to

VARIABLES admin, minter, yieldRecipientManager, yieldRecipient,
          forcedTransferManager, blockOperators, unblockOperators, pausers

singleRoles == <<admin, minter, yieldRecipientManager, yieldRecipient,
                 forcedTransferManager>>
setRoles == <<blockOperators, unblockOperators, pausers>>
roleVars == <<singleRoles, setRoles>>

RolesTypeOK ==
    /\ admin \in Operators
    /\ minter \in Operators
    /\ yieldRecipientManager \in Operators
    /\ yieldRecipient \in Recipients
    /\ forcedTransferManager \in Operators
    /\ blockOperators \subseteq Operators
    /\ unblockOperators \subseteq Operators
    /\ pausers \subseteq Operators

\* The constructor: any address in any role, each set holding one.
RolesInit ==
    /\ admin \in Operators
    /\ minter \in Operators
    /\ yieldRecipientManager \in Operators
    /\ yieldRecipient \in Recipients
    /\ forcedTransferManager \in Operators
    /\ \E b, u, p \in Operators : /\ blockOperators = {b}
                                  /\ unblockOperators = {u}
                                  /\ pausers = {p}

RequireAdmin(caller) == caller = admin
RequireRoleHolder(caller, roleHolder) == caller = roleHolder
RequireMember(caller, members) == caller \in members

-----------------------------------------------------------------------------
(* The admin's entry points.                                               *)

SetAdmin(caller, newAdmin) ==
    /\ RequireAdmin(caller)
    /\ admin' = newAdmin
    /\ UNCHANGED <<minter, yieldRecipientManager, yieldRecipient,
                   forcedTransferManager, setRoles>>

SetMinter(caller, newMinter) ==
    /\ RequireAdmin(caller)
    /\ minter' = newMinter
    /\ UNCHANGED <<admin, yieldRecipientManager, yieldRecipient,
                   forcedTransferManager, setRoles>>

SetYieldRecipientManager(caller, newManager) ==
    /\ RequireAdmin(caller)
    /\ yieldRecipientManager' = newManager
    /\ UNCHANGED <<admin, minter, yieldRecipient, forcedTransferManager,
                   setRoles>>

SetForcedTransferManager(caller, newManager) ==
    /\ RequireAdmin(caller)
    /\ forcedTransferManager' = newManager
    /\ UNCHANGED <<admin, minter, yieldRecipientManager, yieldRecipient,
                   setRoles>>

AddBlockOperator(caller, addr) ==
    /\ RequireAdmin(caller)
    /\ blockOperators' = blockOperators \cup {addr}
    /\ UNCHANGED <<singleRoles, unblockOperators, pausers>>

RemoveBlockOperator(caller, addr) ==
    /\ RequireAdmin(caller)
    /\ blockOperators' = blockOperators \ {addr}
    /\ UNCHANGED <<singleRoles, unblockOperators, pausers>>

AddUnblockOperator(caller, addr) ==
    /\ RequireAdmin(caller)
    /\ unblockOperators' = unblockOperators \cup {addr}
    /\ UNCHANGED <<singleRoles, blockOperators, pausers>>

RemoveUnblockOperator(caller, addr) ==
    /\ RequireAdmin(caller)
    /\ unblockOperators' = unblockOperators \ {addr}
    /\ UNCHANGED <<singleRoles, blockOperators, pausers>>

AddPauser(caller, addr) ==
    /\ RequireAdmin(caller)
    /\ pausers' = pausers \cup {addr}
    /\ UNCHANGED <<singleRoles, blockOperators, unblockOperators>>

RemovePauser(caller, addr) ==
    /\ RequireAdmin(caller)
    /\ pausers' = pausers \ {addr}
    /\ UNCHANGED <<singleRoles, blockOperators, unblockOperators>>

\* set_yield_recipient, of the yield recipient manager
SetYieldRecipient(caller, newYieldRecipient) ==
    /\ RequireRoleHolder(caller, yieldRecipientManager)
    /\ yieldRecipient' = newYieldRecipient
    /\ UNCHANGED <<admin, minter, yieldRecipientManager,
                   forcedTransferManager, setRoles>>
=============================================================================
