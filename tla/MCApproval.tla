----------------------------- MODULE MCApproval -----------------------------
(* Calls of several types, among them two that differ in one argument.     *)
EXTENDS Approval, FiniteSets

Call(method, args) == [type |-> "invokeContract", contract |-> "gateway",
                       method |-> method, args |-> args]

MCOperations ==
    {Call("mint", <<"a", 1>>), Call("mint", <<"a", 2>>),
     Call("force_transfer", <<"a", "b", 1>>),
     [type |-> "setOptions", setFlags |-> 11, homeDomain |-> "d"],
     [type |-> "changeTrust", line |-> "gusd"]}

\* One call of every method an SDK wrapper writes a note for.
MCNotes == {Call(method, << >>) : method \in DOMAIN NoteArguments}

\* Both: what the wrappers ask for and what the deployment does.
MCRequests == MCOperations \cup MCNotes

\* The queries as well.
MCWrappers ==
    MCNotes \cup {[type |-> "query", method |-> method] : method \in Queries}

\* What add-issuer-signer and the deployment build.
MCUndecoded ==
    {[type |-> "setOptions", signer |-> <<"a", 1>>],
     [type |-> "setOptions", signer |-> <<"b", 1>>],
     [type |-> "createContract", wasmHash |-> "h"],
     [type |-> "uploadContractWasm", length |-> 2, wasm |-> "w"]}
=============================================================================
