------------------------------ MODULE Approval ------------------------------
(***************************************************************************)
(* What the approver of a Fireblocks RAW signing request can know of it.   *)
(*                                                                         *)
(* The SDK hands Fireblocks a hash, and beside it a note and the envelope  *)
(* the hash is of (signHash); it prints hash and envelope for the          *)
(* submitter to pass on (printShareBlock).  An approver inspects a request *)
(* by its id (fb-tx-inspect), or an envelope that somebody sent            *)
(* (verify-envelope), compares hashes, compares the decoded operation with *)
(* what the submitter described, and approves.  Several calls are under    *)
(* way at once, so that ids and envelopes get mixed up.                    *)
(***************************************************************************)
EXTENDS Naturals, Sequences, Functions, GatewayInterface

CONSTANTS Operations,      \* what calls ask for: records with a "type"
          Network,         \* the passphrase of the submitters' .env
          ApproverNetworks,\* of the approvers' .env or --network
          Approvers,
          Digits,          \* lengths of an amount in decimal
          MaxCalls         \* bound: calls made

ASSUME ApprovalAssumption ==
    /\ \A op \in Operations : "type" \in DOMAIN op
    /\ Network \in ApproverNetworks
    /\ Digits \subseteq 1..39              \* i128
    /\ MaxCalls \in Nat

VARIABLES requests,        \* Fireblocks transactions, in the order created
          refused,         \* calls whose simulation found no entry point
          desk,            \* what each approver has before their eyes
          approved         \* <<request, call the approver meant>>

vars == <<requests, refused, desk, approved>>

Nothing == [type |-> "nothing"]

\* Operations that are simulated and then assembled with what was found.
Simulated == {"invokeContract", "uploadContractWasm", "createContract"}

\* One envelope per call: the assembled transaction has the simulation's
\* footprint and fees, and another hash than the raw one.
Envelopes == [op : Operations, call : 1..MaxCalls, assembled : BOOLEAN]

Hash(envelope, passphrase) == <<envelope, passphrase>>

Verdicts == {"none", "limited", "tamper", "verified", "differs"}

TypeOK ==
    /\ \A q \in DOMAIN requests :
           /\ requests[q].content \in Envelopes \X {Network}
           /\ requests[q].stash \in Envelopes \cup {Nothing}
           /\ requests[q].shared \in Envelopes
           /\ requests[q].content[1].op.type \in Simulated =>
                  requests[q].content[1].assembled
    /\ Len(requests) <= MaxCalls
    /\ refused \subseteq Operations
    /\ \A a \in Approvers :
           /\ desk[a].request \in 0..Len(requests)
           /\ desk[a].verdict \in Verdicts
           /\ desk[a].verdict \in {"tamper", "verified"} => desk[a].request > 0
    /\ approved \subseteq (1..MaxCalls) \X (1..MaxCalls)

EmptyDesk == [request |-> 0, verdict |-> "none", shown |-> Nothing,
              network |-> Network]

Init ==
    /\ requests = << >>
    /\ refused = {}
    /\ desk = [a \in Approvers |-> EmptyDesk]
    /\ approved = {}

-----------------------------------------------------------------------------
(* The note of a request, in characters.                                   *)

MaxNoteLength == 250

\* The arguments each wrapper passes to noteFor.
SettingArguments ==
    [mint |-> <<"to", "amount">>, burn |-> <<"from", "amount">>,
     set_rate |-> <<"rate_bps">>, set_minter |-> <<"new_minter">>,
     set_admin |-> <<"new_admin">>,
     set_yield_recipient_manager |-> <<"new_yrm">>,
     set_forced_transfer_manager |-> <<"new_ftm">>,
     set_pauser |-> <<"new_pauser">>,
     set_yield_recipient |-> <<"new_yield_recipient">>,
     transfer_sac_admin |-> <<"new_sac_admin">>,
     upgrade |-> <<"new_wasm_hash">>]

HolderArguments ==
    [pause |-> << >>, unpause |-> << >>,
     block_user |-> <<"user">>, unblock_user |-> <<"user">>,
     batch_block_users |-> <<"users_count", "first", "last">>,
     batch_unblock_users |-> <<"users_count", "first", "last">>,
     force_transfer |-> <<"from", "to", "amount">>,
     reconcile_burn |-> <<"amount">>, claim_yield |-> << >>]

OperatorArguments ==
    [add_block_operator |-> <<"addr">>, remove_block_operator |-> <<"addr">>,
     add_unblock_operator |-> <<"addr">>,
     remove_unblock_operator |-> <<"addr">>]

NoteArguments ==
    [method \in DOMAIN SettingArguments \cup DOMAIN HolderArguments
                \cup DOMAIN OperatorArguments |->
        IF method \in DOMAIN SettingArguments THEN SettingArguments[method]
        ELSE IF method \in DOMAIN HolderArguments THEN HolderArguments[method]
        ELSE OperatorArguments[method]]

\* Calls are made through the wrappers.
ASSUME OperationsAssumption ==
    \A op \in Operations :
        op.type = "invokeContract" => op.method \in DOMAIN NoteArguments

\* What the note prints around its words; "_" is a newline.
Prefix == "mintergateway::"
ArgumentFrame == "_  : "
ContractFrame == "_  contract: "
CallerFrame == "_  caller:   "

\* How long the words of a note are.
ASSUME WordsAssumption ==
    /\ Len(Prefix) = 15 /\ Len(ArgumentFrame) = 5
    /\ Len(ContractFrame) = 13 /\ Len(CallerFrame) = 13
    /\ \A method \in DOMAIN NoteArguments : Len(method) \in 1..27
    /\ \A word \in {"to", "from", "amount", "user", "addr", "first", "last"} :
           Len(word) \in 1..6
    /\ Len("users_count") = 11
    /\ \A word \in {"rate_bps", "new_minter", "new_admin", "new_yrm",
                    "new_ftm", "new_pauser", "new_yield_recipient",
                    "new_sac_admin", "new_wasm_hash"} : Len(word) \in 1..19

AddressLength == 56

\* A rate and a batch size at their longest (10000, 40), a hash in hex.
ValueLength(argument, digits) ==
    CASE argument = "amount" -> digits
      [] argument = "rate_bps" -> 5
      [] argument = "users_count" -> 2
      [] argument = "new_wasm_hash" -> 64
      [] OTHER -> AddressLength

HeadLength(method) == Len(Prefix) + Len(method)

\* Newline, indentation, key, colon and blank, value.
ArgumentsLength(method, digits) ==
    LET args == NoteArguments[method]
    IN  FoldFunction(LAMBDA n, m : n + m, 0,
            [i \in DOMAIN args |-> Len(ArgumentFrame) + Len(args[i])
                                   + ValueLength(args[i], digits)])

ContractLength == Len(ContractFrame) + AddressLength
CallerLength == Len(CallerFrame) + AddressLength

NoteLength(method, digits) ==
    HeadLength(method) + ArgumentsLength(method, digits)
    + ContractLength + CallerLength

\* Mutated: the contract is printed before the arguments.
ContractFirst(method, digits) ==
    HeadLength(method) + ContractLength + ArgumentsLength(method, digits)

\* Where the last argument ends in the note.
ArgumentsEnd(method, digits) ==
    HeadLength(method) + ArgumentsLength(method, digits)

\* How much of the note is left in front of the three dots.
KeptLength(method, digits) ==
    IF NoteLength(method, digits) <= MaxNoteLength
    THEN NoteLength(method, digits)
    ELSE MaxNoteLength - 3

-----------------------------------------------------------------------------
(* Decoding, the same in both tools.                                       *)

\* Mutated: the arguments of a call are left out.
WithoutArguments(op) == {"contract", "method", "line", "limit", "homeDomain"}

ShownFields(op) ==
    CASE op.type = "invokeContract" -> {"contract", "method", "args"}
      [] op.type = "changeTrust" -> {"line", "limit"}
      [] op.type = "setOptions" -> {"setFlags", "clearFlags", "homeDomain"}
      [] op.type = "uploadContractWasm" -> {"length"}
      [] op.type = "createContract" -> {}

FormatOperation(op) ==
    Restrict(op, DOMAIN op \cap ({"type"} \cup ShownFields(op)))

DescribeNetwork(passphrase) == passphrase

\* Mutated: the approver does not compare the hashes.
TakeForGranted(envelope, passphrase, content) == TRUE

HashesAgree(envelope, passphrase, content) ==
    Hash(envelope, passphrase) = content

-----------------------------------------------------------------------------
(* Submitters.                                                             *)

\* Mutated: the envelope of the transaction that was simulated.
StashRaw(envelope) == [envelope EXCEPT !.assembled = FALSE]

EnvelopeXdr(envelope) == envelope

\* Mutated: the transaction is signed as it was built.
LeaveRaw(envelope) == envelope

\* A classic operation is not simulated.
SimulateAndPrepare(envelope) ==
    [envelope EXCEPT !.assembled = envelope.op.type \in Simulated]

\* What the query wrappers ask the contract for.
Queries ==
    {"admin", "sac_token", "minter", "yield_recipient",
     "yield_recipient_manager", "forced_transfer_manager",
     "is_block_operator", "is_unblock_operator", "blocked", "balance",
     "total_supply", "total_principal", "accrued_yield", "current_index",
     "latest_index", "interest_rate", "paused", "pauser"}

Simulates(op) ==
    op.type \in {"invokeContract", "query"} => op.method \in EntryPoints

Refuse(op) ==
    /\ ~Simulates(op)
    /\ refused' = refused \cup {op}
    /\ UNCHANGED <<requests, desk, approved>>

\* A version of the SDK before inline stashing left the envelope out.
Submit(op, stashes) ==
    LET envelope == SimulateAndPrepare([op |-> op, assembled |-> FALSE,
                                        call |-> Len(requests) + 1])
    IN  /\ Simulates(op) /\ op.type # "query"
        /\ Len(requests) < MaxCalls
        /\ requests' = Append(requests,
                         [content |-> Hash(envelope, Network),
                          stash |-> IF stashes THEN EnvelopeXdr(envelope)
                                               ELSE Nothing,
                          shared |-> EnvelopeXdr(envelope)])
        /\ UNCHANGED <<refused, desk, approved>>

-----------------------------------------------------------------------------
(* Approvers.                                                              *)

Lay(a, q, verdict, envelope, passphrase) ==
    /\ desk' = [desk EXCEPT ![a] =
                  [request |-> q, verdict |-> verdict,
                   shown |-> IF verdict = "verified"
                             THEN FormatOperation(envelope.op) ELSE Nothing,
                   network |-> DescribeNetwork(passphrase)]]
    /\ UNCHANGED <<requests, refused, approved>>

\* fb-tx-inspect <id>.
Inspect(a, q, passphrase) ==
    LET stash == requests[q].stash
    IN  \/ /\ stash = Nothing
           /\ Lay(a, q, "limited", stash, passphrase)
        \/ /\ stash # Nothing
           /\ HashesAgree(stash, passphrase, requests[q].content)
           /\ Lay(a, q, "verified", stash, passphrase)
        \/ /\ stash # Nothing
           /\ ~HashesAgree(stash, passphrase, requests[q].content)
           /\ Lay(a, q, "tamper", stash, passphrase)

\* verify-envelope of the envelope of call s, which the approver takes for
\* that of the request on the desk and whose hash they compare with it.
VerifyEnvelope(a, s, passphrase) ==
    LET q == desk[a].request
    IN  /\ desk[a].verdict \in {"limited", "differs"}
        /\ \/ /\ HashesAgree(requests[s].shared, passphrase,
                             requests[q].content)
              /\ Lay(a, q, "verified", requests[s].shared, passphrase)
           \/ /\ ~HashesAgree(requests[s].shared, passphrase,
                              requests[q].content)
              /\ Lay(a, q, "differs", requests[s].shared, passphrase)

\* The approver meant call m, as its submitter described it.
Approve(a, m) ==
    /\ desk[a].verdict = "verified"
    /\ desk[a].shown = FormatOperation(requests[m].content[1].op)
    /\ approved' = approved \cup {<<desk[a].request, m>>}
    /\ desk' = [desk EXCEPT ![a] = EmptyDesk]
    /\ UNCHANGED <<requests, refused>>

-----------------------------------------------------------------------------
Next ==
    \/ \E op \in Operations, stashes \in BOOLEAN : Submit(op, stashes)
    \/ \E op \in Operations : Refuse(op)
    \/ \E a \in Approvers, q \in DOMAIN requests, n \in ApproverNetworks :
           \/ Inspect(a, q, n)
           \/ VerifyEnvelope(a, q, n)
    \/ \E a \in Approvers, m \in DOMAIN requests : Approve(a, m)

Spec == Init /\ [][Next]_vars

-----------------------------------------------------------------------------
(* Properties.                                                             *)

\* What either tool lets an approver take for verified is what the signature
\* will be of: the operation shown is the signed envelope's, on the network
\* shown, however ids and envelopes were mixed up (fb-tx-inspect.ts,
\* verify-envelope.ts).
VerifiedIsSigned ==
    \A a \in Approvers :
        desk[a].verdict = "verified" =>
            LET signed == requests[desk[a].request].content
            IN  /\ desk[a].shown = FormatOperation(signed[1].op)
                /\ desk[a].network = DescribeNetwork(signed[2])

\* Whoever inspects a request of this SDK on the network it is for is never
\* told of tampering: what is stashed is what was hashed, simulated or not
\* (client.ts, fb-tx-inspect.ts).
NoFalseAlarm ==
    \A a \in Approvers :
        desk[a].verdict = "tamper" => desk[a].network # Network

\* Claimed by fb-tx-inspect.ts of every alarm of its: "The envelope XDR
\* stashed in this tx does NOT produce the hash Fireblocks will sign".
TamperMeansMismatch ==
    \A a \in Approvers :
        desk[a].verdict = "tamper" =>
            Hash(requests[desk[a].request].stash, Network)
                # requests[desk[a].request].content

\* An approval signs the operation its approver meant, though the approver
\* has seen a decoded one only (verify-envelope.ts: "what the tx actually
\* does").
ApprovedIsDescribed ==
    \A pair \in approved :
        requests[pair[1]].content[1].op = requests[pair[2]].content[1].op

\* Truncation of a note never reaches the method and the arguments of a
\* call, whatever the amount (fireblocks-note.ts).
NoteKeepsArguments ==
    \A q \in DOMAIN requests, digits \in Digits :
        LET op == requests[q].content[1].op
        IN  op.type = "invokeContract" =>
                ArgumentsEnd(op.method, digits) <= KeptLength(op.method, digits)

\* Claimed by parity.test.ts and scripts/README.md: the wrappers, queries
\* included, call the methods of the contract and no others.
WrappersCallTheContract == refused = {}

\* Claimed by fireblocks-note.ts: the format "fits within that budget for
\* every method defined in this SDK".
NotesFit ==
    \A q \in DOMAIN requests, digits \in Digits :
        LET op == requests[q].content[1].op
        IN  op.type = "invokeContract" =>
                NoteLength(op.method, digits) <= MaxNoteLength
=============================================================================
