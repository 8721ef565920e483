SPECIFICATION Spec
CONSTANTS
  Operations <- MCNotes
  Network = "testnet"
  ApproverNetworks = {"testnet"}
  Approvers = {"x"}
  Digits = {10}
  MaxCalls = 1
INVARIANTS
  NotesFit
