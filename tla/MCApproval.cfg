SPECIFICATION Spec
CONSTANTS
  Operations <- MCRequests
  Network = "testnet"
  ApproverNetworks = {"testnet", "mainnet"}
  Approvers = {"x"}
  Digits = {1, 20, 39}
  MaxCalls = 2
INVARIANTS
  TypeOK
  VerifiedIsSigned
  NoFalseAlarm
  ApprovedIsDescribed
  NoteKeepsArguments
