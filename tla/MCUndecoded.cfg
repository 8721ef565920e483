SPECIFICATION Spec
CONSTANTS
  Operations <- MCUndecoded
  Network = "testnet"
  ApproverNetworks = {"testnet"}
  Approvers = {"x"}
  Digits = {1}
  MaxCalls = 2
INVARIANTS
  ApprovedIsDescribed
