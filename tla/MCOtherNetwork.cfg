SPECIFICATION Spec
CONSTANTS
  Operations <- MCOperations
  Network = "testnet"
  ApproverNetworks = {"testnet", "mainnet"}
  Approvers = {"x"}
  Digits = {1}
  MaxCalls = 1
INVARIANTS
  TamperMeansMismatch
