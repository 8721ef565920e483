SPECIFICATION Spec
CONSTANTS
  Operations <- MCWrappers
  Network = "testnet"
  ApproverNetworks = {"testnet"}
  Approvers = {"x"}
  Digits = {10}
  MaxCalls = 1
INVARIANTS
  WrappersCallTheContract
