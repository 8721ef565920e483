SPECIFICATION Spec
CONSTANTS
  Keys = {"a", "b"}
  FirstAdmin = "a"
  Minter = "a"
  Pausers = {"a"}
  BlockOperators = {"a"}
  UnblockOperators = {"b"}
  Domains = {"d", "e"}
  Assets = {"gusd", "other"}
  Wrappers = {"gateway", "lookalikes"}
  SacToken <- MCSacToken
  NameOf <- MCNameOf
  SacOf <- MCSacOf
  MaxRuns = 2
  MaxOutside = 1
  Commands <- MCPausing
INVARIANTS
  PausersPassThePreflight
CHECK_DEADLOCK FALSE
