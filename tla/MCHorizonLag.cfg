SPECIFICATION Spec
CONSTANTS
  Keys = {"a", "b"}
  FirstAdmin = "a"
  Minter = "a"
  Pausers = {"a"}
  BlockOperators = {"a"}
  UnblockOperators = {"b"}
  Domains = {"d", "e"}
  Assets = {"gusd", "other"}
  Wrappers = {"gateway", "lookalikes"}
  SacToken <- MCSacToken
  NameOf <- MCNameOf
  SacOf <- MCSacOf
  MaxRuns = 1
  MaxOutside = 0
  Commands <- MCAccounts
INVARIANTS
  HomeDomainAlarmIsTrue
CHECK_DEADLOCK FALSE
