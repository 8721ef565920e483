SPECIFICATION Spec
CONSTANTS
  Tags = {"v1", "v2"}
  Bytes = {"one", "two", "mine"}
  Attested = {"one", "two"}
  BuildOf <- MCBuildOf
  BuilderDomain = "other"
  None = "-"
  Settings <- MCSettings
  MaxRuns = 1
  MaxChanges = 0
INVARIANTS
  ReleaseCommitReproduces
CHECK_DEADLOCK FALSE
