SPECIFICATION Spec
CONSTANTS
  Tags = {"v1", "v2"}
  Bytes = {"one", "two", "mine"}
  Attested = {"one", "two"}
  BuildOf <- MCBuildOf
  BuilderDomain = "m0.org"
  None = "-"
  Settings <- MCSettings
  MaxRuns = 2
  MaxChanges = 1
INVARIANTS
  TypeOK
  SdkDeploysPinnedBytes
  ReceiptIsTrue
  UnattestedIsAcknowledged
  PipelineDeploysItsRelease
  ReceiptNamesItsCommit
CHECK_DEADLOCK FALSE
