SPECIFICATION Spec
CONSTANTS
  Tags = {"v1", "v2"}
  Bytes = {"one", "two", "mine"}
  Attested = {"one", "two"}
  BuildOf <- MCBuildOf
  BuilderDomain = "m0.org"
  None = "-"
  Settings <- MCShell
  MaxRuns = 2
  MaxChanges = 1
INVARIANTS
  PipelineUploadsVerifiedBytes
CHECK_DEADLOCK FALSE
