SPECIFICATION Spec
CONSTANTS
  b1 = b1
  b2 = b2
  None = None
  Buckets <- TwoBuckets
  DefaultBucket <- FirstBucket
  HasRegion = TRUE
  HasTerminal = TRUE
  MaxRuns = 2
CHECK_DEADLOCK FALSE
INVARIANTS
  RoleReadsArtifact
