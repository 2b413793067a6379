SPECIFICATION FairSpec
CONSTANTS
  b1 = b1
  b2 = b2
  None = None
  Buckets <- TwoBuckets
  DefaultBucket <- FirstBucket
  HasRegion = TRUE
  HasTerminal = TRUE
  MaxRuns = 3
INVARIANTS
  TypeOK
  BuildHasItsInputs
  ConfigNamesBuiltImage
  SuccessIsConfigured
  SuccessCleansUp
PROPERTIES
  WizardEnds
CHECK_DEADLOCK FALSE
