SPECIFICATION FairSpec
CONSTANTS
  j1 = j1
  j2 = j2
  v1 = v1
  v2 = v2
  None = None
  Jobs <- TwoJobs
  VMs <- TwoVMs
  Configured <- OneJob
  ProjectOf <- NoNumber
  JobIdOf <- NoNumber
  SlotOf <- OwnSlot
  Safe <- SafeChars
  MaxPrepares = 3
INVARIANTS
  TypeOK
  EveryVmInCustody
  OneVmPerJob
  NothingLeftWhenDone
PROPERTIES
  CustodySpec
  JobsFinish
CHECK_DEADLOCK FALSE
