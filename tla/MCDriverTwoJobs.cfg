SPECIFICATION Spec
CONSTANTS
  j1 = j1
  j2 = j2
  v1 = v1
  v2 = v2
  None = None
  Jobs <- TwoJobs
  VMs <- TwoVMs
  Configured <- TwoJobs
  ProjectOf <- Projects
  JobIdOf <- JobIds
  SlotOf <- OneSlot
  Safe <- SafeChars
  MaxPrepares = 2
SYMMETRY VmSymmetry
INVARIANTS
  ExecIsAuthorized
PROPERTIES
  TerminatesOnlyItsOwn
CHECK_DEADLOCK FALSE
