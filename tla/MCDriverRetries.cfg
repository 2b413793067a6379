SPECIFICATION Spec
CONSTANTS
  j1 = j1
  j2 = j2
  v1 = v1
  v2 = v2
  None = None
  Jobs <- OneJob
  VMs <- TwoVMs
  Configured <- OneJob
  ProjectOf <- Projects
  JobIdOf <- JobIds
  SlotOf <- OneSlot
  Safe <- SafeChars
  MaxPrepares = 2
PROPERTY
  RetriesDontLeak
CHECK_DEADLOCK FALSE
