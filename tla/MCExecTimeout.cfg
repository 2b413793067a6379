SPECIFICATION Spec
CONSTANTS
  Codes <- ExitCodes
  SignalCode <- SigKill
  Running = Running
  MaxChunks = 1
  PipeCap = 1
  WireCap = 1
PROPERTY
  GivenUpForAReason
CHECK_DEADLOCK FALSE
