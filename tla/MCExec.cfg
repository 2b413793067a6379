SPECIFICATION FairSpec
CONSTANTS
  Codes <- ExitCodes
  SignalCode <- SigKill
  Running = Running
  MaxChunks = 2
  PipeCap = 1
  WireCap = 2
INVARIANTS
  TypeOK
  VerdictIsTheScripts
  OutputIsFaithful
PROPERTIES
  OneTerminalFrame
  RemoteSpec
  CallerGoneGroupDies
  StageEnds
CHECK_DEADLOCK FALSE
