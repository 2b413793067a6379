SPECIFICATION Spec
CONSTANTS
  Atoi <- Numerals
  Padded <- Blanks
  Parts <- Lists
  Texts <- Decimals
  Answers <- WizardAnswers
  Exports <- HostExports
  JobVars <- Overrides
  MaxSetups = 2
  Starts = {0, 20}
  CallTimes = {0, 2}
  MaxCall = 2
  PingTimes = {0, 2}
  MaxPing = 2
  ScriptTimes = {500, 3550}
  PollInterval = 2
  PrepareBudget = 22
  ServiceDuration = 100
  LongestDuration = 28800
  DefaultTimeout = 3600
INVARIANT ReadyToUse
CHECK_DEADLOCK FALSE
