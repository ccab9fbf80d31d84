CONSTANTS
  Warn = 1
  Crit = 2
  MaxLevel = 2
  MaxJobs = 2
  Configurations <- MCConfigurations
SPECIFICATION Spec
INVARIANTS SlowAnswerIsNoticed
CHECK_DEADLOCK FALSE
