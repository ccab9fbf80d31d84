CONSTANTS
  PeriodDomain <- MCPeriodDomain
  MaxWakes <- MCMaxWakes
SPECIFICATION Spec
INVARIANT CycleFitsEveryJob
PROPERTY RunsOnSchedule
CHECK_DEADLOCK FALSE
