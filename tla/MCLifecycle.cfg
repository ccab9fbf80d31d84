CONSTANTS
  ConsumerCount = 2
  MaxSignals = 3
SPECIFICATION FairSpec
INVARIANT NobodyLeftBlocked
PROPERTIES StopTerminates SignalTerminates
CHECK_DEADLOCK FALSE
