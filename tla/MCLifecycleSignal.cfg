CONSTANTS
  ConsumerCount = 1
  MaxSignals = 2
SPECIFICATION FairSpec
PROPERTY SignalIsHeeded
CHECK_DEADLOCK FALSE
