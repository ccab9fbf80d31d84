CONSTANTS
  r1 = r1
  r2 = r2
  NoReceiver = NoReceiver
  Receivers <- MCReceivers
  MaxAddresses = 3
  InitSize = 2
SPECIFICATION FairSpec
INVARIANTS AllTried
PROPERTIES ImplementsDelivery EverySendEnds
CHECK_DEADLOCK FALSE
