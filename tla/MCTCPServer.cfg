CONSTANTS
  alice = alice
  bob = bob
  Clients <- MCClients
  Server = Server
  NoSocket = NoSocket
  AnswerSize = 1
  SendRoom = 1
  MaxMessages = 1
SPECIFICATION FairSpec
INVARIANTS OnlyOpenSockets HandlersNeverRaise BufferedIsWanted BytesAddUp
PROPERTIES OnlyDeadIsClosed EveryClientServed HangUpNoticed StopIsObeyed
CHECK_DEADLOCK FALSE
