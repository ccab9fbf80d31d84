CONSTANTS
  MaxBatchSize = 2
  MaxBatchDelay = 2
  StaleAge = 3
  RetryDelay = 1
  MaxRetries <- MCMaxRetries
  PutDelay = 1
  MaxChecks = 3
SPECIFICATION FairSpec
INVARIANTS NothingLost SentWasDelivered AttemptsAreBounded OneLateAttempt BatchIsNotHeldBack
PROPERTIES DropsAreJustified StopIsObeyed EveryCheckHandled
CHECK_DEADLOCK FALSE
