CONSTANTS
  Letters <- MCLetters
  Names <- MCNames
  MaxBatchSize = 2
SPECIFICATION Spec
INVARIANTS SensorBeforeState AnnouncedOnce
