CONSTANTS
  Files <- MCFiles
  Root = "sauna.yml"
  Contents <- MCContents
  Registered <- MCRegistered
  Names <- MCNames
  NoName = NoName
  DefaultName <- MCDefaultName
  LowerOf <- MCLowerOf
  MaxDepth = 4
SPECIFICATION FairStartup
INVARIANTS NamesAreUnique NothingForgotten
PROPERTIES ReadingEnds
CHECK_DEADLOCK FALSE
