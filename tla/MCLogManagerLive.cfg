SPECIFICATION FairSpec
CONSTANTS
  t1 = t1
  t2 = t2
  Loggers <- MCOneLogger
  Levels <- MCLevels
  MemSizes <- MCMemSizes
  FlushEvery = 1
  MaxFileLength = 2
  RecordLen = 1
  MaxRecords = 2
  MaxClock = 1
  Overwrites = FALSE
PROPERTIES ImplementsJournal StopReturns BlockIsFlushed
