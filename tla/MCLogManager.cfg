SPECIFICATION Spec
CONSTANTS
  t1 = t1
  t2 = t2
  Loggers <- MCLoggers
  Levels <- MCLevels
  MemSizes <- MCMemSizes
  FlushEvery = 1
  MaxFileLength = 2
  RecordLen = 1
  MaxRecords = 2
  MaxClock = 1
  Overwrites = TRUE
SYMMETRY Symmetry
INVARIANTS TypeOK ControllersThere ThreadBesideRun SameOrder
