SPECIFICATION Spec
CONSTANTS
  MaxFileLength = 5
  RecordLen = 2
  MemSizes <- MCMemSizes
  MaxRecords = 6
  MaxClock = 2
INVARIANTS TypeOK CountersMatch FilesBounded
PROPERTIES OldFilesKept ImplementsJournal
CHECK_DEADLOCK FALSE
