SPECIFICATION FairSpec
CONSTANTS
  Threads = {1, 2}
  Main = 0
  Blocks = {1, 2, 3, 4, 5, 6}
  MaxNew = 2
  MaxLost = 2
INVARIANTS TypeOK InOnePlace ReportTellsLeaks LostUnlessRaced
PROPERTIES ReportEnds
CHECK_DEADLOCK FALSE
