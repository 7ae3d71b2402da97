SPECIFICATION FairSpec
CONSTANTS
  ENC_KEY_LENGTH = 2
  RANGE = 1
  RecvSize = 11
  IntMax = 7
  FileSizes <- MCFileSizes
  EncLen = 2
  Layouts <- MCLayouts
  ShortReplies = FALSE
  ErrorReplies = FALSE
  MaxRounds = 5
INVARIANTS
  TypeOK OutputIsPrefix RawBesideOutput RequestsTile IntegersFit RoundsAligned
  BufferFits
PROPERTIES
  ImplementsTransfer Completes CloseEndsTheRun
