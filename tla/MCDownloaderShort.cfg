SPECIFICATION FairSpec
CONSTANTS
  ENC_KEY_LENGTH = 2
  RANGE = 1
  RecvSize = 11
  IntMax = 7
  FileSizes <- MCShortFileSizes
  EncLen = 2
  Layouts <- MCShortLayouts
  ShortReplies = TRUE
  ErrorReplies = TRUE
  MaxRounds = 4
INVARIANTS
  CompleteMeansWhole OutputInOrder
