SPECIFICATION Spec
CONSTANTS
  Spaces = {0, 1, 2}
  Texts = {0, 1, 2}
  Part = 9
  Commented = {2}
  MaxEntries = 2
  MaxLines = 2
  MaxFds = 1
INVARIANTS
  TypeOK
  SavedReadsBack
PROPERTY
  CutKeepsTheRest
