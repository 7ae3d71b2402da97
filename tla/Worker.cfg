SPECIFICATION Spec
CONSTANTS
  Owners = {1, 2}
  None = 0
  MaxThreads = 2
  MaxValues = 2
INVARIANTS TypeOK OneThread ListInOrder
PROPERTIES Answered
