SPECIFICATION Spec
CONSTANTS
  Spaces = {0, 1}
  Texts = {0, 1}
  Part = 9
  Commented = {}
  MaxEntries = 2
  MaxLines = 1
  MaxFds = 1
INVARIANT
  EraseSpaceErases
