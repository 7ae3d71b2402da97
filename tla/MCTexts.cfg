SPECIFICATION Spec
CONSTANTS
  Octets <- MCOctets
  Letters <- MCLetters
  Seeds = 3
  MaxText = 18
  MaxSearched = 4
  MaxPattern = 3
  Seqs <- MCSeqs
  Totals <- MCTotals
INVARIANTS DecodersInvert StringsAgree RequestReadsBack
CHECK_DEADLOCK FALSE
