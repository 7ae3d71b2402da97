-------------------------------- MODULE MCTexts --------------------------------
(* NUL, line feed, blank, %, &, +, 0, <, a, and bytes past 127; the        *)
(* characters blank, -, A and a.                                           *)
EXTENDS Texts

MCOctets == {0, 10, 32, 37, 38, 43, 48, 60, 97, 255}
MCLetters == {32, 45, 65, 97}
MCSeqs == {0, 1, 9, 10, 99, 100, 16382, 16383}
MCTotals == {0, 1, 131072, IntMax}
=============================================================================
