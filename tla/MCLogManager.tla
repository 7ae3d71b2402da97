----------------------------- MODULE MCLogManager -----------------------------
(* Two threads that log, or one; a block that two records fill.            *)
EXTENDS LogManager, TLC

CONSTANTS t1, t2

MCLoggers   == {t1, t2}
MCOneLogger == {t1}
MCLevels    == {1, 2}
MCMemSizes  == {0, 2}
Symmetry    == Permutations(MCLoggers)
=============================================================================
