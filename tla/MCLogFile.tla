------------------------------ MODULE MCLogFile -------------------------------
(* Blocks of two sizes, each larger than a record, and none.               *)
EXTENDS LogFile

MCMemSizes == {0, 3, 5}
=============================================================================
