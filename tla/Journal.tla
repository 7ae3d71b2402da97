------------------------------- MODULE Journal --------------------------------
(***************************************************************************)
(* What a log promises whoever writes to it, without files or a memory     *)
(* block: while the log is open, the records it accepts are kept in the    *)
(* order they came, each once.  Some of the last ones may be pending, and  *)
(* only these are lost when the log is closed or its process dies.  Where  *)
(* `overwrites`, a log file begun in the second in which the last one was  *)
(* begun takes its place, and the last of the kept records are lost too.   *)
(***************************************************************************)
EXTENDS Naturals, Sequences

CONSTANT Records

VARIABLES kept, pending, open,
  overwrites    (* never changes *)

Init == kept = <<>> /\ pending = <<>> /\ open = FALSE /\ overwrites \in BOOLEAN

Beginning(s, t) == Len(s) <= Len(t) /\ \A i \in 1..Len(s) : s[i] = t[i]

(* Some of the pending records, or all, become kept ones.                  *)
Moves(all) == kept' \o pending' = all /\ Len(kept') >= Len(kept)

Accept(record) == open /\ open' /\ Moves(kept \o pending \o <<record>>)

Persist == open /\ open' /\ Moves(kept \o pending)

Open == ~open /\ open' /\ UNCHANGED <<kept, pending>>

Close == open /\ ~open' /\ kept' = kept /\ pending' = <<>>

Overwrite ==
  overwrites /\ open' /\ Beginning(kept', kept) /\ pending' = <<>>

Next ==
  /\ UNCHANGED overwrites
  /\ \/ \E record \in Records : Accept(record)
     \/ Persist \/ Open \/ Close \/ Overwrite

Spec == Init /\ [][Next]_<<kept, pending, open, overwrites>>
=============================================================================
