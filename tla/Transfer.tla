------------------------------- MODULE Transfer -------------------------------
(***************************************************************************)
(* What the downloader promises its user, without requests, packets or a   *)
(* connection: while a transfer runs, the output is a growing prefix of    *)
(* the plain file; the transfer is complete exactly when the output is the *)
(* whole file; it may be given up at any time, even in the middle of a     *)
(* write, and then started again from nothing.                             *)
(***************************************************************************)
EXTENDS Naturals, Sequences

CONSTANT PlainBlock(_)   (* the file's plain block at a position            *)

VARIABLES size, output, status

PlainPrefix(n) == [i \in 1..n |-> PlainBlock(i - 1)]

Init == output = PlainPrefix(0) /\ status = "running"

(* At the file's end the transfer stops by itself.                         *)
Grow(n) ==
  /\ status = "running"
  /\ Len(output) < n
  /\ output' = PlainPrefix(n)
  /\ status' = IF n = size THEN "complete" ELSE "running"
  /\ UNCHANGED size

GiveUp(n) ==
  /\ status = "running"
  /\ Len(output) <= n
  /\ output' = PlainPrefix(n)
  /\ status' = "given up"
  /\ UNCHANGED size

StartOver ==
  /\ status # "running"
  /\ output' = PlainPrefix(0)
  /\ status' = "running"
  /\ UNCHANGED size

Next == \/ \E n \in 0..size : Grow(n) \/ GiveUp(n)
        \/ StartOver

Spec == Init /\ [][Next]_<<size, output, status>>
=============================================================================
