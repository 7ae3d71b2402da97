------------------------------- MODULE FileCtrl -------------------------------
(***************************************************************************)
(* CFileCtrl (LogFile.cpp): a log directory, the file being written in it  *)
(* and a memory block in front of the file.  Each operator is one member   *)
(* function, from a controller's state to its next one; the functions run  *)
(* under m_hMutex, one at a time.                                          *)
(*                                                                         *)
(* A log file is named after the second it is created in (LogFile.cpp:126) *)
(* and is known by that second; `files` is the directory.  A record stands *)
(* for its head and its text, which are written together.                  *)
(***************************************************************************)
EXTENDS Integers, Sequences

CONSTANTS
  MaxFileLength,  (* m_dwMaxFileLength: a file this long is the last's end  *)
  RecordLen       (* the length of the longest record                       *)

ASSUME FileAssumption == MaxFileLength \in Nat \ {0} /\ RecordLen \in Nat \ {0}

(* m_pLogFile is NULL.                                                     *)
Closed == -1

Size(records) ==
  LET upto[n \in 0..Len(records)] == IF n = 0 THEN 0 ELSE upto[n - 1] + records[n].len
  IN upto[Len(records)]

(* There is no object; the files in its directory stay.                    *)
Absent(files) ==
  [there |-> FALSE, log |-> Closed, mem |-> 0, buffer |-> <<>>, use |-> 0,
   len |-> 0, files |-> files]

(* new CFileCtrl and Initialize, with no memory block by default.          *)
Initialize(c, iMemSize) == [Absent(c.files) EXCEPT !.there = TRUE, !.mem = iMemSize]

-----------------------------------------------------------------------------
(* Mutant: what was written stays in the block.                            *)
Mem2FileAgain(c) ==
  IF c.log # Closed /\ c.mem > 0 /\ c.use > 0
    THEN [c EXCEPT !.files[c.log] = @ \o c.buffer]
    ELSE c

(* Mem2File does nothing without a file, a block or something in it.       *)
Mem2File(c) ==
  IF c.log # Closed /\ c.mem > 0 /\ c.use > 0
    THEN [c EXCEPT !.files[c.log] = @ \o c.buffer, !.buffer = <<>>, !.use = 0]
    ELSE c

(* The file of this second is there, and empty.                            *)
Emptied(files, now) ==
  [s \in DOMAIN files \cup {now} |-> IF s = now THEN <<>> ELSE files[s]]

(* Mutants: fopen's failure is not noticed, a file's name does not tell two *)
(* seconds apart.                                                          *)
CreateLogUnchecked(c, now, opens) ==
  [c EXCEPT !.log = now, !.len = 0,
            !.files = IF opens THEN Emptied(@, now) ELSE @]

CreateLogCoarse(c, now, opens) ==
  LET name == now - (now % 2)
  IN IF opens THEN [c EXCEPT !.log = name, !.len = 0, !.files = Emptied(@, name)]
              ELSE [c EXCEPT !.log = Closed, !.len = 0]

(***************************************************************************)
(* The file in use is closed and another one is opened with "w+b", which   *)
(* empties the file if there is one.  The length is what fseek returns, 0. *)
(* When fopen fails there is no file any more.                             *)
(***************************************************************************)
CreateLog(c, now, opens) ==
  IF opens THEN [c EXCEPT !.log = now, !.len = 0, !.files = Emptied(@, now)]
           ELSE [c EXCEPT !.log = Closed, !.len = IF c.log = Closed THEN @ ELSE 0]

(* Mutant: the block is looked at without the record.                      *)
StoreLate(c, record) ==
  LET room == IF c.use >= c.mem THEN Mem2File(c) ELSE c
  IN IF c.mem = 0
       THEN [c EXCEPT !.files[c.log] = Append(@, record), !.len = @ + record.len]
       ELSE [room EXCEPT !.buffer = Append(@, record),
                         !.use = @ + record.len, !.len = @ + record.len]

(* The record goes behind those in the block, after those have been        *)
(* written if it would not fit; without a block it goes to the file.       *)
Store(c, record) ==
  LET room == IF c.use + record.len >= c.mem THEN Mem2File(c) ELSE c
  IN IF c.mem = 0
       THEN [c EXCEPT !.files[c.log] = Append(@, record), !.len = @ + record.len]
       ELSE [room EXCEPT !.buffer = Append(@, record),
                         !.use = @ + record.len, !.len = @ + record.len]

(* Mutant: the length is looked at before the record is in.                *)
RotatesLate(c, record) == c.log # Closed /\ c.len >= MaxFileLength

(* A file that has become too long is followed by another one.             *)
Rotates(c, record) ==
  c.log # Closed /\ Store(c, record).len >= MaxFileLength

LogMsg(c, record, now, opens) ==
  IF c.log = Closed THEN c
  ELSE IF Rotates(c, record)
         THEN CreateLog(Mem2File(Store(c, record)), now, opens)
         ELSE Store(c, record)

(* Mutant: the block is not written out before it is replaced.             *)
SetFlushBufferDropping(c, iLen) == [c EXCEPT !.mem = iLen, !.buffer = <<>>]

(* The block is written out and replaced by one of another size.           *)
SetFlushBuffer(c, iLen) ==
  [Mem2File(c) EXCEPT !.mem = iLen, !.buffer = <<>>]

FlushMem2File(c) == Mem2File(c)

(* The destructor closes the file and drops the block with what is in it.  *)
Delete(c) == Absent(c.files)

-----------------------------------------------------------------------------
(* All the records in a directory's files, in the order of the files.      *)
FileOf(c, s) == IF s \in DOMAIN c.files THEN c.files[s] ELSE <<>>

Kept(c, now) ==
  LET before[s \in 0..(now + 1)] == IF s = 0 THEN <<>> ELSE before[s - 1] \o FileOf(c, s - 1)
  IN before[now + 1]
=============================================================================
