------------------------------- MODULE LogFile --------------------------------
(***************************************************************************)
(* One log directory over the life of several processes: a controller is   *)
(* created, written to through its public functions and deleted, or the    *)
(* process that has it dies.  Time goes by in seconds.                     *)
(***************************************************************************)
EXTENDS FileCtrl

CONSTANTS
  MemSizes,     (* the sizes of a memory block; 0 is none                   *)
  MaxRecords,   (* bounds the records                                       *)
  MaxClock      (* bounds the time                                          *)

(* "make sure the memory block is larger than 1 record" (LogFile.hpp:33)   *)
ASSUME MemAssumption ==
  /\ MemSizes \subseteq Nat /\ \A n \in MemSizes : n = 0 \/ n > RecordLen
  /\ MaxRecords \in Nat /\ MaxClock \in Nat

VARIABLES
  ctrl,     (* the controller and its directory                             *)
  clock,    (* the time                                                     *)
  next,     (* the number of the next record                                *)
  overwrites  (* may two files be created in one second? (never changes)    *)

vars == <<ctrl, clock, next, overwrites>>

Records == [id : 1..MaxRecords, len : 1..RecordLen]

(* A file can be created now.                                              *)
MayCreate == overwrites \/ clock \notin DOMAIN ctrl.files

Init ==
  /\ ctrl = Absent(<<>>)
  /\ clock = 0
  /\ next = 1
  /\ overwrites \in BOOLEAN

(* new CFileCtrl, Initialize and OpenLogFile (LogManager.cpp:225-230).     *)
Open ==
  /\ ~ctrl.there /\ MayCreate
  /\ \E iMemSize \in MemSizes, opens \in BOOLEAN :
       ctrl' = CreateLog(Initialize(ctrl, iMemSize), clock, opens)
  /\ UNCHANGED <<clock, next, overwrites>>

Log ==
  /\ ctrl.there
  /\ next <= MaxRecords
  /\ \E len \in 1..RecordLen, opens \in BOOLEAN :
       LET record == [id |-> next, len |-> len]
       IN /\ Rotates(ctrl, record) => MayCreate
          /\ ctrl' = LogMsg(ctrl, record, clock, opens)
  /\ next' = next + 1
  /\ UNCHANGED <<clock, overwrites>>

Resize ==
  /\ ctrl.there
  /\ \E iLen \in MemSizes : ctrl' = SetFlushBuffer(ctrl, iLen)
  /\ UNCHANGED <<clock, next, overwrites>>

Flush ==
  /\ ctrl.there
  /\ ctrl' = FlushMem2File(ctrl)
  /\ UNCHANGED <<clock, next, overwrites>>

(* Deleted, or gone with its process.                                      *)
Close ==
  /\ ctrl.there
  /\ ctrl' = Delete(ctrl)
  /\ UNCHANGED <<clock, next, overwrites>>

Tick ==
  /\ clock < MaxClock
  /\ clock' = clock + 1
  /\ UNCHANGED <<ctrl, next, overwrites>>

Next == Open \/ Log \/ Resize \/ Flush \/ Close \/ Tick

Spec == Init /\ [][Next]_vars

-----------------------------------------------------------------------------
(* Properties.                                                             *)

(* The shape of a controller (LogFile.hpp:72-85).                          *)
TypeOK ==
  /\ ctrl.there \in BOOLEAN
  /\ ctrl.log \in {Closed} \cup DOMAIN ctrl.files
  /\ ctrl.mem \in MemSizes \cup {0} /\ ctrl.use \in Nat /\ ctrl.len \in Nat
  /\ ctrl.buffer \in Seq(Records)
  /\ DOMAIN ctrl.files \subseteq 0..clock
  /\ \A s \in DOMAIN ctrl.files : ctrl.files[s] \in Seq(Records)
  /\ clock \in 0..MaxClock /\ next \in 1..(MaxRecords + 1)
  /\ overwrites \in BOOLEAN

(* m_nBufferUse counts what the memory block holds, and that fits it, also *)
(* after the block was replaced by a smaller one or the file could not be  *)
(* opened: Mem2File writes all that is there and nothing else, and no      *)
(* record is copied past the end (LogFile.cpp:134, 182-189, 252-276).  The *)
(* length that decides about the next file is that of the file with what   *)
(* is still in memory (LogFile.cpp:131-136, 175-195).                      *)
CountersMatch ==
  /\ ctrl.use = Size(ctrl.buffer) /\ ctrl.use <= ctrl.mem
  /\ ctrl.log # Closed => ctrl.len = Size(ctrl.files[ctrl.log]) + ctrl.use

(* No file grows past its maximum by a whole record or more, whether there *)
(* is a memory block or not (LogFile.cpp:194-198).                         *)
FilesBounded ==
  \A s \in DOMAIN ctrl.files : Size(ctrl.files[s]) < MaxFileLength + RecordLen

Beginning(s, t) == Len(s) <= Len(t) /\ \A i \in 1..Len(s) : s[i] = t[i]

(* A file of an earlier second is only written to while it is the one in   *)
(* use, and then only at its end; it is never emptied, by a new file, a    *)
(* failure to open one, or a restart (LogFile.cpp:126-137).                *)
OldFilesKept ==
  [][\A s \in DOMAIN ctrl.files :
       s < clock =>
         /\ s \in DOMAIN ctrl'.files
         /\ Beginning(ctrl.files[s], ctrl'.files[s])
         /\ s # ctrl.log => ctrl'.files[s] = ctrl.files[s]]_vars

J == INSTANCE Journal WITH kept <- Kept(ctrl, clock), pending <- ctrl.buffer,
                           open <- ctrl.there

(* The directory with the memory block implements Journal: no record is    *)
(* repeated, out of place, or lost while the controller is there.          *)
ImplementsJournal == J!Spec
=============================================================================
