----------------------------- MODULE LogFileProof -----------------------------
(* The proofs about LogFile, from the lemmas about the controller's        *)
(* functions, for files, records and memory blocks of any size.            *)
EXTENDS LogFile, FileCtrlProof

(* The controller is whole, and no file is newer than the one in use or    *)
(* than the present.                                                       *)
IInv ==
  /\ Whole(ctrl, Records, MemSizes, MaxFileLength)
  /\ Latest(ctrl, clock)
  /\ clock \in 0..MaxClock /\ next \in 1..(MaxRecords + 1)
  /\ overwrites \in BOOLEAN

LEMMA RecordsSized == Sized(Records)
BY DEF Sized, Records

LEMMA MemSizesFit == Fits(MemSizes)
BY MemAssumption DEF Fits

LEMMA InvariantInit == Init => IInv
<1> SUFFICES ASSUME Init PROVE IInv
  OBVIOUS
<1>1. /\ ctrl.there = FALSE /\ ctrl.log = Closed /\ ctrl.mem = 0
      /\ ctrl.buffer = <<>> /\ ctrl.use = 0 /\ ctrl.len = 0 /\ ctrl.files = <<>>
      /\ ctrl = [there |-> ctrl.there, log |-> ctrl.log, mem |-> ctrl.mem,
                 buffer |-> ctrl.buffer, use |-> ctrl.use, len |-> ctrl.len,
                 files |-> ctrl.files]
  BY DEF Init, Absent
<1>2. DOMAIN ctrl.files = {}
  BY <1>1
<1>3. Shape(ctrl, Records, MemSizes)
  <2>1. ctrl.there \in BOOLEAN
    BY <1>1
  <2>2. /\ ctrl.log \in {Closed} \cup DOMAIN ctrl.files /\ ctrl.mem \in MemSizes \cup {0}
        /\ ctrl.use \in Nat /\ ctrl.len \in Nat /\ ctrl.buffer \in Seq(Records)
    BY <1>1, EmptySeq
  <2>3. DOMAIN ctrl.files \subseteq Nat
    BY <1>2
  <2>4. ctrl.files \in [DOMAIN ctrl.files -> Seq(Records)]
    BY <1>1, <1>2
  <2> QED BY <1>1, <2>1, <2>2, <2>3, <2>4 DEF Shape
<1>4. Counted(ctrl) /\ Bounded(ctrl, MaxFileLength) /\ Latest(ctrl, clock)
  BY <1>1, <1>2, SizeEmpty DEF Counted, Bounded, Latest
<1> QED BY <1>3, <1>4, MemAssumption DEF IInv, Whole, Init

LEMMA InvariantNext == IInv /\ [Next]_vars => IInv'
<1> SUFFICES ASSUME IInv, [Next]_vars PROVE IInv'
  OBVIOUS
<1>1. /\ Whole(ctrl, Records, MemSizes, MaxFileLength) /\ Latest(ctrl, clock)
      /\ Shape(ctrl, Records, MemSizes)
      /\ clock \in 0..MaxClock /\ clock \in Nat /\ next \in 1..(MaxRecords + 1)
      /\ overwrites \in BOOLEAN
  BY MemAssumption DEF IInv, Whole
<1>2. Sized(Records) /\ Fits(MemSizes)
  BY RecordsSized, MemSizesFit
<1>3. MaxFileLength \in Nat /\ MaxFileLength <= MaxFileLength + RecordLen
  BY FileAssumption
<1>4. CASE Open
  <2>1. PICK iMemSize \in MemSizes, opens \in BOOLEAN :
          ctrl' = CreateLog(Initialize(ctrl, iMemSize), clock, opens)
    BY <1>4 DEF Open
  <2>2. /\ Whole(ctrl', Records, MemSizes, MaxFileLength)
        /\ ctrl'.log = IF opens THEN clock ELSE Closed
        /\ Created(ctrl.files, ctrl'.files, clock, opens)
    BY <1>1, <1>2, <2>1, OpenWhole
  <2>3. Latest(ctrl', clock)
    BY <1>1, <2>2, CreatedLatest
  <2> QED BY <1>1, <1>4, <2>2, <2>3 DEF Open, IInv
<1>5. CASE Log
  <2>1. PICK len \in 1..RecordLen, opens \in BOOLEAN :
          ctrl' = LogMsg(ctrl, [id |-> next, len |-> len], clock, opens)
    BY <1>5 DEF Log
  <2> DEFINE r == [id |-> next, len |-> len]
  <2>2. r \in Records /\ next' \in 1..(MaxRecords + 1)
    BY <1>1, <1>5, MemAssumption DEF Log, Records
  <2> HIDE DEF r
  <2>3. ctrl' = LogMsg(ctrl, r, clock, opens)
    BY <2>1 DEF r
  <2>4. /\ Whole(ctrl', Records, MemSizes, MaxFileLength)
        /\ ctrl.log = Closed => ctrl' = ctrl
        /\ ctrl.log # Closed /\ ~Rotates(ctrl, r) =>
             ctrl'.log = ctrl.log /\ Extended(ctrl, ctrl', Records, <<r>>)
        /\ ctrl.log # Closed /\ Rotates(ctrl, r) =>
             Replaced(ctrl, ctrl', Records, MemSizes, <<r>>, clock)
    BY <1>1, <1>2, <2>2, <2>3, LogMsgWhole, SMTT(30)
  <2>5. Latest(ctrl', clock)
    <3>1. CASE ctrl.log = Closed
      BY <1>1, <2>4, <3>1
    <3>2. CASE ctrl.log # Closed /\ ~Rotates(ctrl, r)
      BY <1>1, <2>4, <3>2, ExtendedLatest
    <3>3. CASE ctrl.log # Closed /\ Rotates(ctrl, r)
      BY <1>1, <2>4, <3>3, ReplacedLatest
    <3> QED BY <3>1, <3>2, <3>3
  <2> QED BY <1>1, <1>5, <2>2, <2>4, <2>5 DEF Log, IInv
<1>6. CASE Resize
  <2>1. PICK iLen \in MemSizes : ctrl' = SetFlushBuffer(ctrl, iLen)
    BY <1>6 DEF Resize
  <2>2. /\ Whole(ctrl', Records, MemSizes, MaxFileLength) /\ ctrl'.log = ctrl.log
        /\ Extended(ctrl, ctrl', Records, <<>>)
    BY <1>1, <1>2, <2>1, SetFlushBufferWhole
  <2>3. Latest(ctrl', clock)
    BY <1>1, <2>2, ExtendedLatest
  <2> QED BY <1>1, <1>6, <2>2, <2>3 DEF Resize, IInv
<1>7. CASE Flush
  <2>1. ctrl' = Mem2File(ctrl)
    BY <1>7 DEF Flush, FlushMem2File
  <2>2. /\ Whole(ctrl', Records, MemSizes, MaxFileLength) /\ ctrl'.log = ctrl.log
        /\ Extended(ctrl, ctrl', Records, <<>>)
    BY <1>1, <1>2, <2>1, Mem2FileWhole
  <2>3. Latest(ctrl', clock)
    BY <1>1, <2>2, ExtendedLatest
  <2> QED BY <1>1, <1>7, <2>2, <2>3 DEF Flush, IInv
<1>8. CASE Close
  <2>1. ctrl' = Absent(ctrl.files)
    BY <1>8 DEF Close, Delete
  <2>2. Whole(ctrl', Records, MemSizes, MaxFileLength)
    BY <1>1, <1>2, <1>3, <2>1, AbsentWhole
  <2>3. Latest(ctrl', clock)
    BY <1>1, <2>1 DEF Latest, Absent
  <2> QED BY <1>1, <1>8, <2>2, <2>3 DEF Close, IInv
<1>9. CASE Tick
  <2>1. Latest(ctrl, clock + 1)
    BY <1>1 DEF Latest, Shape
  <2>2. clock' \in 0..MaxClock
    BY <1>1, <1>9, MemAssumption DEF Tick
  <2> QED BY <1>1, <1>9, <2>1, <2>2 DEF Tick, IInv
<1>10. CASE UNCHANGED vars
  BY <1>1, <1>10 DEF vars, IInv
<1> QED BY <1>4, <1>5, <1>6, <1>7, <1>8, <1>9, <1>10 DEF Next

LEMMA InvariantAlways == Spec => []IInv
BY InvariantInit, InvariantNext, PTL DEF Spec

-----------------------------------------------------------------------------
(* The controller always has its shape (LogFile.hpp:72-85).                *)
THEOREM LogFileTypes == Spec => []TypeOK
<1>1. IInv => TypeOK
  <2> SUFFICES ASSUME IInv PROVE TypeOK
    OBVIOUS
  <2>1. Shape(ctrl, Records, MemSizes) /\ Latest(ctrl, clock)
    BY DEF IInv, Whole
  <2>2. DOMAIN ctrl.files \subseteq 0..clock
    BY <2>1 DEF Shape, Latest, IInv
  <2>3. \A s \in DOMAIN ctrl.files : ctrl.files[s] \in Seq(Records)
    BY <2>1 DEF Shape
  <2> QED BY <2>1, <2>2, <2>3 DEF Shape, IInv, TypeOK
<1> QED BY <1>1, InvariantAlways, PTL

(* m_nBufferUse always counts what the memory block holds, and that fits   *)
(* the block; the length that decides about the next file is always that   *)
(* of the file and the block (LogFile.cpp:131-136, 175-195, 252-276).      *)
THEOREM CountersAlwaysMatch == Spec => []CountersMatch
<1>1. IInv => CountersMatch
  BY DEF IInv, Whole, Counted, CountersMatch
<1> QED BY <1>1, InvariantAlways, PTL

(* No file is ever too long by a whole record (LogFile.cpp:194-198).       *)
THEOREM FilesAlwaysBounded == Spec => []FilesBounded
<1>1. IInv => FilesBounded
  <2> SUFFICES ASSUME IInv, NEW s \in DOMAIN ctrl.files
               PROVE  Size(ctrl.files[s]) < MaxFileLength + RecordLen
    BY DEF FilesBounded
  <2>1. /\ Shape(ctrl, Records, MemSizes) /\ Counted(ctrl)
        /\ Bounded(ctrl, MaxFileLength)
    BY DEF IInv, Whole
  <2>2. CASE s # ctrl.log
    BY <2>1, <2>2 DEF Bounded
  <2>3. CASE s = ctrl.log
    <3>1. s \in Nat /\ s # Closed /\ ctrl.files[s] \in Seq(Records) /\ ctrl.use \in Nat
      BY <2>1 DEF Shape, Closed
    <3>2. Size(ctrl.files[s]) \in Nat
      BY <3>1, RecordsSized, SizeNat
    <3>3. ctrl.len < MaxFileLength /\ ctrl.len = Size(ctrl.files[s]) + ctrl.use
      BY <2>1, <2>3, <3>1 DEF Counted, Bounded
    <3> QED BY <3>1, <3>2, <3>3, FileAssumption
  <2> QED BY <2>2, <2>3
<1> QED BY <1>1, InvariantAlways, PTL

-----------------------------------------------------------------------------
(* What each step does to the directory.                                   *)

LEMMA ConcatBeginning ==
  ASSUME NEW R, NEW s \in Seq(R), NEW t \in Seq(R)
  PROVE  Beginning(s, s \o t)
BY ConcatProperties, LenProperties DEF Beginning

LEMMA SameBeginning ==
  ASSUME NEW R, NEW s \in Seq(R)
  PROVE  Beginning(s, s)
BY LenProperties DEF Beginning

(* The steps of the controller, by what becomes of its files: they stay,   *)
(* the one in use grows by the new records, and then a file may be created.*)
Grows(new) == Extended(ctrl, ctrl', Records, new)

Rotated(new) ==
  Replaced(ctrl, ctrl', Records, MemSizes, new, clock) /\ MayCreate

LEMMA LogSteps ==
  ASSUME IInv, Log
  PROVE  /\ ctrl'.there = ctrl.there
         /\ \/ ctrl.log = Closed /\ ctrl' = ctrl
            \/ ctrl.log # Closed /\ \E r \in Records : Grows(<<r>>) \/ Rotated(<<r>>)
<1>1. PICK len \in 1..RecordLen, opens \in BOOLEAN :
        /\ Rotates(ctrl, [id |-> next, len |-> len]) => MayCreate
        /\ ctrl' = LogMsg(ctrl, [id |-> next, len |-> len], clock, opens)
  BY DEF Log
<1> DEFINE r == [id |-> next, len |-> len]
<1>2. r \in Records
  BY MemAssumption DEF IInv, Log, Records
<1> HIDE DEF r
<1>3. ctrl' = LogMsg(ctrl, r, clock, opens) /\ (Rotates(ctrl, r) => MayCreate)
  BY <1>1 DEF r
<1>4. Whole(ctrl, Records, MemSizes, MaxFileLength) /\ clock \in Nat
  BY MemAssumption DEF IInv
<1>5. /\ ctrl'.there = ctrl.there
      /\ ctrl.log = Closed => ctrl' = ctrl
      /\ ctrl.log # Closed /\ ~Rotates(ctrl, r) => Extended(ctrl, ctrl', Records, <<r>>)
      /\ ctrl.log # Closed /\ Rotates(ctrl, r) =>
           Replaced(ctrl, ctrl', Records, MemSizes, <<r>>, clock)
  BY <1>2, <1>3, <1>4, RecordsSized, MemSizesFit, LogMsgWhole
<1>6. CASE ctrl.log = Closed
  BY <1>5, <1>6
<1>7. CASE ctrl.log # Closed /\ ~Rotates(ctrl, r)
  BY <1>2, <1>5, <1>7 DEF Grows
<1>8. CASE ctrl.log # Closed /\ Rotates(ctrl, r)
  BY <1>2, <1>3, <1>5, <1>8 DEF Rotated
<1> QED BY <1>6, <1>7, <1>8

LEMMA PersistSteps ==
  ASSUME IInv, Resize \/ Flush
  PROVE  Grows(<<>>) /\ ctrl'.there = ctrl.there
<1>1. Whole(ctrl, Records, MemSizes, MaxFileLength)
  BY DEF IInv
<1>2. CASE Resize
  <2>1. PICK iLen \in MemSizes : ctrl' = SetFlushBuffer(ctrl, iLen)
    BY <1>2 DEF Resize
  <2> QED BY <1>1, <2>1, RecordsSized, MemSizesFit, SetFlushBufferWhole DEF Grows
<1>3. CASE Flush
  BY <1>1, <1>3, RecordsSized, MemSizesFit, Mem2FileWhole DEF Flush, FlushMem2File, Grows
<1> QED BY <1>2, <1>3

LEMMA OpenSteps ==
  ASSUME IInv, Open
  PROVE  /\ ctrl'.there /\ ctrl'.buffer = <<>> /\ MayCreate
         /\ \E opens \in BOOLEAN : Created(ctrl.files, ctrl'.files, clock, opens)
<1>1. Whole(ctrl, Records, MemSizes, MaxFileLength) /\ clock \in Nat
  BY MemAssumption DEF IInv
<1> QED BY <1>1, RecordsSized, MemSizesFit, OpenWhole DEF Open

(* What the next step may do to the files of earlier seconds.              *)
Keeps(c, d, now) ==
  \A s \in DOMAIN c.files :
    s < now => /\ s \in DOMAIN d.files
               /\ Beginning(c.files[s], d.files[s])
               /\ s # c.log => d.files[s] = c.files[s]

LEMMA ExtendedKeeps ==
  ASSUME NEW R, NEW M, NEW c, NEW d, NEW new, NEW now, Shape(c, R, M),
         Extended(c, d, R, new)
  PROVE  Keeps(c, d, now)
<1> SUFFICES ASSUME NEW s \in DOMAIN c.files
             PROVE  /\ s \in DOMAIN d.files
                    /\ Beginning(c.files[s], d.files[s])
                    /\ s # c.log => d.files[s] = c.files[s]
  BY DEF Keeps
<1>1. /\ DOMAIN d.files = DOMAIN c.files
      /\ s # c.log => d.files[s] = c.files[s]
      /\ \E t \in Seq(R) : d.files[s] = c.files[s] \o t
  BY ExtendedFiles
<1>2. c.files[s] \in Seq(R)
  BY DEF Shape
<1> QED BY <1>1, <1>2, ConcatBeginning

LEMMA CreatedKeeps ==
  ASSUME NEW c, NEW d, NEW now \in Nat, NEW opens \in BOOLEAN,
         Created(c.files, d.files, now, opens)
  PROVE  \A s \in DOMAIN c.files :
           s < now => s \in DOMAIN d.files /\ d.files[s] = c.files[s]
BY DEF Created, Emptied

LEMMA ReplacedKeeps ==
  ASSUME NEW R, NEW M, NEW c, NEW d, NEW new, NEW now \in Nat, Shape(c, R, M),
         Replaced(c, d, R, M, new, now)
  PROVE  Keeps(c, d, now)
<1>1. PICK opens \in BOOLEAN :
        \E e : /\ Extended(c, e, R, new) /\ e.log = c.log
               /\ Created(e.files, d.files, now, opens)
  BY Zenon DEF Replaced
<1>2. PICK e : /\ Extended(c, e, R, new) /\ e.log = c.log
               /\ Created(e.files, d.files, now, opens)
  BY <1>1
<1>3. Keeps(c, e, now)
  BY <1>2, ExtendedKeeps
<1>4. \A s \in DOMAIN e.files :
        s < now => s \in DOMAIN d.files /\ d.files[s] = e.files[s]
  BY <1>2, CreatedKeeps
<1> QED BY <1>3, <1>4 DEF Keeps

LEMMA StepKeeps == IInv /\ [Next]_vars => Keeps(ctrl, ctrl', clock) \/ UNCHANGED vars
<1> SUFFICES ASSUME IInv, Next PROVE Keeps(ctrl, ctrl', clock)
  OBVIOUS
<1>1. Shape(ctrl, Records, MemSizes) /\ clock \in Nat
  BY MemAssumption DEF IInv, Whole
<1>2. ASSUME NEW s \in DOMAIN ctrl.files
      PROVE  ctrl.files[s] \in Seq(Records) /\ Beginning(ctrl.files[s], ctrl.files[s])
  BY <1>1, SameBeginning DEF Shape
<1>3. CASE ctrl'.files = ctrl.files
  BY <1>2, <1>3 DEF Keeps
<1>4. CASE Open
  <2>1. PICK opens \in BOOLEAN : Created(ctrl.files, ctrl'.files, clock, opens)
    BY <1>4, OpenSteps
  <2> QED BY <1>1, <1>2, <2>1, CreatedKeeps DEF Keeps
<1>5. CASE Log
  <2>1. CASE \E r \in Records : Grows(<<r>>)
    BY <1>1, <2>1, ExtendedKeeps DEF Grows
  <2>2. CASE \E r \in Records : Rotated(<<r>>)
    BY <1>1, <2>2, ReplacedKeeps DEF Rotated
  <2> QED BY <1>3, <1>5, <2>1, <2>2, LogSteps
<1>6. CASE Resize \/ Flush
  BY <1>1, <1>6, PersistSteps, ExtendedKeeps DEF Grows
<1>7. CASE Close
  BY <1>3, <1>7 DEF Close, Delete, Absent
<1>8. CASE Tick
  BY <1>3, <1>8 DEF Tick
<1> QED BY <1>4, <1>5, <1>6, <1>7, <1>8 DEF Next

(* A file of an earlier second is only written to while it is the one in   *)
(* use, at its end, and is never emptied (LogFile.cpp:126-137).            *)
THEOREM OldFilesAlwaysKept == Spec => OldFilesKept
<1>1. IInv /\ [Next]_vars =>
        [\A s \in DOMAIN ctrl.files :
           s < clock =>
             /\ s \in DOMAIN ctrl'.files
             /\ Beginning(ctrl.files[s], ctrl'.files[s])
             /\ s # ctrl.log => ctrl'.files[s] = ctrl.files[s]]_vars
  BY StepKeeps DEF Keeps
<1> QED BY <1>1, InvariantAlways, PTL DEF Spec, OldFilesKept

-----------------------------------------------------------------------------
(* The refinement of Journal.                                              *)

(* Records that were pending have become kept ones, with the new ones.     *)
LEMMA GrowsMoves ==
  ASSUME IInv, IInv', NEW new \in Seq(Records), Grows(new), clock' = clock
  PROVE  /\ AllOf(ctrl', clock') = AllWith(ctrl, clock, new)
         /\ Len(Kept(ctrl', clock')) >= Len(Kept(ctrl, clock))
<1>1. /\ Shape(ctrl, Records, MemSizes) /\ Shape(ctrl', Records, MemSizes)
      /\ Latest(ctrl, clock) /\ clock \in Nat
      /\ Extended(ctrl, ctrl', Records, new)
  BY MemAssumption DEF IInv, Whole, Grows
<1> QED BY <1>1, ExtendedMoves

LEMMA Overwrites ==
  ASSUME NEW k, NEW k1 \in Seq(Records), GoesOn(k, k1, Records)
  PROVE  J!Beginning(k1, k)
BY ConcatBeginning DEF GoesOn, Beginning, J!Beginning

LEMMA JournalInit == Init => J!Init
<1> SUFFICES ASSUME Init PROVE J!Init
  OBVIOUS
<1>1. ctrl.there = FALSE /\ ctrl.buffer = <<>> /\ ctrl.files = <<>> /\ clock = 0
  BY DEF Init, Absent
<1>2. DOMAIN ctrl.files = {}
  BY <1>1
<1>3. FilesOver(ctrl, Records) /\ FileOf(ctrl, 0) = <<>>
  BY <1>2 DEF FilesOver, FileOf
<1>4. 0 - 1 \in Int /\ 0 \in Nat
  OBVIOUS
<1>5. PICK f : Joins(ctrl, Records, 0, f) /\ Kept(ctrl, 0 - 1) = f[0]
  BY <1>3, <1>4, KeptJoins
<1>6. Kept(ctrl, 0) = Kept(ctrl, 0 - 1) \o FileOf(ctrl, 0)
  BY <1>3, <1>4, KeptStep
<1>7. <<>> \o <<>> = <<>>
  BY EmptySeq, ConcatEmptySeq
<1>8. Kept(ctrl, clock) = <<>>
  BY <1>1, <1>3, <1>5, <1>6, <1>7 DEF Joins
<1> QED BY <1>1, <1>8 DEF Init, J!Init

LEMMA JournalNext ==
  IInv /\ IInv' /\ [Next]_vars =>
    [J!Next]_<<Kept(ctrl, clock), ctrl.buffer, ctrl.there, overwrites>>
<1> SUFFICES ASSUME IInv, IInv', [Next]_vars
             PROVE  [J!Next]_<<Kept(ctrl, clock), ctrl.buffer, ctrl.there, overwrites>>
  OBVIOUS
<1>1. /\ Shape(ctrl, Records, MemSizes) /\ Shape(ctrl', Records, MemSizes)
      /\ Latest(ctrl, clock) /\ clock \in Nat
      /\ FilesOver(ctrl, Records) /\ FilesOver(ctrl', Records)
      /\ Kept(ctrl, clock) \in Seq(Records)
  BY MemAssumption, ShapeFiles, KeptType DEF IInv, Whole
<1>2. ASSUME ctrl' = ctrl, clock' = clock, overwrites' = overwrites
      PROVE  UNCHANGED <<Kept(ctrl, clock), ctrl.buffer, ctrl.there, overwrites>>
  BY <1>2
<1>3. CASE Open
  <2>1. ctrl'.there /\ ctrl'.buffer = <<>> /\ MayCreate
    BY <1>3, OpenSteps
  <2>2. PICK opens \in BOOLEAN : Created(ctrl.files, ctrl'.files, clock, opens)
    BY <1>3, OpenSteps
  <2>3. ~ctrl.there /\ clock' = clock /\ overwrites' = overwrites
    BY <1>3 DEF Open
  <2>4. ctrl.buffer = <<>>
    BY <2>3 DEF IInv, Whole, Counted
  <2>5. CASE Kept(ctrl', clock') = Kept(ctrl, clock)
    BY <2>1, <2>3, <2>4, <2>5 DEF J!Next, J!Open
  <2>6. CASE clock \in DOMAIN ctrl.files /\ GoesOn(Kept(ctrl, clock), Kept(ctrl', clock'), Records)
    <3>1. Kept(ctrl', clock') \in Seq(Records)
      BY <1>1, <2>3, KeptType
    <3>2. J!Beginning(Kept(ctrl', clock'), Kept(ctrl, clock))
      BY <2>6, <3>1, Overwrites
    <3>3. overwrites
      BY <2>1, <2>6 DEF MayCreate
    <3> QED BY <2>1, <2>3, <3>2, <3>3 DEF J!Next, J!Overwrite
  <2> QED BY <1>1, <2>2, <2>3, <2>5, <2>6, CreatedKept
<1>4. CASE Log
  <2>1. ctrl'.there = ctrl.there /\ ctrl.there /\ clock' = clock /\ overwrites' = overwrites
    BY <1>4, LogSteps DEF Log
  <2>2. CASE ctrl.log = Closed /\ ctrl' = ctrl
    BY <2>1, <2>2
  <2>3. ASSUME NEW r \in Records, AllOf(ctrl', clock') = AllWith(ctrl, clock, <<r>>),
               Len(Kept(ctrl', clock')) >= Len(Kept(ctrl, clock))
        PROVE  J!Accept(r)
    BY <2>1, <2>3, Zenon DEF J!Accept, J!Moves, AllOf, AllWith
  <2>4. ASSUME NEW r \in Records, Grows(<<r>>)
        PROVE  J!Accept(r)
    <3>1. <<r>> \in Seq(Records)
      OBVIOUS
    <3>2. /\ AllOf(ctrl', clock') = AllWith(ctrl, clock, <<r>>)
          /\ Len(Kept(ctrl', clock')) >= Len(Kept(ctrl, clock))
      BY <2>1, <2>4, <3>1, GrowsMoves
    <3> QED BY <2>3, <3>2
  <2>5. ASSUME NEW r \in Records, Rotated(<<r>>), ctrl.log # Closed
        PROVE  J!Accept(r) \/ J!Overwrite
    <3>1. Replaced(ctrl, ctrl', Records, MemSizes, <<r>>, clock) /\ MayCreate
      BY <2>5 DEF Rotated
    <3>2. ctrl'.buffer = <<>>
      BY <3>1 DEF Replaced
    <3>3. <<r>> \in Seq(Records)
      OBVIOUS
    <3>4. \/ /\ Kept(ctrl', clock') = AllWith(ctrl, clock, <<r>>)
             /\ Len(Kept(ctrl', clock')) >= Len(Kept(ctrl, clock))
          \/ /\ clock \in DOMAIN ctrl.files
             /\ GoesOn(Kept(ctrl, clock), Kept(ctrl', clock'), Records)
      BY <1>1, <2>1, <2>5, <3>1, <3>3, ReplacedKept
    <3>5. Kept(ctrl', clock') \in Seq(Records)
      BY <1>1, <2>1, KeptType
    <3>6. AllOf(ctrl', clock') = Kept(ctrl', clock')
      BY <3>2, <3>5, ConcatEmptySeq DEF AllOf
    <3>7. CASE /\ Kept(ctrl', clock') = AllWith(ctrl, clock, <<r>>)
               /\ Len(Kept(ctrl', clock')) >= Len(Kept(ctrl, clock))
      BY <2>3, <3>6, <3>7
    <3>8. CASE /\ clock \in DOMAIN ctrl.files
               /\ GoesOn(Kept(ctrl, clock), Kept(ctrl', clock'), Records)
      <4>1. J!Beginning(Kept(ctrl', clock'), Kept(ctrl, clock))
        BY <3>5, <3>8, Overwrites
      <4>2. overwrites
        BY <3>1, <3>8 DEF MayCreate
      <4> QED BY <2>1, <3>2, <4>1, <4>2 DEF J!Overwrite
    <3> QED BY <3>4, <3>7, <3>8
  <2>6. CASE \E r \in Records : J!Accept(r) \/ J!Overwrite
    BY <2>1, <2>6 DEF J!Next
  <2>7. CASE ctrl.log # Closed /\ \E r \in Records : Grows(<<r>>) \/ Rotated(<<r>>)
    BY <2>4, <2>5, <2>6, <2>7
  <2> QED BY <1>4, <2>2, <2>7, LogSteps
<1>5. CASE Resize \/ Flush
  <2>1. Grows(<<>>) /\ ctrl'.there = ctrl.there
    BY <1>5, PersistSteps
  <2>2. ctrl.there /\ clock' = clock /\ overwrites' = overwrites /\ <<>> \in Seq(Records)
    BY <1>5, EmptySeq DEF Resize, Flush
  <2>3. /\ AllOf(ctrl', clock') = AllWith(ctrl, clock, <<>>)
        /\ Len(Kept(ctrl', clock')) >= Len(Kept(ctrl, clock))
    BY <2>1, <2>2, GrowsMoves
  <2>4. AllOf(ctrl, clock) \in Seq(Records)
    BY <1>1, ConcatProperties DEF AllOf, Shape
  <2>5. AllWith(ctrl, clock, <<>>) = AllOf(ctrl, clock)
    BY <2>4, ConcatEmptySeq DEF AllWith
  <2>6. AllOf(ctrl', clock') = AllOf(ctrl, clock)
    BY <2>3, <2>5
  <2>7. J!Moves(Kept(ctrl, clock) \o ctrl.buffer)
    BY <2>3, <2>6, Zenon DEF J!Moves, AllOf
  <2> QED BY <2>1, <2>2, <2>7 DEF J!Next, J!Persist
<1>6. CASE Close
  <2>1. /\ ctrl.there /\ ~ctrl'.there /\ ctrl'.buffer = <<>> /\ ctrl'.files = ctrl.files
        /\ clock' = clock /\ overwrites' = overwrites
    BY <1>6 DEF Close, Delete, Absent
  <2>2. \A s : FileOf(ctrl, s) = FileOf(ctrl', s)
    BY <2>1 DEF FileOf
  <2>3. Kept(ctrl', clock') = Kept(ctrl, clock)
    BY <1>1, <2>1, <2>2, KeptSame
  <2> QED BY <2>1, <2>3 DEF J!Next, J!Close
<1>7. CASE Tick
  <2>1. ctrl' = ctrl /\ clock' = clock + 1 /\ overwrites' = overwrites
    BY <1>7 DEF Tick
  <2>2. \A s \in DOMAIN ctrl.files : s <= clock
    BY <1>1 DEF Latest
  <2>3. Kept(ctrl, clock + 1) = Kept(ctrl, clock)
    BY <1>1, <2>2, TickKept
  <2> QED BY <2>1, <2>3
<1>8. CASE UNCHANGED vars
  BY <1>8 DEF vars
<1> QED BY <1>3, <1>4, <1>5, <1>6, <1>7, <1>8 DEF Next

(* The directory with the memory block implements Journal: no record is    *)
(* repeated, out of place, or lost while the controller is there, whatever *)
(* the sizes of the records, the files and the block.                      *)
THEOREM JournalImplemented == Spec => ImplementsJournal
BY JournalInit, JournalNext, InvariantAlways, PTL DEF Spec, ImplementsJournal, J!Spec
=============================================================================
