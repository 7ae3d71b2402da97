---------------------------- MODULE LogManagerProof ----------------------------
(* The proofs about LogManager, from the lemmas about the controller's      *)
(* functions, for any number of loggers, records and levels.               *)
EXTENDS LogManager, FileCtrlProof

LEMMA RecordsSized == Sized(Records)
BY FileAssumption DEF Sized, Records

LEMMA MemSizesFit == Fits(MemSizes)
BY ManagerAssumption DEF Fits

-----------------------------------------------------------------------------
(* What a step does to a controller and to all that was logged to it.      *)

(* The controller is whole, and no file is newer than the one in use or    *)
(* than the present.                                                       *)
Sound(c, now) == Whole(c, Records, MemSizes, MaxFileLength) /\ Latest(c, now)

Begins(s, t) == Len(s) <= Len(t) /\ \A i \in 1..Len(s) : s[i] = t[i]

(* Records of the block are written, and nothing else; a new record comes  *)
(* last; a file of this second takes the place of another one.             *)
Writes(c, d, now) ==
  AllOf(d, now) = AllOf(c, now) /\ Len(Kept(d, now)) >= Len(Kept(c, now))

Appends(c, d, now, rec) ==
  /\ AllOf(d, now) = AllWith(c, now, <<rec>>)
  /\ Len(Kept(d, now)) >= Len(Kept(c, now))

Replaces(c, d, now) ==
  /\ now \in DOMAIN c.files /\ d.buffer = <<>>
  /\ Begins(Kept(d, now), Kept(c, now))

LEMMA SoundTypes ==
  ASSUME NEW c, NEW now \in Nat, Sound(c, now)
  PROVE  /\ Shape(c, Records, MemSizes) /\ Latest(c, now)
         /\ FilesOver(c, Records)
         /\ Kept(c, now) \in Seq(Records) /\ c.buffer \in Seq(Records)
         /\ AllOf(c, now) \in Seq(Records)
<1>1. Shape(c, Records, MemSizes) /\ Latest(c, now)
  BY DEF Sound, Whole
<1>2. FilesOver(c, Records)
  BY <1>1, ShapeFiles
<1>3. Kept(c, now) \in Seq(Records) /\ c.buffer \in Seq(Records)
  BY <1>1, <1>2, KeptType DEF Shape
<1> QED BY <1>1, <1>2, <1>3, ConcatProperties DEF AllOf

LEMMA NoBlock ==
  ASSUME NEW c, NEW now \in Nat, Sound(c, now), c.buffer = <<>>
  PROVE  AllOf(c, now) = Kept(c, now)
BY SoundTypes, ConcatEmptySeq DEF AllOf

LEMMA ConcatBegins ==
  ASSUME NEW s \in Seq(Records), NEW t \in Seq(Records)
  PROVE  Begins(s, s \o t)
BY ConcatProperties, LenProperties DEF Begins

LEMMA SameBegins ==
  ASSUME NEW s \in Seq(Records)
  PROVE  Begins(s, s)
BY LenProperties DEF Begins

LEMMA KeptBegins ==
  ASSUME NEW c, NEW now \in Nat, Sound(c, now)
  PROVE  Begins(Kept(c, now), AllOf(c, now))
BY SoundTypes, ConcatBegins DEF AllOf

LEMMA BeginsTransitive ==
  ASSUME NEW s \in Seq(Records), NEW t \in Seq(Records), NEW u \in Seq(Records),
         Begins(s, t), Begins(t, u)
  PROVE  Begins(s, u)
BY LenProperties DEF Begins

LEMMA GoesOnBegins ==
  ASSUME NEW s, NEW t \in Seq(Records), GoesOn(s, t, Records)
  PROVE  Begins(t, s)
BY ConcatBegins DEF GoesOn

LEMMA ReplacesBegins ==
  ASSUME NEW c, NEW d, NEW now \in Nat, Sound(c, now), Sound(d, now), Replaces(c, d, now)
  PROVE  Begins(AllOf(d, now), AllOf(c, now))
<1>1. AllOf(d, now) = Kept(d, now) /\ Begins(Kept(d, now), Kept(c, now))
  BY NoBlock DEF Replaces
<1> QED BY <1>1, SoundTypes, KeptBegins, BeginsTransitive

LEMMA DeleteStep ==
  ASSUME NEW c, NEW now \in Nat, Sound(c, now)
  PROVE  /\ Sound(Delete(c), now) /\ ~Delete(c).there /\ Delete(c).buffer = <<>>
         /\ Kept(Delete(c), now) = Kept(c, now)
         /\ Begins(AllOf(Delete(c), now), AllOf(c, now))
<1> DEFINE d == Delete(c)
<1>1. d = Absent(c.files)
  BY DEF Delete
<1>2. ~d.there /\ d.buffer = <<>> /\ d.files = c.files /\ d.log = Closed
  BY <1>1 DEF Absent
<1>3. Sound(d, now)
  <2>1. MaxFileLength \in Nat /\ MaxFileLength <= MaxFileLength + RecordLen
    BY FileAssumption
  <2>2. Whole(d, Records, MemSizes, MaxFileLength)
    BY <1>1, <2>1, RecordsSized, AbsentWhole DEF Sound
  <2> QED BY <1>2, <2>2 DEF Sound, Latest
<1> HIDE DEF d
<1>4. \A s : FileOf(d, s) = FileOf(c, s)
  BY <1>2 DEF FileOf
<1>5. Kept(d, now) = Kept(c, now)
  BY <1>3, <1>4, SoundTypes, KeptSame
<1>6. Begins(AllOf(d, now), AllOf(c, now))
  BY <1>2, <1>3, <1>5, NoBlock, KeptBegins
<1> QED BY <1>2, <1>3, <1>5, <1>6 DEF d

LEMMA OpenStep ==
  ASSUME NEW c, NEW d, NEW now \in Nat, Sound(c, now), ~c.there,
         NEW opens \in BOOLEAN, d = CreateLog(Initialize(c, 0), now, opens)
  PROVE  /\ Sound(d, now) /\ d.there /\ c.buffer = <<>> /\ d.buffer = <<>>
         /\ Kept(d, now) = Kept(c, now) \/ Replaces(c, d, now)
         /\ Begins(AllOf(d, now), AllOf(c, now))
<1>1. /\ Whole(d, Records, MemSizes, MaxFileLength) /\ d.there /\ d.buffer = <<>>
      /\ d.log = IF opens THEN now ELSE Closed
      /\ Created(c.files, d.files, now, opens)
  <2>1. 0 \in MemSizes \cup {0}
    OBVIOUS
  <2> QED BY <2>1, RecordsSized, MemSizesFit, OpenWhole DEF Sound
<1>2. Sound(d, now)
  BY <1>1, CreatedLatest DEF Sound
<1>3. c.buffer = <<>>
  BY DEF Sound, Whole, Counted
<1>4. Kept(d, now) = Kept(c, now) \/ Replaces(c, d, now)
  <2>1. \/ Kept(d, now) = Kept(c, now)
        \/ now \in DOMAIN c.files /\ GoesOn(Kept(c, now), Kept(d, now), Records)
    BY <1>1, <1>2, SoundTypes, CreatedKept
  <2> QED BY <1>1, <1>2, <2>1, SoundTypes, GoesOnBegins DEF Replaces
<1>5. Begins(AllOf(d, now), AllOf(c, now))
  <2>1. CASE Kept(d, now) = Kept(c, now)
    BY <1>1, <1>2, <1>3, <2>1, NoBlock, SoundTypes, SameBegins
  <2>2. CASE Replaces(c, d, now)
    BY <1>2, <2>2, ReplacesBegins
  <2> QED BY <1>4, <2>1, <2>2
<1> QED BY <1>1, <1>2, <1>3, <1>4, <1>5

LEMMA ExtendedWrites ==
  ASSUME NEW c, NEW d, NEW now \in Nat, Sound(c, now), d.log = c.log,
         Whole(d, Records, MemSizes, MaxFileLength), Extended(c, d, Records, <<>>)
  PROVE  Sound(d, now) /\ Writes(c, d, now)
<1>1. /\ Shape(c, Records, MemSizes) /\ Shape(d, Records, MemSizes)
      /\ Latest(c, now) /\ <<>> \in Seq(Records)
  BY EmptySeq DEF Sound, Whole
<1>2. Sound(d, now)
  BY <1>1, ExtendedLatest DEF Sound
<1>3. /\ AllOf(d, now) = AllWith(c, now, <<>>)
      /\ Len(Kept(d, now)) >= Len(Kept(c, now))
  BY <1>1, ExtendedMoves
<1>4. AllWith(c, now, <<>>) = AllOf(c, now)
  BY SoundTypes, ConcatEmptySeq DEF AllWith
<1> QED BY <1>2, <1>3, <1>4 DEF Writes

LEMMA FlushStep ==
  ASSUME NEW c, NEW now \in Nat, Sound(c, now)
  PROVE  /\ Sound(FlushMem2File(c), now) /\ FlushMem2File(c).there = c.there
         /\ Writes(c, FlushMem2File(c), now)
<1> DEFINE d == FlushMem2File(c)
<1>1. /\ Whole(d, Records, MemSizes, MaxFileLength) /\ d.log = c.log
      /\ d.there = c.there /\ Extended(c, d, Records, <<>>)
  BY RecordsSized, MemSizesFit, Mem2FileWhole DEF Sound, FlushMem2File
<1> HIDE DEF d
<1>2. Sound(d, now) /\ Writes(c, d, now)
  BY <1>1, ExtendedWrites
<1> QED BY <1>1, <1>2 DEF d

LEMMA ResizeStep ==
  ASSUME NEW c, NEW now \in Nat, Sound(c, now), NEW iLen \in MemSizes
  PROVE  /\ Sound(SetFlushBuffer(c, iLen), now)
         /\ SetFlushBuffer(c, iLen).there = c.there
         /\ Writes(c, SetFlushBuffer(c, iLen), now)
<1> DEFINE d == SetFlushBuffer(c, iLen)
<1>1. /\ Whole(d, Records, MemSizes, MaxFileLength) /\ d.log = c.log
      /\ d.there = c.there /\ Extended(c, d, Records, <<>>)
  BY RecordsSized, MemSizesFit, SetFlushBufferWhole DEF Sound
<1> HIDE DEF d
<1>2. Sound(d, now) /\ Writes(c, d, now)
  BY <1>1, ExtendedWrites
<1> QED BY <1>1, <1>2 DEF d

LEMMA LogStep ==
  ASSUME NEW c, NEW d, NEW now \in Nat, Sound(c, now), NEW r \in Records,
         NEW opens \in BOOLEAN, d = LogMsg(c, r, now, opens)
  PROVE  /\ Sound(d, now) /\ d.there = c.there
         /\ \/ d = c
            \/ Appends(c, d, now, r)
            \/ Replaces(c, d, now) /\ Rotates(c, r)
<1>1. /\ Whole(d, Records, MemSizes, MaxFileLength) /\ d.there = c.there
      /\ c.log = Closed => d = c
      /\ c.log # Closed /\ ~Rotates(c, r) =>
           d.log = c.log /\ Extended(c, d, Records, <<r>>)
      /\ c.log # Closed /\ Rotates(c, r) => Replaced(c, d, Records, MemSizes, <<r>>, now)
  BY RecordsSized, MemSizesFit, LogMsgWhole DEF Sound
<1>2. Shape(c, Records, MemSizes) /\ Shape(d, Records, MemSizes) /\ Latest(c, now)
  BY <1>1 DEF Sound, Whole
<1>3. <<r>> \in Seq(Records)
  OBVIOUS
<1>4. CASE c.log = Closed
  BY <1>1, <1>4
<1>5. CASE c.log # Closed /\ ~Rotates(c, r)
  <2>1. Latest(d, now)
    BY <1>1, <1>2, <1>5, ExtendedLatest
  <2> DEFINE new == <<r>>
  <2>2. new \in Seq(Records) /\ Extended(c, d, Records, new)
    BY <1>1, <1>3, <1>5
  <2> HIDE DEF new
  <2>3. AllOf(d, now) = AllWith(c, now, new) /\ Len(Kept(d, now)) >= Len(Kept(c, now))
    BY <1>2, <2>2, ExtendedMoves
  <2> QED BY <1>1, <2>1, <2>3 DEF Sound, Appends, new
<1>6. CASE c.log # Closed /\ Rotates(c, r)
  <2>1. Replaced(c, d, Records, MemSizes, <<r>>, now)
    BY <1>1, <1>6
  <2>2. Sound(d, now)
    BY <1>1, <1>2, <2>1, ReplacedLatest DEF Sound
  <2>3. d.buffer = <<>>
    BY <2>1 DEF Replaced
  <2>4. \/ /\ Kept(d, now) = AllWith(c, now, <<r>>)
           /\ Len(Kept(d, now)) >= Len(Kept(c, now))
        \/ now \in DOMAIN c.files /\ GoesOn(Kept(c, now), Kept(d, now), Records)
    BY <1>2, <1>3, <1>6, <2>1, ReplacedKept
  <2>5. AllOf(d, now) = Kept(d, now) /\ Kept(d, now) \in Seq(Records)
    BY <2>2, <2>3, NoBlock, SoundTypes
  <2>6. GoesOn(Kept(c, now), Kept(d, now), Records) => Begins(Kept(d, now), Kept(c, now))
    BY <2>5, GoesOnBegins
  <2> QED BY <1>1, <1>6, <2>2, <2>3, <2>4, <2>5, <2>6 DEF Appends, Replaces
<1> QED BY <1>4, <1>5, <1>6

LEMMA TickStep ==
  ASSUME NEW c, NEW now \in Nat, Sound(c, now)
  PROVE  /\ Sound(c, now + 1)
         /\ Kept(c, now + 1) = Kept(c, now) /\ AllOf(c, now + 1) = AllOf(c, now)
<1>1. \A s \in DOMAIN c.files : s <= now /\ s \in Nat
  BY DEF Sound, Whole, Shape, Latest
<1>2. Latest(c, now + 1)
  BY <1>1 DEF Sound, Latest
<1>3. Kept(c, now + 1) = Kept(c, now)
  BY <1>1, SoundTypes, TickKept
<1> QED BY <1>2, <1>3 DEF Sound, AllOf

-----------------------------------------------------------------------------
(* The inductive invariant, but for the order of the records.              *)

(* The shape of the variables, but for the controllers.                    *)
Typed ==
  /\ mIsRunning \in BOOLEAN /\ mDebugMode \in BOOLEAN /\ mLogLevel \in Levels
  /\ mMutex \in Loggers \cup {"free"} /\ next \in 1..(MaxRecords + 1)
  /\ at \in [Loggers -> {"out", "lock", "normal", "debug", "unlock"}]
  /\ record \in [Loggers -> Records \cup {Nothing}]
  /\ app \in {"idle", "startDebug", "startThread", "join", "deleteNormal",
              "deleteDebug"}
  /\ thread \in {"none", "top", "flush", "flushNormal", "flushDebug", "done"}
  /\ iCount \in 0..FlushEvery /\ clock \in 0..MaxClock
  /\ overtaken \subseteq Loggers /\ fault \subseteq Loggers \cup {"thread"}

CtrlInv == Sound(mpFileCtrl, clock) /\ Sound(mpFileCtrlDebug, clock)

(* Where the main thread is tells what there is.  A logger inside Log means *)
(* a log that runs, unless Stop has overtaken it; no other is at fault.    *)
RunInv ==
  /\ fault \subseteq overtaken /\ \A t \in overtaken : at[t] # "out"
  /\ mIsRunning => app \in {"idle", "startThread"}
  /\ app = "startThread" => mIsRunning
  /\ mpFileCtrl.there <=>
       mIsRunning \/ app \in {"startDebug", "join", "deleteNormal"}
  /\ mpFileCtrlDebug.there <=>
       mIsRunning \/ app \in {"join", "deleteNormal", "deleteDebug"}
  /\ thread # "none" => (mIsRunning /\ app = "idle") \/ app = "join"
  /\ \A t \in Loggers \ overtaken : at[t] # "out" => mIsRunning

(* One logger at a time holds mMutex; each has a record of its own.        *)
LockInv ==
  /\ \A t \in Loggers : at[t] \in {"normal", "debug", "unlock"} <=> mMutex = t
  /\ \A t \in Loggers :
       at[t] # "out" => record[t] \in Records /\ record[t].id < next
  /\ \A t, u \in Loggers :
       t # u /\ at[t] # "out" /\ at[u] # "out" => record[t].id # record[u].id

BaseInv == Typed /\ CtrlInv /\ RunInv /\ LockInv

LEMMA SoundAbsent == Sound(Absent(<<>>), 0)
<1> DEFINE d == Absent(<<>>)
<1>1. /\ d.there = FALSE /\ d.log = Closed /\ d.mem = 0 /\ d.buffer = <<>>
      /\ d.use = 0 /\ d.len = 0 /\ d.files = <<>>
      /\ d = [there |-> d.there, log |-> d.log, mem |-> d.mem,
              buffer |-> d.buffer, use |-> d.use, len |-> d.len, files |-> d.files]
  BY DEF Absent
<1> HIDE DEF d
<1>2. DOMAIN d.files = {}
  BY <1>1
<1>3. Shape(d, Records, MemSizes)
  <2>1. d.there \in BOOLEAN
    BY <1>1
  <2>2. /\ d.log \in {Closed} \cup DOMAIN d.files /\ d.mem \in MemSizes \cup {0}
        /\ d.use \in Nat /\ d.len \in Nat /\ d.buffer \in Seq(Records)
    BY <1>1, EmptySeq
  <2>3. DOMAIN d.files \subseteq Nat
    BY <1>2
  <2>4. d.files \in [DOMAIN d.files -> Seq(Records)]
    BY <1>1, <1>2
  <2> QED BY <1>1, <2>1, <2>2, <2>3, <2>4 DEF Shape
<1>4. Counted(d) /\ Bounded(d, MaxFileLength) /\ Latest(d, 0)
  BY <1>1, <1>2, SizeEmpty DEF Counted, Bounded, Latest
<1> QED BY <1>3, <1>4 DEF Sound, Whole, d

LEMMA BaseInit == Init => BaseInv
<1> SUFFICES ASSUME Init PROVE BaseInv
  OBVIOUS
<1>1. Typed
  <2>1. at \in [Loggers -> {"out", "lock", "normal", "debug", "unlock"}]
    BY DEF Init
  <2>2. record \in [Loggers -> Records \cup {Nothing}]
    BY DEF Init
  <2>3. /\ mIsRunning \in BOOLEAN /\ mDebugMode \in BOOLEAN
        /\ overtaken \subseteq Loggers /\ fault \subseteq Loggers \cup {"thread"}
    BY DEF Init
  <2>4. next \in 1..(MaxRecords + 1) /\ iCount \in 0..FlushEvery /\ clock \in 0..MaxClock
    BY ManagerAssumption DEF Init
  <2>5. mMutex = "free" /\ app = "idle" /\ thread = "none" /\ mLogLevel \in Levels
    BY DEF Init
  <2> QED BY <2>1, <2>2, <2>3, <2>4, <2>5 DEF Typed
<1>2. CtrlInv
  BY SoundAbsent DEF Init, CtrlInv
<1>3. RunInv
  BY DEF Init, RunInv, Absent
<1>4. LockInv
  BY ManagerAssumption DEF Init, LockInv
<1> QED BY <1>1, <1>2, <1>3, <1>4 DEF BaseInv

LEMMA TypedNext == Typed /\ LockInv /\ [Next]_vars => Typed'
<1> SUFFICES ASSUME Typed, LockInv, [Next]_vars PROVE Typed'
  OBVIOUS
<1> USE DEF Typed, settings, ctrls, loggers, logThread
<1>1. ASSUME NEW t \in Loggers, Enter(t) PROVE Typed'
  <2>1. PICK level \in Levels :
          record' = [record EXCEPT ![t] = [id |-> next, len |-> RecordLen, level |-> level]]
    BY <1>1 DEF Enter
  <2>2. next \in 1..MaxRecords /\ next' = next + 1
    BY <1>1, ManagerAssumption DEF Enter
  <2>3. [id |-> next, len |-> RecordLen, level |-> level] \in Records
    BY <2>2 DEF Records
  <2>4. record' \in [Loggers -> Records \cup {Nothing}]
    BY <2>1, <2>3
  <2>5. next' \in 1..(MaxRecords + 1)
    BY <2>2, ManagerAssumption
  <2> QED BY <1>1, <2>4, <2>5 DEF Enter
<1>2. ASSUME NEW t \in Loggers, Lock(t) PROVE Typed'
  BY <1>2 DEF Lock
<1>3. ASSUME NEW t \in Loggers, LogNormal(t) PROVE Typed'
  BY <1>3 DEF LogNormal, Logs
<1>4. ASSUME NEW t \in Loggers, LogDebug(t) PROVE Typed'
  BY <1>4 DEF LogDebug, Logs
<1>5. ASSUME NEW t \in Loggers, Unlock(t) PROVE Typed'
  BY <1>5 DEF Unlock
<1>6. CASE StartNormal \/ StartDebug \/ StartThread
  <2>1. mIsRunning' = mIsRunning \/ mIsRunning' = TRUE
    BY <1>6 DEF StartNormal, StartDebug, StartThread
  <2>2. mIsRunning' \in BOOLEAN
    BY <2>1
  <2>3. iCount' \in 0..FlushEvery
    BY <1>6, ManagerAssumption DEF StartNormal, StartDebug, StartThread
  <2> QED BY <1>6, <2>2, <2>3 DEF StartNormal, StartDebug, StartThread
<1>7. CASE StopFlag \/ StopJoin \/ StopNormal \/ StopDebug
  BY <1>7 DEF StopFlag, StopJoin, StopNormal, StopDebug
<1>8. CASE SetLogLevel \/ SetDebugMode \/ LogSetFlushBuffer
  BY <1>8 DEF SetLogLevel, SetDebugMode, LogSetFlushBuffer
<1>9. CASE ThreadTurn
  <2>1. iCount' \in 0..FlushEvery /\ thread' \in {"top", "flush", "done"}
    BY <1>9, ManagerAssumption DEF ThreadTurn
  <2> QED BY <1>9, <2>1 DEF ThreadTurn
<1>10. CASE ThreadFlush \/ ThreadNormal \/ ThreadDebug
  BY <1>10 DEF ThreadFlush, ThreadNormal, ThreadDebug
<1>11. CASE Tick
  BY <1>11, ManagerAssumption DEF Tick
<1>12. CASE Rerun
  <2>1. /\ mIsRunning' \in BOOLEAN /\ mDebugMode' \in BOOLEAN
        /\ overtaken' = {} /\ fault' = {}
    BY <1>12 DEF Rerun
  <2>2. iCount' \in 0..FlushEvery /\ clock' \in 0..MaxClock /\ next' \in 1..(MaxRecords + 1)
    BY <1>12, ManagerAssumption DEF Rerun
  <2>3. /\ at' \in [Loggers -> {"out", "lock", "normal", "debug", "unlock"}]
        /\ record' \in [Loggers -> Records \cup {Nothing}]
    BY <1>12 DEF Rerun
  <2>4. mMutex' = "free" /\ app' = "idle" /\ thread' = "none" /\ mLogLevel' = mLogLevel
    BY <1>12 DEF Rerun
  <2> QED BY <2>1, <2>2, <2>3, <2>4
<1>13. CASE UNCHANGED vars
  BY <1>13 DEF vars
<1> QED BY <1>1, <1>2, <1>3, <1>4, <1>5, <1>6, <1>7, <1>8, <1>9, <1>10, <1>11,
           <1>12, <1>13 DEF Next

LEMMA LockNext == Typed /\ LockInv /\ [Next]_vars => LockInv'
<1> SUFFICES ASSUME Typed, LockInv, [Next]_vars PROVE LockInv'
  OBVIOUS
<1> USE DEF settings, ctrls, loggers, logThread
<1>0. /\ at \in [Loggers -> {"out", "lock", "normal", "debug", "unlock"}]
      /\ record \in [Loggers -> Records \cup {Nothing}]
      /\ next \in 1..(MaxRecords + 1) /\ next \in Nat
  BY ManagerAssumption DEF Typed
<1>1. ASSUME NEW t \in Loggers, Enter(t) PROVE LockInv'
  <2>1. PICK level \in Levels :
          record' = [record EXCEPT ![t] = [id |-> next, len |-> RecordLen, level |-> level]]
    BY <1>1 DEF Enter
  <2> DEFINE r == [id |-> next, len |-> RecordLen, level |-> level]
  <2>2. next \in 1..MaxRecords /\ next' = next + 1
    BY <1>0, <1>1, ManagerAssumption DEF Enter
  <2>3. r \in Records /\ r.id = next
    BY <2>2 DEF Records
  <2>4. \A x \in Records : x.id \in Nat
    BY ManagerAssumption DEF Records
  <2>5. record' = [record EXCEPT ![t] = r]
    BY <2>1
  <2> HIDE DEF r
  <2>6. /\ at[t] = "out" /\ at' = [at EXCEPT ![t] = "lock"] /\ mMutex' = mMutex
    BY <1>1 DEF Enter
  <2>7. /\ record'[t] = r /\ \A u \in Loggers : u # t => record'[u] = record[u]
        /\ at'[t] = "lock" /\ \A u \in Loggers : u # t => at'[u] = at[u]
    BY <1>0, <2>5, <2>6
  <2>8. \A u \in Loggers : at'[u] \in {"normal", "debug", "unlock"} <=> mMutex' = u
    BY <2>6, <2>7 DEF LockInv
  <2>9. \A u \in Loggers : at'[u] # "out" => record'[u] \in Records /\ record'[u].id < next'
    BY <1>0, <2>2, <2>3, <2>4, <2>7 DEF LockInv
  <2>10. \A u, v \in Loggers :
           u # v /\ at'[u] # "out" /\ at'[v] # "out" => record'[u].id # record'[v].id
    BY <1>0, <2>2, <2>3, <2>4, <2>7 DEF LockInv
  <2> QED BY <2>8, <2>9, <2>10 DEF LockInv
<1>2. ASSUME NEW t \in Loggers, Lock(t) PROVE LockInv'
  BY <1>0, <1>2, ManagerAssumption DEF Lock, LockInv
<1>3. ASSUME NEW t \in Loggers, LogNormal(t) \/ LogDebug(t) PROVE LockInv'
  BY <1>0, <1>3 DEF LogNormal, LogDebug, LockInv
<1>4. ASSUME NEW t \in Loggers, Unlock(t) PROVE LockInv'
  BY <1>0, <1>4, ManagerAssumption DEF Unlock, LockInv
<1>5. CASE UNCHANGED <<mMutex, at, record, next>>
  BY <1>5 DEF LockInv
<1>6. CASE StartNormal \/ StartDebug \/ StartThread \/ StopFlag \/ StopJoin
           \/ StopNormal \/ StopDebug \/ SetLogLevel \/ SetDebugMode \/ LogSetFlushBuffer
           \/ ThreadTurn \/ ThreadFlush \/ ThreadNormal \/ ThreadDebug \/ Tick
  BY <1>5, <1>6 DEF StartNormal, StartDebug, StartThread, StopFlag, StopJoin, StopNormal,
       StopDebug, SetLogLevel, SetDebugMode, LogSetFlushBuffer, ThreadTurn, ThreadFlush,
       ThreadNormal, ThreadDebug, Tick
<1>7. CASE Rerun
  BY <1>7, ManagerAssumption DEF Rerun, LockInv
<1>8. CASE UNCHANGED vars
  BY <1>5, <1>8 DEF vars
<1> QED BY <1>1, <1>2, <1>3, <1>4, <1>6, <1>7, <1>8 DEF Next

-----------------------------------------------------------------------------
(* What the steps do to the two controllers.                               *)

LEMMA LogsStep ==
  ASSUME BaseInv, NEW t \in Loggers, at[t] # "out", NEW c, NEW new,
         Sound(c, clock), Logs(t, c, new)
  PROVE  /\ Sound(new, clock) /\ new.there = c.there
         /\ \/ new = c
            \/ c.there /\ Appends(c, new, clock, record[t])
            \/ c.there /\ Replaces(c, new, clock) /\ Overwrites
         /\ fault' = IF c.there THEN fault ELSE fault \cup {t}
<1>1. record[t] \in Records /\ clock \in Nat
  BY ManagerAssumption DEF BaseInv, LockInv, Typed
<1>2. CASE c.there
  <2>1. PICK opens \in BOOLEAN : new = LogMsg(c, record[t], clock, opens)
    BY <1>2 DEF Logs
  <2>2. (Rotates(c, record[t]) => MayCreate(c)) /\ UNCHANGED fault
    BY <1>2 DEF Logs
  <2>3. /\ Sound(new, clock) /\ new.there = c.there
        /\ \/ new = c
           \/ Appends(c, new, clock, record[t])
           \/ Replaces(c, new, clock) /\ Rotates(c, record[t])
    BY <1>1, <2>1, LogStep
  <2>4. Replaces(c, new, clock) /\ Rotates(c, record[t]) => Overwrites
    BY <2>2 DEF Replaces, MayCreate
  <2> QED BY <1>2, <2>2, <2>3, <2>4
<1>3. CASE ~c.there
  BY <1>3 DEF Logs
<1> QED BY <1>2, <1>3

LEMMA OpenedStep ==
  ASSUME NEW c, NEW new, clock \in Nat, Sound(c, clock), ~c.there, Opened(c, new)
  PROVE  /\ Sound(new, clock) /\ new.there /\ c.buffer = <<>> /\ new.buffer = <<>>
         /\ \/ Kept(new, clock) = Kept(c, clock)
            \/ Replaces(c, new, clock) /\ Overwrites
         /\ Begins(AllOf(new, clock), AllOf(c, clock))
<1>1. PICK opens \in BOOLEAN : new = CreateLog(Initialize(c, 0), clock, opens)
  BY DEF Opened
<1>2. /\ Sound(new, clock) /\ new.there /\ c.buffer = <<>> /\ new.buffer = <<>>
      /\ Kept(new, clock) = Kept(c, clock) \/ Replaces(c, new, clock)
      /\ Begins(AllOf(new, clock), AllOf(c, clock))
  BY <1>1, OpenStep
<1>3. Replaces(c, new, clock) => Overwrites
  BY DEF Opened, Replaces, MayCreate
<1> QED BY <1>2, <1>3

(* All that was logged, in each directory.                                 *)
NormalAll == AllOf(mpFileCtrl, clock)
DebugAll  == AllOf(mpFileCtrlDebug, clock)

(* A step loses the last of the records at most, or a logger adds its own. *)
Loses == Begins(NormalAll', NormalAll) /\ Begins(DebugAll', DebugAll)

AddsNormal(t) ==
  /\ LogNormal(t) /\ DebugAll' = DebugAll
  /\ NormalAll' = NormalAll \o <<record[t]>>

AddsDebug(t) ==
  /\ LogDebug(t) /\ NormalAll' = NormalAll
  /\ DebugAll' = DebugAll \o <<record[t]>>

LEMMA AllTypes ==
  ASSUME BaseInv
  PROVE  /\ clock \in Nat /\ NormalAll \in Seq(Records) /\ DebugAll \in Seq(Records)
         /\ Begins(NormalAll, NormalAll) /\ Begins(DebugAll, DebugAll)
<1>1. clock \in Nat
  BY ManagerAssumption DEF BaseInv, Typed
<1>2. NormalAll \in Seq(Records) /\ DebugAll \in Seq(Records)
  BY <1>1, SoundTypes DEF BaseInv, CtrlInv, NormalAll, DebugAll
<1> QED BY <1>1, <1>2, SameBegins

(* Only a logger that Stop has overtaken may find a controller missing.    *)
Strays(t, there) == fault' = fault \/ (~there /\ fault' = fault \cup {t})

LEMMA LogNormalStep ==
  ASSUME BaseInv, NEW t \in Loggers, LogNormal(t)
  PROVE  /\ Sound(mpFileCtrl', clock) /\ mpFileCtrl'.there = mpFileCtrl.there
         /\ Strays(t, mpFileCtrl.there)
         /\ \/ mpFileCtrl' = mpFileCtrl
            \/ mpFileCtrl.there /\ Appends(mpFileCtrl, mpFileCtrl', clock, record[t])
            \/ mpFileCtrl.there /\ Replaces(mpFileCtrl, mpFileCtrl', clock) /\ Overwrites
<1>1. at[t] # "out" /\ Sound(mpFileCtrl, clock)
  BY DEF LogNormal, BaseInv, CtrlInv
<1>2. CASE Wanted(t)
  BY <1>1, <1>2, LogsStep DEF LogNormal, Strays
<1>3. CASE ~Wanted(t)
  BY <1>1, <1>3 DEF LogNormal, Strays
<1> QED BY <1>2, <1>3

LEMMA LogDebugStep ==
  ASSUME BaseInv, NEW t \in Loggers, LogDebug(t)
  PROVE  /\ Sound(mpFileCtrlDebug', clock)
         /\ mpFileCtrlDebug'.there = mpFileCtrlDebug.there
         /\ Strays(t, mpFileCtrlDebug.there)
         /\ \/ mpFileCtrlDebug' = mpFileCtrlDebug
            \/ Appends(mpFileCtrlDebug, mpFileCtrlDebug', clock, record[t])
            \/ Replaces(mpFileCtrlDebug, mpFileCtrlDebug', clock) /\ Overwrites
<1>1. at[t] # "out" /\ Sound(mpFileCtrlDebug, clock)
  BY DEF LogDebug, BaseInv, CtrlInv
<1>2. CASE mDebugMode
  BY <1>1, <1>2, LogsStep DEF LogDebug, Strays
<1>3. CASE ~mDebugMode
  BY <1>1, <1>3 DEF LogDebug, Strays
<1> QED BY <1>2, <1>3

LEMMA CtrlNext ==
  ASSUME BaseInv, [Next]_vars
  PROVE  CtrlInv' /\ (Loses \/ \E t \in Loggers : AddsNormal(t) \/ AddsDebug(t))
<1> USE DEF settings, ctrls, loggers, logThread
<1> DEFINE c == mpFileCtrl  d == mpFileCtrlDebug
<1>1. /\ clock \in Nat /\ Sound(c, clock) /\ Sound(d, clock)
      /\ Begins(NormalAll, NormalAll) /\ Begins(DebugAll, DebugAll)
  BY AllTypes DEF BaseInv, CtrlInv
<1> DEFINE Fine == CtrlInv' /\ (Loses \/ \E t \in Loggers : AddsNormal(t) \/ AddsDebug(t))
<1>2. ASSUME c' = c, d' = d, clock' = clock PROVE Fine
  BY <1>1, <1>2 DEF CtrlInv, Loses, NormalAll, DebugAll
<1>3. ASSUME NEW t \in Loggers, LogNormal(t) PROVE Fine
  <2>1. d' = d /\ clock' = clock
    BY <1>3 DEF LogNormal
  <2>2. /\ Sound(c', clock)
        /\ \/ c' = c
           \/ Appends(c, c', clock, record[t])
           \/ Replaces(c, c', clock)
    BY <1>3, LogNormalStep
  <2>3. CtrlInv'
    BY <1>1, <2>1, <2>2 DEF CtrlInv
  <2>4. CASE Appends(c, c', clock, record[t])
    BY <1>3, <2>1, <2>3, <2>4 DEF Appends, AllWith, AddsNormal, NormalAll, DebugAll
  <2>5. CASE Replaces(c, c', clock)
    BY <1>1, <2>1, <2>2, <2>3, <2>5, ReplacesBegins DEF Loses, NormalAll, DebugAll
  <2> QED BY <1>2, <2>1, <2>2, <2>4, <2>5
<1>4. ASSUME NEW t \in Loggers, LogDebug(t) PROVE Fine
  <2>1. c' = c /\ clock' = clock
    BY <1>4 DEF LogDebug
  <2>2. /\ Sound(d', clock)
        /\ \/ d' = d
           \/ Appends(d, d', clock, record[t])
           \/ Replaces(d, d', clock)
    BY <1>4, LogDebugStep
  <2>3. CtrlInv'
    BY <1>1, <2>1, <2>2 DEF CtrlInv
  <2>4. CASE Appends(d, d', clock, record[t])
    BY <1>4, <2>1, <2>3, <2>4 DEF Appends, AllWith, AddsDebug, NormalAll, DebugAll
  <2>5. CASE Replaces(d, d', clock)
    BY <1>1, <2>1, <2>2, <2>3, <2>5, ReplacesBegins DEF Loses, NormalAll, DebugAll
  <2> QED BY <1>2, <2>1, <2>2, <2>4, <2>5
<1>5. CASE StartNormal
  <2>1. ~c.there /\ Opened(c, c') /\ d' = d /\ clock' = clock
    BY <1>5 DEF StartNormal, BaseInv, RunInv
  <2>2. Sound(c', clock) /\ Begins(AllOf(c', clock), AllOf(c, clock))
    BY <1>1, <2>1, OpenedStep
  <2> QED BY <1>1, <2>1, <2>2 DEF CtrlInv, Loses, NormalAll, DebugAll
<1>6. CASE StartDebug
  <2>1. ~d.there /\ Opened(d, d') /\ c' = c /\ clock' = clock
    BY <1>6 DEF StartDebug, BaseInv, RunInv
  <2>2. Sound(d', clock) /\ Begins(AllOf(d', clock), AllOf(d, clock))
    BY <1>1, <2>1, OpenedStep
  <2> QED BY <1>1, <2>1, <2>2 DEF CtrlInv, Loses, NormalAll, DebugAll
<1>7. CASE StopNormal
  <2>1. c' = Delete(c) /\ d' = d /\ clock' = clock
    BY <1>7 DEF StopNormal
  <2> QED BY <1>1, <2>1, DeleteStep DEF CtrlInv, Loses, NormalAll, DebugAll
<1>8. CASE StopDebug
  <2>1. d' = Delete(d) /\ c' = c /\ clock' = clock
    BY <1>8 DEF StopDebug
  <2> QED BY <1>1, <2>1, DeleteStep DEF CtrlInv, Loses, NormalAll, DebugAll
<1>9. CASE LogSetFlushBuffer
  <2>1. PICK iLen \in MemSizes :
          /\ c' = SetFlushBuffer(c, iLen)
          /\ d' = IF mDebugMode THEN SetFlushBuffer(d, iLen) ELSE d
    BY <1>9 DEF LogSetFlushBuffer
  <2>2. clock' = clock
    BY <1>9 DEF LogSetFlushBuffer
  <2>3. Sound(c', clock) /\ Writes(c, c', clock)
    BY <1>1, <2>1, ResizeStep
  <2>4. Sound(d', clock) /\ (Writes(d, d', clock) \/ d' = d)
    BY <1>1, <2>1, ResizeStep
  <2> QED BY <1>1, <2>2, <2>3, <2>4 DEF CtrlInv, Loses, Writes, NormalAll, DebugAll
<1>10. CASE ThreadNormal
  <2>1. c' = FlushMem2File(c) /\ d' = d /\ clock' = clock
    BY <1>10 DEF ThreadNormal
  <2> QED BY <1>1, <2>1, FlushStep DEF CtrlInv, Loses, Writes, NormalAll, DebugAll
<1>11. CASE ThreadDebug
  <2>1. c' = c /\ clock' = clock /\ (d' = FlushMem2File(d) \/ d' = d)
    BY <1>11 DEF ThreadDebug
  <2>2. Sound(d', clock) /\ (Writes(d, d', clock) \/ d' = d)
    BY <1>1, <2>1, FlushStep
  <2> QED BY <1>1, <2>1, <2>2 DEF CtrlInv, Loses, Writes, NormalAll, DebugAll
<1>12. CASE Rerun
  <2>1. c' = Delete(c) /\ d' = Delete(d) /\ clock' = clock
    BY <1>12 DEF Rerun
  <2> QED BY <1>1, <2>1, DeleteStep DEF CtrlInv, Loses, NormalAll, DebugAll
<1>13. CASE Tick
  <2>1. c' = c /\ d' = d /\ clock' = clock + 1
    BY <1>13 DEF Tick
  <2>2. /\ Sound(c, clock + 1) /\ AllOf(c, clock + 1) = AllOf(c, clock)
        /\ Sound(d, clock + 1) /\ AllOf(d, clock + 1) = AllOf(d, clock)
    BY <1>1, TickStep
  <2> QED BY <1>1, <2>1, <2>2 DEF CtrlInv, Loses, NormalAll, DebugAll
<1>14. CASE \/ \E t \in Loggers : Enter(t) \/ Lock(t) \/ Unlock(t)
            \/ StartThread \/ StopFlag \/ StopJoin \/ SetLogLevel \/ SetDebugMode
            \/ ThreadTurn \/ ThreadFlush \/ UNCHANGED vars
  BY <1>2, <1>14 DEF Enter, Lock, Unlock, StartThread, StopFlag, StopJoin, SetLogLevel,
       SetDebugMode, ThreadTurn, ThreadFlush, vars
<1> QED BY <1>3, <1>4, <1>5, <1>6, <1>7, <1>8, <1>9, <1>10, <1>11, <1>12, <1>13, <1>14
        DEF Next

-----------------------------------------------------------------------------
(* The controllers and the log thread beside the main thread.              *)

LEMMA RunNext ==
  ASSUME BaseInv, [Next]_vars
  PROVE  RunInv'
<1> USE DEF settings, ctrls, loggers, logThread
<1> DEFINE c == mpFileCtrl  d == mpFileCtrlDebug
<1>1. /\ clock \in Nat /\ Sound(c, clock) /\ Sound(d, clock) /\ RunInv
      /\ at \in [Loggers -> {"out", "lock", "normal", "debug", "unlock"}]
      /\ overtaken \subseteq Loggers
  BY AllTypes DEF BaseInv, CtrlInv, Typed
<1>2. ASSUME NEW t \in Loggers, Enter(t) PROVE RunInv'
  BY <1>1, <1>2 DEF Enter, RunInv
<1>3. ASSUME NEW t \in Loggers, Lock(t) \/ Unlock(t) PROVE RunInv'
  BY <1>1, <1>3 DEF Lock, Unlock, RunInv
<1>4. ASSUME NEW t \in Loggers, LogNormal(t) PROVE RunInv'
  <2>1. c'.there = c.there /\ d' = d /\ Strays(t, c.there)
    BY <1>4, LogNormalStep DEF LogNormal
  <2>2. fault' \subseteq overtaken
    BY <1>1, <1>4, <2>1 DEF LogNormal, RunInv, Strays
  <2> QED BY <1>1, <1>4, <2>1, <2>2 DEF LogNormal, RunInv
<1>5. ASSUME NEW t \in Loggers, LogDebug(t) PROVE RunInv'
  <2>1. d'.there = d.there /\ c' = c /\ Strays(t, d.there)
    BY <1>5, LogDebugStep DEF LogDebug
  <2>2. fault' \subseteq overtaken
    BY <1>1, <1>5, <2>1 DEF LogDebug, RunInv, Strays
  <2> QED BY <1>1, <1>5, <2>1, <2>2 DEF LogDebug, RunInv
<1>6. CASE StartNormal
  <2>1. Opened(c, c') /\ ~c.there
    BY <1>1, <1>6 DEF StartNormal, RunInv
  <2>2. c'.there
    BY <1>1, <2>1, OpenedStep
  <2> QED BY <1>1, <1>6, <2>2 DEF StartNormal, RunInv
<1>7. CASE StartDebug
  <2>1. Opened(d, d') /\ ~d.there
    BY <1>1, <1>7 DEF StartDebug, RunInv
  <2>2. d'.there
    BY <1>1, <2>1, OpenedStep
  <2> QED BY <1>1, <1>7, <2>2 DEF StartDebug, RunInv
<1>8. CASE StartThread \/ StopJoin \/ SetLogLevel \/ SetDebugMode
           \/ ThreadTurn \/ ThreadFlush \/ Tick \/ UNCHANGED vars
  BY <1>1, <1>8 DEF StartThread, StopJoin, SetLogLevel, SetDebugMode,
       ThreadTurn, ThreadFlush, Tick, vars, RunInv
<1>9. CASE StopNormal
  <2>1. ~c'.there
    BY <1>1, <1>9, DeleteStep DEF StopNormal
  <2> QED BY <1>1, <1>9, <2>1 DEF StopNormal, RunInv
<1>10. CASE StopDebug
  <2>1. ~d'.there
    BY <1>1, <1>10, DeleteStep DEF StopDebug
  <2> QED BY <1>1, <1>10, <2>1 DEF StopDebug, RunInv
<1>11. CASE LogSetFlushBuffer
  <2>1. c'.there = c.there /\ d'.there = d.there
    BY <1>1, <1>11, ResizeStep DEF LogSetFlushBuffer
  <2> QED BY <1>1, <1>11, <2>1 DEF LogSetFlushBuffer, RunInv
<1>12. CASE ThreadNormal
  <2>1. c'.there = c.there /\ c.there
    BY <1>1, <1>12, FlushStep DEF ThreadNormal, RunInv
  <2> QED BY <1>1, <1>12, <2>1 DEF ThreadNormal, RunInv
<1>13. CASE ThreadDebug
  <2>1. d'.there = d.there /\ d.there
    BY <1>1, <1>13, FlushStep DEF ThreadDebug, RunInv
  <2> QED BY <1>1, <1>13, <2>1 DEF ThreadDebug, RunInv
<1>14. CASE Rerun
  <2>1. ~c'.there /\ ~d'.there
    BY <1>1, <1>14, DeleteStep DEF Rerun
  <2>2. \A t \in Loggers : at'[t] = "out"
    BY <1>14 DEF Rerun
  <2>3. /\ ~mIsRunning' /\ app' = "idle" /\ thread' = "none"
        /\ overtaken' = {} /\ fault' = {}
    BY <1>14 DEF Rerun
  <2> QED BY <2>1, <2>2, <2>3 DEF RunInv
<1>15. CASE StopFlag
  <2>1. fault \subseteq overtaken' /\ fault' = fault
    <3>1. \A t \in fault : t \in Loggers /\ at[t] # "out"
      BY <1>1 DEF RunInv
    <3> QED BY <1>15, <3>1 DEF StopFlag
  <2>2. \A t \in Loggers \ overtaken' : at'[t] = "out"
    BY <1>15 DEF StopFlag
  <2> QED BY <1>1, <1>15, <2>1, <2>2 DEF StopFlag, RunInv
<1> QED BY <1>2, <1>3, <1>4, <1>5, <1>6, <1>7, <1>8, <1>9, <1>10, <1>11, <1>12, <1>13,
           <1>14, <1>15 DEF Next

LEMMA BaseNext == BaseInv /\ [Next]_vars => BaseInv'
BY TypedNext, LockNext, CtrlNext, RunNext DEF BaseInv

LEMMA BaseAlways == Spec => []BaseInv
BY BaseInit, BaseNext, PTL DEF Spec

(* The variables always have their shape (LogManager.h:56-68).             *)
THEOREM LogManagerTypes == Spec => []TypeOK
<1>1. BaseInv => TypeOK
  BY DEF BaseInv, Typed, CtrlInv, Sound, Whole, Shape, TypeOK
<1> QED BY <1>1, BaseAlways, PTL

(* In any interleaving of the loggers, the log thread and a main thread    *)
(* that starts and stops the log, no thread uses a controller that is not  *)
(* there but a logger that Stop has overtaken between its look at the flag *)
(* and its return (LogManager.cpp:91, 132-138, 225-241, 252-272, 325-341). *)
THEOREM ControllersAlwaysThere == Spec => []ControllersThere
<1>1. BaseInv => ControllersThere
  BY DEF BaseInv, Typed, RunInv, ControllersThere
<1> QED BY <1>1, BaseAlways, PTL

(* The log thread is never beside a log that is not running or a Stop that *)
(* deletes the controllers (LogManager.cpp:262-272, KThread.cpp:40-74).    *)
THEOREM ThreadAlwaysBesideRun == Spec => []ThreadBesideRun
<1>1. BaseInv => ThreadBesideRun
  BY DEF BaseInv, Typed, RunInv, ThreadBesideRun
<1> QED BY <1>1, BaseAlways, PTL

-----------------------------------------------------------------------------
(* The order of the records in the two directories.                        *)

(* Of sequences of records: each record is there once, they are older than *)
(* the next one, a record is not there, or is the last one.                *)
Distinct(s) == \A i, j \in 1..Len(s) : s[i].id = s[j].id => i = j
Older(s, n) == \A i \in 1..Len(s) : s[i].id < n
Without(s, id) == \A i \in 1..Len(s) : s[i].id # id
LastOnly(s, id) == \A i \in 1..Len(s) : s[i].id = id => i = Len(s)

Ordered(s, d) == \A i, j \in 1..Len(s) : i < j => ~Before(s[j], s[i], d)

(* A record that is being logged is in no directory yet, and then at the   *)
(* normal one's end, if at all.                                            *)
Pending(s, d) ==
  \A t \in Loggers :
    /\ at[t] \in {"lock", "normal"} =>
         Without(s, record[t].id) /\ Without(d, record[t].id)
    /\ at[t] = "debug" => LastOnly(s, record[t].id) /\ Without(d, record[t].id)

Arranged(s, d, n) ==
  Distinct(s) /\ Distinct(d) /\ Older(s, n) /\ Older(d, n) /\ Ordered(s, d)

OrderInv == Arranged(NormalAll, DebugAll, next) /\ Pending(NormalAll, DebugAll)

IInv == BaseInv /\ OrderInv

LEMMA EmptyArranged ==
  ASSUME NEW n
  PROVE  Arranged(<<>>, <<>>, n)
BY EmptySeq DEF Arranged, Distinct, Older, Ordered

(* What is so of a sequence is so of its beginnings.                       *)
LEMMA LosesArranged ==
  ASSUME NEW s \in Seq(Records), NEW s1 \in Seq(Records), Begins(s1, s),
         NEW d \in Seq(Records), NEW d1 \in Seq(Records), Begins(d1, d),
         NEW n \in Nat, Arranged(s, d, n)
  PROVE  Arranged(s1, d1, n)
<1>1. /\ Len(s1) \in Nat /\ Len(s) \in Nat /\ Len(d1) \in Nat /\ Len(d) \in Nat
      /\ 1..Len(s1) \subseteq 1..Len(s) /\ 1..Len(d1) \subseteq 1..Len(d)
  BY LenProperties DEF Begins
<1>2. Distinct(s1) /\ Distinct(d1) /\ Older(s1, n) /\ Older(d1, n)
  BY <1>1 DEF Begins, Arranged, Distinct, Older
<1>3. Ordered(s1, d1)
  <2> SUFFICES ASSUME NEW i \in 1..Len(s1), NEW j \in 1..Len(s1), i < j,
                      NEW a \in 1..Len(d1), NEW b \in 1..Len(d1), a < b,
                      d1[a] = s1[j], d1[b] = s1[i]
               PROVE  FALSE
    BY DEF Ordered, Before
  <2>1. /\ i \in 1..Len(s) /\ j \in 1..Len(s) /\ a \in 1..Len(d) /\ b \in 1..Len(d)
        /\ d[a] = s[j] /\ d[b] = s[i]
    BY <1>1 DEF Begins
  <2> QED BY <2>1 DEF Arranged, Ordered, Before
<1> QED BY <1>2, <1>3 DEF Arranged

LEMMA LosesPending ==
  ASSUME NEW s \in Seq(Records), NEW s1 \in Seq(Records), Begins(s1, s), NEW id
  PROVE  /\ Without(s, id) => Without(s1, id) /\ LastOnly(s1, id)
         /\ LastOnly(s, id) => LastOnly(s1, id)
<1>1. /\ Len(s1) \in Nat /\ Len(s) \in Nat /\ Len(s1) <= Len(s)
      /\ 1..Len(s1) \subseteq 1..Len(s)
  BY LenProperties DEF Begins
<1> QED BY <1>1 DEF Begins, Without, LastOnly

LEMMA AppendSplits ==
  ASSUME NEW s \in Seq(Records), NEW r \in Records
  PROVE  LET s1 == s \o <<r>>
         IN /\ s1 \in Seq(Records) /\ Len(s1) = Len(s) + 1 /\ Len(s) \in Nat
            /\ s1[Len(s) + 1] = r
            /\ \A i \in 1..Len(s) : s1[i] = s[i]
            /\ \A i \in 1..Len(s1) : i \in 1..Len(s) \/ i = Len(s) + 1
BY AppendIsConcat, AppendProperties, LenProperties

(* A record that is in no directory is added to the normal one.            *)
LEMMA NormalArranged ==
  ASSUME NEW s \in Seq(Records), NEW d \in Seq(Records), NEW r \in Records,
         NEW n \in Nat, Arranged(s, d, n), r.id < n, Without(s, r.id), Without(d, r.id),
         NEW s1, s1 = s \o <<r>>
  PROVE  /\ Arranged(s1, d, n) /\ LastOnly(s1, r.id)
         /\ \A id : id # r.id /\ Without(s, id) => Without(s1, id)
<1>1. /\ Len(s1) = Len(s) + 1 /\ Len(s) \in Nat /\ s1[Len(s) + 1] = r
      /\ \A i \in 1..Len(s) : s1[i] = s[i]
      /\ \A i \in 1..Len(s1) : i \in 1..Len(s) \/ i = Len(s) + 1
  BY AppendSplits
<1>2. Distinct(s1) /\ Older(s1, n) /\ LastOnly(s1, r.id)
  BY <1>1 DEF Arranged, Distinct, Older, Without, LastOnly
<1>3. \A id : id # r.id /\ Without(s, id) => Without(s1, id)
  BY <1>1 DEF Without
<1>4. Ordered(s1, d)
  <2> SUFFICES ASSUME NEW i \in 1..Len(s1), NEW j \in 1..Len(s1), i < j,
                      NEW a \in 1..Len(d), NEW b \in 1..Len(d), a < b,
                      d[a] = s1[j], d[b] = s1[i]
               PROVE  FALSE
    BY DEF Ordered, Before
  <2>1. i \in 1..Len(s) /\ s1[i] = s[i]
    BY <1>1
  <2>2. CASE j = Len(s) + 1
    BY <1>1, <2>2 DEF Without
  <2>3. CASE j \in 1..Len(s)
    BY <1>1, <2>1, <2>3 DEF Arranged, Ordered, Before
  <2> QED BY <1>1, <2>2, <2>3
<1> QED BY <1>2, <1>3, <1>4 DEF Arranged

(* A record that is last in the normal directory, if it is there, is added *)
(* to the debug one.                                                       *)
LEMMA DebugArranged ==
  ASSUME NEW s \in Seq(Records), NEW d \in Seq(Records), NEW r \in Records,
         NEW n \in Nat, Arranged(s, d, n), r.id < n, LastOnly(s, r.id), Without(d, r.id),
         NEW d1, d1 = d \o <<r>>
  PROVE  /\ Arranged(s, d1, n)
         /\ \A id : id # r.id /\ Without(d, id) => Without(d1, id)
<1>1. /\ Len(d1) = Len(d) + 1 /\ Len(d) \in Nat /\ d1[Len(d) + 1] = r
      /\ \A i \in 1..Len(d) : d1[i] = d[i]
      /\ \A i \in 1..Len(d1) : i \in 1..Len(d) \/ i = Len(d) + 1
  BY AppendSplits
<1>2. Distinct(d1) /\ Older(d1, n)
  BY <1>1 DEF Arranged, Distinct, Older, Without
<1>3. \A id : id # r.id /\ Without(d, id) => Without(d1, id)
  BY <1>1 DEF Without
<1>4. Ordered(s, d1)
  <2> SUFFICES ASSUME NEW i \in 1..Len(s), NEW j \in 1..Len(s), i < j,
                      NEW a \in 1..Len(d1), NEW b \in 1..Len(d1), a < b,
                      d1[a] = s[j], d1[b] = s[i]
               PROVE  FALSE
    BY DEF Ordered, Before
  <2>1. a \in 1..Len(d) /\ d1[a] = d[a]
    BY <1>1
  <2>2. CASE b = Len(d) + 1
    <3>1. i = Len(s)
      BY <1>1, <2>2 DEF LastOnly
    <3> QED BY <3>1, LenProperties
  <2>3. CASE b \in 1..Len(d)
    BY <1>1, <2>1, <2>3 DEF Arranged, Ordered, Before
  <2> QED BY <1>1, <2>2, <2>3
<1> QED BY <1>2, <1>3, <1>4 DEF Arranged

LEMMA EmptyKept == Kept(Absent(<<>>), 0) = <<>> /\ AllOf(Absent(<<>>), 0) = <<>>
<1> DEFINE c == Absent(<<>>)
<1>1. DOMAIN c.files = {} /\ c.buffer = <<>>
  BY DEF Absent
<1>2. Sound(c, 0)
  BY SoundAbsent
<1> HIDE DEF c
<1>3. FilesOver(c, Records) /\ FileOf(c, 0) = <<>>
  BY <1>1 DEF FilesOver, FileOf
<1>4. 0 - 1 \in Int /\ 0 \in Nat
  OBVIOUS
<1>5. PICK f : Joins(c, Records, 0, f) /\ Kept(c, 0 - 1) = f[0]
  BY <1>3, <1>4, KeptJoins
<1>6. Kept(c, 0) = Kept(c, 0 - 1) \o FileOf(c, 0)
  BY <1>3, <1>4, KeptStep
<1>7. <<>> \o <<>> = <<>>
  BY EmptySeq, ConcatEmptySeq
<1>8. Kept(c, 0) = <<>>
  BY <1>3, <1>5, <1>6, <1>7 DEF Joins
<1>9. AllOf(c, 0) = <<>>
  BY <1>1, <1>2, <1>4, <1>8, NoBlock
<1> QED BY <1>8, <1>9 DEF c

LEMMA OrderInit == Init => OrderInv
<1> SUFFICES ASSUME Init PROVE OrderInv
  OBVIOUS
<1>1. NormalAll = <<>> /\ DebugAll = <<>>
  BY EmptyKept DEF Init, NormalAll, DebugAll
<1>2. \A t \in Loggers : at[t] = "out"
  BY DEF Init
<1> QED BY <1>1, <1>2, EmptyArranged DEF OrderInv, Pending

(* Where a logger can have come from, but for the one that enters Log.     *)
LEMMA LoggersGo ==
  ASSUME Typed, [Next]_vars, ~\E t \in Loggers : Enter(t)
  PROVE  /\ next' = next
         /\ \A t \in Loggers :
              /\ at'[t] \in {"lock", "normal"} =>
                   at[t] \in {"lock", "normal"} /\ record'[t] = record[t]
              /\ at'[t] = "debug" =>
                   at[t] \in {"normal", "debug"} /\ record'[t] = record[t]
<1> USE DEF settings, ctrls, loggers, logThread
<1>1. /\ at \in [Loggers -> {"out", "lock", "normal", "debug", "unlock"}]
      /\ record \in [Loggers -> Records \cup {Nothing}]
  BY DEF Typed
<1> DEFINE Fine ==
             /\ next' = next
             /\ \A t \in Loggers :
                  /\ at'[t] \in {"lock", "normal"} =>
                       at[t] \in {"lock", "normal"} /\ record'[t] = record[t]
                  /\ at'[t] = "debug" =>
                       at[t] \in {"normal", "debug"} /\ record'[t] = record[t]
<1>2. ASSUME NEW t \in Loggers, Lock(t) PROVE Fine
  BY <1>1, <1>2 DEF Lock
<1>3. ASSUME NEW t \in Loggers, LogNormal(t) \/ LogDebug(t) PROVE Fine
  BY <1>1, <1>3 DEF LogNormal, LogDebug
<1>4. ASSUME NEW t \in Loggers, Unlock(t) PROVE Fine
  BY <1>1, <1>4 DEF Unlock
<1>5. CASE UNCHANGED <<at, record, next>>
  BY <1>5
<1>6. CASE StartNormal \/ StartDebug \/ StartThread \/ StopFlag \/ StopJoin
           \/ StopNormal \/ StopDebug \/ SetLogLevel \/ SetDebugMode \/ LogSetFlushBuffer
           \/ ThreadTurn \/ ThreadFlush \/ ThreadNormal \/ ThreadDebug \/ Tick
  BY <1>5, <1>6 DEF StartNormal, StartDebug, StartThread, StopFlag, StopJoin, StopNormal,
       StopDebug, SetLogLevel, SetDebugMode, LogSetFlushBuffer, ThreadTurn, ThreadFlush,
       ThreadNormal, ThreadDebug, Tick
<1>7. CASE Rerun
  BY <1>7 DEF Rerun
<1>8. CASE UNCHANGED vars
  BY <1>5, <1>8 DEF vars
<1> QED BY <1>2, <1>3, <1>4, <1>6, <1>7, <1>8 DEF Next

LEMMA BaseSequences ==
  BaseInv => NormalAll \in Seq(Records) /\ DebugAll \in Seq(Records)
BY AllTypes

LEMMA OrderNext ==
  ASSUME IInv, BaseInv', [Next]_vars
  PROVE  OrderInv'
<1> USE DEF settings, ctrls, loggers, logThread
<1> DEFINE s == NormalAll  d == DebugAll
<1>1. /\ s \in Seq(Records) /\ d \in Seq(Records) /\ next \in Nat /\ next' \in Nat
      /\ Arranged(s, d, next) /\ Pending(s, d) /\ LockInv
      /\ at \in [Loggers -> {"out", "lock", "normal", "debug", "unlock"}]
  BY AllTypes, ManagerAssumption DEF IInv, BaseInv, Typed, OrderInv
<1>2. s' \in Seq(Records) /\ d' \in Seq(Records)
  <2>1. (BaseInv => NormalAll \in Seq(Records) /\ DebugAll \in Seq(Records))'
    BY BaseSequences, PTL
  <2> QED BY <2>1
<1>3. ASSUME NEW t \in Loggers, Enter(t) PROVE OrderInv'
  <2>1. s' = s /\ d' = d /\ next' = next + 1
    BY <1>3 DEF Enter, NormalAll, DebugAll
  <2>2. Arranged(s, d, next + 1)
    <3>1. \A r \in Records : r.id \in Nat
      BY ManagerAssumption DEF Records
    <3>2. /\ \A i \in 1..Len(s) : s[i].id \in Nat
          /\ \A i \in 1..Len(d) : d[i].id \in Nat
      BY <1>1, <3>1, ElementOfSeq
    <3>3. Older(s, next + 1) /\ Older(d, next + 1)
      BY <1>1, <3>2 DEF Arranged, Older
    <3> QED BY <1>1, <3>3 DEF Arranged
  <2>3. /\ at'[t] = "lock" /\ record'[t].id = next
        /\ \A u \in Loggers : u # t => at'[u] = at[u] /\ record'[u] = record[u]
    BY <1>1, <1>3 DEF Enter, IInv, BaseInv, Typed
  <2>4. Without(s, next) /\ Without(d, next)
    BY <1>1 DEF Arranged, Older, Without
  <2>5. Pending(s, d)'
    BY <1>1, <2>1, <2>3, <2>4 DEF Pending
  <2> QED BY <2>1, <2>2, <2>5 DEF OrderInv
<1>4. CASE ~\E t \in Loggers : Enter(t)
  <2>1. /\ next' = next
        /\ \A u \in Loggers :
             /\ at'[u] \in {"lock", "normal"} =>
                  at[u] \in {"lock", "normal"} /\ record'[u] = record[u]
             /\ at'[u] = "debug" =>
                  at[u] \in {"normal", "debug"} /\ record'[u] = record[u]
    BY <1>4, LoggersGo DEF IInv, BaseInv
  <2>2. CASE Loses
    <3>1. Begins(s', s) /\ Begins(d', d)
      BY <2>2 DEF Loses
    <3>2. Arranged(s', d', next')
      BY <1>1, <1>2, <2>1, <3>1, LosesArranged
    <3>3. \A id : /\ Without(s, id) => Without(s', id) /\ LastOnly(s', id)
                  /\ LastOnly(s, id) => LastOnly(s', id)
                  /\ Without(d, id) => Without(d', id)
      BY <1>1, <1>2, <3>1, LosesPending
    <3>4. Pending(s, d)'
      BY <1>1, <2>1, <3>3 DEF Pending
    <3> QED BY <3>2, <3>4 DEF OrderInv
  <2>3. ASSUME NEW t \in Loggers, AddsNormal(t) PROVE OrderInv'
    <3> DEFINE r == record[t]
    <3>1. /\ at[t] = "normal" /\ at'[t] = "debug" /\ record' = record
          /\ \A u \in Loggers : u # t => at'[u] = at[u]
          /\ mMutex' = mMutex
      BY <1>1, <2>3 DEF AddsNormal, LogNormal
    <3>2. /\ r \in Records /\ r.id < next /\ Without(s, r.id) /\ Without(d, r.id)
          /\ \A u \in Loggers : u # t /\ at[u] # "out" => record[u].id # r.id
      BY <1>1, <3>1 DEF LockInv, Pending
    <3>3. s' = s \o <<r>> /\ d' = d
      BY <2>3 DEF AddsNormal
    <3> HIDE DEF r
    <3>4. /\ Arranged(s', d, next) /\ LastOnly(s', r.id)
          /\ \A id : id # r.id /\ Without(s, id) => Without(s', id)
      BY <1>1, <3>2, <3>3, NormalArranged
    <3>5. \A u \in Loggers : u # t => at[u] \notin {"normal", "debug"}
      BY <1>1, <3>1 DEF LockInv
    <3>6. Pending(s, d)'
      <4> SUFFICES ASSUME NEW u \in Loggers
                   PROVE  /\ at'[u] \in {"lock", "normal"} =>
                               Without(s', record'[u].id) /\ Without(d', record'[u].id)
                          /\ at'[u] = "debug" =>
                               LastOnly(s', record'[u].id) /\ Without(d', record'[u].id)
        BY DEF Pending
      <4>1. CASE u = t
        BY <3>1, <3>2, <3>3, <3>4, <4>1 DEF r
      <4>2. CASE u # t
        <5>1. at'[u] = at[u] /\ record'[u] = record[u] /\ at[u] \notin {"normal", "debug"}
          BY <3>1, <3>5, <4>2
        <5>2. CASE at[u] = "lock"
          <6>1. Without(s, record[u].id) /\ Without(d, record[u].id) /\ record[u].id # r.id
            BY <1>1, <3>2, <4>2, <5>2 DEF Pending
          <6> QED BY <3>3, <3>4, <5>1, <5>2, <6>1
        <5> QED BY <5>1, <5>2
      <4> QED BY <4>1, <4>2
    <3> QED BY <2>1, <3>3, <3>4, <3>6 DEF OrderInv
  <2>4. ASSUME NEW t \in Loggers, AddsDebug(t) PROVE OrderInv'
    <3> DEFINE r == record[t]
    <3>1. /\ at[t] = "debug" /\ at'[t] = "unlock" /\ record' = record
          /\ \A u \in Loggers : u # t => at'[u] = at[u]
          /\ mMutex' = mMutex
      BY <1>1, <2>4 DEF AddsDebug, LogDebug
    <3>2. /\ r \in Records /\ r.id < next /\ LastOnly(s, r.id) /\ Without(d, r.id)
          /\ \A u \in Loggers : u # t /\ at[u] # "out" => record[u].id # r.id
      BY <1>1, <3>1 DEF LockInv, Pending
    <3>3. d' = d \o <<r>> /\ s' = s
      BY <2>4 DEF AddsDebug
    <3> HIDE DEF r
    <3>4. /\ Arranged(s, d', next)
          /\ \A id : id # r.id /\ Without(d, id) => Without(d', id)
      BY <1>1, <3>2, <3>3, DebugArranged
    <3>5. \A u \in Loggers : u # t => at[u] \notin {"normal", "debug"}
      BY <1>1, <3>1 DEF LockInv
    <3>6. Pending(s, d)'
      <4> SUFFICES ASSUME NEW u \in Loggers
                   PROVE  /\ at'[u] \in {"lock", "normal"} =>
                               Without(s', record'[u].id) /\ Without(d', record'[u].id)
                          /\ at'[u] = "debug" =>
                               LastOnly(s', record'[u].id) /\ Without(d', record'[u].id)
        BY DEF Pending
      <4>1. CASE u = t
        BY <3>1, <4>1
      <4>2. CASE u # t
        <5>1. at'[u] = at[u] /\ record'[u] = record[u] /\ at[u] \notin {"normal", "debug"}
          BY <3>1, <3>5, <4>2
        <5>2. CASE at[u] = "lock"
          <6>1. Without(s, record[u].id) /\ Without(d, record[u].id) /\ record[u].id # r.id
            BY <1>1, <3>2, <4>2, <5>2 DEF Pending
          <6> QED BY <3>3, <3>4, <5>1, <5>2, <6>1
        <5> QED BY <5>1, <5>2
      <4> QED BY <4>1, <4>2
    <3> QED BY <2>1, <3>3, <3>4, <3>6 DEF OrderInv
  <2> QED BY <2>2, <2>3, <2>4, CtrlNext DEF IInv
<1> QED BY <1>3, <1>4

LEMMA InvariantAlways == Spec => []IInv
<1>1. Init => IInv
  BY BaseInit, OrderInit DEF IInv
<1>2. IInv /\ [Next]_vars => IInv'
  BY BaseNext, OrderNext DEF IInv
<1> QED BY <1>1, <1>2, PTL DEF Spec

(* Records that are in both directories are there in the same order,       *)
(* whatever the loggers, the flushes, the stops and the deaths between     *)
(* (LogManager.cpp:95, 132-148).                                           *)
THEOREM OrderAlwaysSame == Spec => []SameOrder
<1>1. IInv => SameOrder
  BY DEF IInv, OrderInv, Arranged, Ordered, SameOrder, Logged, AllOf, NormalAll, DebugAll
<1> QED BY <1>1, InvariantAlways, PTL

-----------------------------------------------------------------------------
(* The refinement of Journal, by the normal directory.                     *)

LEMMA JournalInit == Init => J!Init
BY EmptyKept, ManagerAssumption DEF Init, J!Init, Absent

(* Steps of the journal, by what becomes of the controller.                *)
LEMMA AppendsAccept ==
  ASSUME NEW r \in Records, Appends(mpFileCtrl, mpFileCtrl', clock, r), clock' = clock,
         mpFileCtrl.there, mpFileCtrl'.there
  PROVE  J!Next
<1>1. /\ AllOf(mpFileCtrl', clock') = AllWith(mpFileCtrl, clock, <<r>>)
      /\ Len(Kept(mpFileCtrl', clock')) >= Len(Kept(mpFileCtrl, clock))
  BY DEF Appends
<1>2. J!Accept(r)
  BY <1>1, Zenon DEF J!Accept, J!Moves, AllOf, AllWith
<1> QED BY <1>2 DEF J!Next

LEMMA WritesPersist ==
  ASSUME Writes(mpFileCtrl, mpFileCtrl', clock), clock' = clock,
         mpFileCtrl.there, mpFileCtrl'.there
  PROVE  J!Next
<1>1. /\ AllOf(mpFileCtrl', clock') = AllOf(mpFileCtrl, clock)
      /\ Len(Kept(mpFileCtrl', clock')) >= Len(Kept(mpFileCtrl, clock))
  BY DEF Writes
<1>2. J!Persist
  BY <1>1, Zenon DEF J!Persist, J!Moves, AllOf
<1> QED BY <1>2 DEF J!Next

LEMMA ReplacesOverwrite ==
  ASSUME Replaces(mpFileCtrl, mpFileCtrl', clock), clock' = clock, Overwrites,
         mpFileCtrl'.there
  PROVE  J!Next
BY DEF Replaces, Begins, J!Next, J!Overwrite, J!Beginning

LEMMA JournalNext ==
  BaseInv /\ [Next]_vars =>
    [J!Next]_<<Kept(mpFileCtrl, clock), mpFileCtrl.buffer, mpFileCtrl.there, Overwrites>>
<1> SUFFICES ASSUME BaseInv, [Next]_vars
             PROVE  J!Next \/ UNCHANGED <<Kept(mpFileCtrl, clock), mpFileCtrl.buffer,
                                          mpFileCtrl.there, Overwrites>>
  OBVIOUS
<1> USE DEF settings, ctrls, loggers, logThread
<1> DEFINE c == mpFileCtrl
           Fine == J!Next \/ UNCHANGED <<Kept(c, clock), c.buffer, c.there, Overwrites>>
<1>1. clock \in Nat /\ Sound(c, clock) /\ RunInv
  BY AllTypes DEF BaseInv, CtrlInv
<1>2. ASSUME c' = c, clock' = clock PROVE Fine
  BY <1>2
<1>3. ASSUME NEW t \in Loggers, LogNormal(t) PROVE Fine
  <2>1. clock' = clock /\ record[t] \in Records
    BY <1>1, <1>3 DEF LogNormal, BaseInv, LockInv
  <2>2. /\ c'.there = c.there
        /\ \/ c' = c
           \/ c.there /\ Appends(c, c', clock, record[t])
           \/ c.there /\ Replaces(c, c', clock) /\ Overwrites
    BY <1>3, LogNormalStep
  <2> QED BY <1>2, <2>1, <2>2, AppendsAccept, ReplacesOverwrite
<1>4. CASE StartNormal
  <2>1. ~c.there /\ Opened(c, c') /\ clock' = clock
    BY <1>1, <1>4 DEF StartNormal, RunInv
  <2>2. /\ c'.there /\ c.buffer = <<>> /\ c'.buffer = <<>>
        /\ \/ Kept(c', clock) = Kept(c, clock)
           \/ Replaces(c, c', clock) /\ Overwrites
    BY <1>1, <2>1, OpenedStep
  <2>3. CASE Kept(c', clock) = Kept(c, clock)
    BY <2>1, <2>2, <2>3 DEF J!Next, J!Open
  <2> QED BY <2>1, <2>2, <2>3, ReplacesOverwrite
<1>5. CASE StopNormal \/ Rerun
  <2>1. c' = Delete(c) /\ clock' = clock
    BY <1>5 DEF StopNormal, Rerun
  <2>2. ~c'.there /\ c'.buffer = <<>> /\ Kept(c', clock') = Kept(c, clock)
    BY <1>1, <2>1, DeleteStep
  <2>3. CASE c.there
    BY <2>2, <2>3 DEF J!Next, J!Close
  <2>4. CASE ~c.there
    <3>1. c.buffer = <<>> /\ c.there \in BOOLEAN /\ c'.there \in BOOLEAN
      BY <1>1, <2>1, <2>4, DeleteStep DEF Sound, Whole, Counted, Shape
    <3>2. c'.there = c.there
      BY <2>2, <2>4, <3>1
    <3> QED BY <2>2, <3>1, <3>2
  <2> QED BY <2>3, <2>4
<1>6. CASE LogSetFlushBuffer
  <2>1. PICK iLen \in MemSizes : c' = SetFlushBuffer(c, iLen)
    BY <1>6 DEF LogSetFlushBuffer
  <2>2. c.there /\ clock' = clock
    BY <1>1, <1>6 DEF LogSetFlushBuffer, RunInv
  <2>3. c'.there = c.there /\ Writes(c, c', clock)
    BY <1>1, <2>1, ResizeStep
  <2> QED BY <2>2, <2>3, WritesPersist
<1>7. CASE ThreadNormal
  <2>1. c.there /\ clock' = clock /\ c' = FlushMem2File(c)
    BY <1>1, <1>7 DEF ThreadNormal, RunInv
  <2>2. c'.there = c.there /\ Writes(c, c', clock)
    BY <1>1, <2>1, FlushStep
  <2> QED BY <2>1, <2>2, WritesPersist
<1>8. CASE Tick
  <2>1. c' = c /\ clock' = clock + 1
    BY <1>8 DEF Tick
  <2>2. Kept(c, clock + 1) = Kept(c, clock)
    BY <1>1, TickStep
  <2> QED BY <2>1, <2>2
<1>9. CASE \/ \E t \in Loggers : Enter(t) \/ Lock(t) \/ LogDebug(t) \/ Unlock(t)
           \/ StartDebug \/ StartThread \/ StopFlag \/ StopJoin \/ StopDebug
           \/ SetLogLevel \/ SetDebugMode \/ ThreadTurn \/ ThreadFlush \/ ThreadDebug
           \/ UNCHANGED vars
  BY <1>2, <1>9 DEF Enter, Lock, LogDebug, Unlock, StartDebug, StartThread, StopFlag,
       StopJoin, StopDebug, SetLogLevel, SetDebugMode, ThreadTurn, ThreadFlush,
       ThreadDebug, vars
<1> QED BY <1>3, <1>4, <1>5, <1>6, <1>7, <1>8, <1>9 DEF Next

(* The normal directory implements Journal, whatever the log threads and   *)
(* the main thread do: no record is repeated or out of place, and none is  *)
(* lost but those in the memory block when the log is stopped or its       *)
(* process dies.                                                           *)
THEOREM JournalImplemented == Spec => ImplementsJournal
BY JournalInit, JournalNext, BaseAlways, PTL DEF Spec, ImplementsJournal, J!Spec
=============================================================================
