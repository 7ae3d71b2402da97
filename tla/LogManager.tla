------------------------------ MODULE LogManager ------------------------------
(***************************************************************************)
(* LogManager and its KThread: threads that call Log, the application's    *)
(* main thread that starts and stops the log and changes its settings, and *)
(* the log thread that flushes the memory blocks, over two directories,    *)
(* the normal one and the debug one.                                       *)
(*                                                                         *)
(* A step is what runs between two points at which another thread can see  *)
(* or change something: a read of an unguarded flag, a call on one of the  *)
(* two controllers (each under the controller's m_hMutex), mMutex.         *)
(* The process may die at any point; then it is run again.                 *)
(*                                                                         *)
(* Stop waits for no thread that is inside Log, and takes no mMutex: what  *)
(* it deletes may be in use.  A controller is there from the end of its    *)
(* OpenLogFile to the beginning of its delete, and a call that the delete  *)
(* cuts short counts as one made behind it.  Of a call on a controller     *)
(* that is not there, which has no defined outcome, the thread goes on     *)
(* with its record lost, or the process dies; `fault` names the thread.    *)
(***************************************************************************)
EXTENDS FileCtrl

CONSTANTS
  Loggers,      (* the threads that call Log                                *)
  Levels,       (* log levels                                               *)
  MemSizes,     (* what LogSetFlushBuffer is called with                    *)
  FlushEvery,   (* the log thread's turns between two flushes: 5            *)
  MaxRecords,   (* bounds the calls of Log                                  *)
  MaxClock,     (* bounds the time                                          *)
  Overwrites    (* may two files be created in one second?                  *)

ASSUME ManagerAssumption ==
  /\ {"free", "thread"} \cap Loggers = {}
  /\ Levels \subseteq Nat /\ FlushEvery \in Nat
  /\ MemSizes \subseteq Nat /\ \A n \in MemSizes : n = 0 \/ n > RecordLen
  /\ MaxRecords \in Nat /\ MaxClock \in Nat
  /\ Overwrites \in BOOLEAN

VARIABLES
  mIsRunning, mLogLevel, mDebugMode,
  mpFileCtrl, mpFileCtrlDebug,
  mMutex,      (* the logger that holds it, or "free"                       *)
  at,          (* where each logger is in Log                               *)
  record,      (* what each logger is logging                               *)
  app,         (* where the main thread is in Start or Stop                 *)
  thread,      (* where the log thread is; "none" before and after          *)
  iCount,      (* its turns since the last flush                            *)
  clock, next,
  overtaken,   (* the loggers that were inside Log when Stop began          *)
  fault        (* who has used a controller that was not there: loggers in  *)
               (* the call they are in, or "thread"                         *)

settings == <<mIsRunning, mLogLevel, mDebugMode>>
ctrls    == <<mpFileCtrl, mpFileCtrlDebug>>
loggers  == <<mMutex, at, record, next, overtaken>>
logThread == <<thread, iCount>>
vars == <<settings, ctrls, loggers, app, logThread, clock, fault>>

Records == [id : 1..MaxRecords, len : {RecordLen}, level : Levels]
Nothing == [id |-> 0]

MayCreate(c) == Overwrites \/ clock \notin DOMAIN c.files

Init ==
  /\ mIsRunning = FALSE /\ mDebugMode = FALSE /\ mLogLevel \in Levels
  /\ mpFileCtrl = Absent(<<>>) /\ mpFileCtrlDebug = Absent(<<>>)
  /\ mMutex = "free" /\ next = 1
  /\ at = [t \in Loggers |-> "out"]
  /\ record = [t \in Loggers |-> Nothing]
  /\ app = "idle"
  /\ thread = "none" /\ iCount = 0
  /\ clock = 0 /\ overtaken = {} /\ fault = {}

-----------------------------------------------------------------------------
(* Log.  The flag is read before mMutex is taken.                          *)
Enter(t) ==
  /\ at[t] = "out" /\ mIsRunning
  /\ next <= MaxRecords
  /\ \E level \in Levels :
       record' = [record EXCEPT ![t] =
                    [id |-> next, len |-> RecordLen, level |-> level]]
  /\ at' = [at EXCEPT ![t] = "lock"]
  /\ next' = next + 1
  /\ UNCHANGED <<settings, ctrls, mMutex, overtaken, app, logThread, clock, fault>>

Wanted(t) == mLogLevel >= record[t].level

(* Mutant: mMutex is not taken.                                            *)
LockNot(t) ==
  /\ at[t] = "lock"
  /\ at' = [at EXCEPT ![t] =
              IF mDebugMode \/ Wanted(t) THEN "normal" ELSE "unlock"]
  /\ UNCHANGED <<settings, ctrls, mMutex, record, next, overtaken, app,
                 logThread, clock, fault>>

Lock(t) ==
  /\ at[t] = "lock" /\ mMutex = "free"
  /\ mMutex' = t
  /\ at' = [at EXCEPT ![t] =
              IF mDebugMode \/ Wanted(t) THEN "normal" ELSE "unlock"]
  /\ UNCHANGED <<settings, ctrls, record, next, overtaken, app, logThread, clock,
                 fault>>

(* What LogMsg makes of a controller, or of one that is not there.         *)
Logs(t, c, new) ==
  IF c.there
    THEN /\ \E opens \in BOOLEAN : new = LogMsg(c, record[t], clock, opens)
         /\ Rotates(c, record[t]) => MayCreate(c)
         /\ UNCHANGED fault
    ELSE new = c /\ fault' = fault \cup {t}

(* The level and the mode are read again.                                  *)
LogNormal(t) ==
  /\ at[t] = "normal"
  /\ IF Wanted(t) THEN Logs(t, mpFileCtrl, mpFileCtrl')
                  ELSE UNCHANGED <<mpFileCtrl, fault>>
  /\ at' = [at EXCEPT ![t] = "debug"]
  /\ UNCHANGED <<settings, mpFileCtrlDebug, mMutex, record, next, overtaken, app,
                 logThread, clock>>

LogDebug(t) ==
  /\ at[t] = "debug"
  /\ IF mDebugMode THEN Logs(t, mpFileCtrlDebug, mpFileCtrlDebug')
                   ELSE UNCHANGED <<mpFileCtrlDebug, fault>>
  /\ at' = [at EXCEPT ![t] = "unlock"]
  /\ UNCHANGED <<settings, mpFileCtrl, mMutex, record, next, overtaken, app,
                 logThread, clock>>

Unlock(t) ==
  /\ at[t] = "unlock"
  /\ mMutex' = "free"
  /\ at' = [at EXCEPT ![t] = "out"]
  /\ record' = [record EXCEPT ![t] = Nothing]
  /\ overtaken' = overtaken \ {t} /\ fault' = fault \ {t}
  /\ UNCHANGED <<settings, ctrls, next, app, logThread, clock>>

-----------------------------------------------------------------------------
(* Start, by the main thread.                                              *)
Opened(c, new) ==
  /\ MayCreate(c)
  /\ \E opens \in BOOLEAN : new = CreateLog(Initialize(c, 0), clock, opens)

(* Mutant: the log runs before its controllers are there.                  *)
StartNormalRunning ==
  /\ app = "idle" /\ ~mIsRunning
  /\ mIsRunning' = TRUE /\ mLogLevel' \in Levels
  /\ Opened(mpFileCtrl, mpFileCtrl')
  /\ app' = "startDebug"
  /\ UNCHANGED <<mDebugMode, mpFileCtrlDebug, loggers, logThread, clock, fault>>

StartNormal ==
  /\ app = "idle" /\ ~mIsRunning
  /\ mLogLevel' \in Levels
  /\ Opened(mpFileCtrl, mpFileCtrl')
  /\ app' = "startDebug"
  /\ UNCHANGED <<mIsRunning, mDebugMode, mpFileCtrlDebug, loggers, logThread,
                 clock, fault>>

StartDebug ==
  /\ app = "startDebug"
  /\ Opened(mpFileCtrlDebug, mpFileCtrlDebug')
  /\ app' = "startThread"
  /\ mIsRunning' = TRUE
  /\ UNCHANGED <<mLogLevel, mDebugMode, mpFileCtrl, loggers, logThread,
                 clock, fault>>

(* KThread::Start: nobody looks whether there is a thread afterwards.      *)
StartThread ==
  /\ app = "startThread"
  /\ thread = "none" /\ thread' \in {"top", "none"}
  /\ iCount' = 0
  /\ app' = "idle"
  /\ UNCHANGED <<settings, ctrls, loggers, clock, fault>>

(* Stop: the flag, the log thread's end, the controllers.  It overtakes    *)
(* the threads that have read the flag and are still inside Log.           *)
StopFlag ==
  /\ app = "idle" /\ mIsRunning
  /\ mIsRunning' = FALSE
  /\ overtaken' = {t \in Loggers : at[t] # "out"}
  /\ app' = "join"
  /\ UNCHANGED <<mLogLevel, mDebugMode, ctrls, mMutex, at, record, next, logThread,
                 clock, fault>>

(* Mutant: the log thread is not waited for.                               *)
StopJoinNot ==
  /\ app = "join"
  /\ app' = "deleteNormal"
  /\ UNCHANGED <<settings, ctrls, loggers, logThread, clock, fault>>

(* KThread::Stop.                                                          *)
StopJoin ==
  /\ app = "join"
  /\ thread \in {"none", "done"} /\ thread' = "none"
  /\ app' = "deleteNormal"
  /\ UNCHANGED <<settings, ctrls, loggers, iCount, clock, fault>>

StopNormal ==
  /\ app = "deleteNormal"
  /\ mpFileCtrl' = Delete(mpFileCtrl)
  /\ app' = "deleteDebug"
  /\ UNCHANGED <<settings, mpFileCtrlDebug, loggers, logThread, clock, fault>>

StopDebug ==
  /\ app = "deleteDebug"
  /\ mpFileCtrlDebug' = Delete(mpFileCtrlDebug)
  /\ app' = "idle"
  /\ UNCHANGED <<settings, mpFileCtrl, loggers, logThread, clock, fault>>

(* The settings, changed while threads are logging; no lock is taken.      *)
SetLogLevel ==
  /\ app = "idle"
  /\ mLogLevel' \in Levels
  /\ UNCHANGED <<mIsRunning, mDebugMode, ctrls, loggers, app, logThread, clock,
                 fault>>

SetDebugMode ==
  /\ app = "idle"
  /\ mDebugMode' \in BOOLEAN
  /\ UNCHANGED <<mIsRunning, mLogLevel, ctrls, loggers, app, logThread, clock,
                 fault>>

(* The two blocks are changed one after the other; the main thread is the  *)
(* only one to stop the log, so nothing it reads can change in between.    *)
LogSetFlushBuffer ==
  /\ app = "idle" /\ mIsRunning
  /\ \E iLen \in MemSizes :
       /\ mpFileCtrl' = SetFlushBuffer(mpFileCtrl, iLen)
       /\ mpFileCtrlDebug' = IF mDebugMode
                               THEN SetFlushBuffer(mpFileCtrlDebug, iLen)
                               ELSE mpFileCtrlDebug
  /\ UNCHANGED <<settings, loggers, app, logThread, clock, fault>>

-----------------------------------------------------------------------------
(* The log thread (LogRunnable::onRun), a turn a second.                   *)
(* Mutants: one turn too many, the flag is not looked at.                  *)
ThreadTurnOneMore ==
  /\ thread = "top"
  /\ IF ~mIsRunning THEN thread' = "done" /\ UNCHANGED iCount
     ELSE IF iCount <= FlushEvery THEN iCount' = iCount + 1 /\ UNCHANGED thread
     ELSE iCount' = 0 /\ thread' = "flush"
  /\ UNCHANGED <<settings, ctrls, loggers, app, clock, fault>>

ThreadTurnDeaf ==
  /\ thread = "top"
  /\ IF iCount < FlushEvery THEN iCount' = iCount + 1 /\ UNCHANGED thread
                            ELSE iCount' = 0 /\ thread' = "flush"
  /\ UNCHANGED <<settings, ctrls, loggers, app, clock, fault>>

ThreadTurn ==
  /\ thread = "top"
  /\ IF ~mIsRunning THEN thread' = "done" /\ UNCHANGED iCount
     ELSE IF iCount < FlushEvery THEN iCount' = iCount + 1 /\ UNCHANGED thread
     ELSE iCount' = 0 /\ thread' = "flush"
  /\ UNCHANGED <<settings, ctrls, loggers, app, clock, fault>>

(* Mutant: the normal block is flushed in debug mode only, as the other is.*)
ThreadFlushDebug ==
  /\ thread = "flush"
  /\ thread' = IF mIsRunning /\ mDebugMode THEN "flushNormal" ELSE "top"
  /\ UNCHANGED <<settings, ctrls, loggers, app, iCount, clock, fault>>

(* LogFlushMem2File, which looks at the flag once more.                    *)
ThreadFlush ==
  /\ thread = "flush"
  /\ thread' = IF mIsRunning THEN "flushNormal" ELSE "top"
  /\ UNCHANGED <<settings, ctrls, loggers, app, iCount, clock, fault>>

ThreadNormal ==
  /\ thread = "flushNormal"
  /\ mpFileCtrl' = FlushMem2File(mpFileCtrl)
  /\ fault' = IF mpFileCtrl.there THEN fault ELSE fault \cup {"thread"}
  /\ thread' = "flushDebug"
  /\ UNCHANGED <<settings, mpFileCtrlDebug, loggers, app, iCount, clock>>

ThreadDebug ==
  /\ thread = "flushDebug"
  /\ mpFileCtrlDebug' = IF mDebugMode THEN FlushMem2File(mpFileCtrlDebug)
                                      ELSE mpFileCtrlDebug
  /\ fault' = IF mDebugMode => mpFileCtrlDebug.there THEN fault
               ELSE fault \cup {"thread"}
  /\ thread' = "top"
  /\ UNCHANGED <<settings, mpFileCtrl, loggers, app, iCount, clock>>

-----------------------------------------------------------------------------
(* The process dies, and is run again: what is in memory is gone.          *)
Rerun ==
  /\ mIsRunning' = FALSE /\ mDebugMode' = FALSE /\ UNCHANGED mLogLevel
  /\ mpFileCtrl' = Delete(mpFileCtrl)
  /\ mpFileCtrlDebug' = Delete(mpFileCtrlDebug)
  /\ mMutex' = "free" /\ UNCHANGED next
  /\ at' = [t \in Loggers |-> "out"]
  /\ record' = [t \in Loggers |-> Nothing]
  /\ app' = "idle"
  /\ thread' = "none" /\ iCount' = 0
  /\ overtaken' = {} /\ fault' = {} /\ UNCHANGED clock

Tick ==
  /\ clock < MaxClock
  /\ clock' = clock + 1
  /\ UNCHANGED <<settings, ctrls, loggers, app, logThread, fault>>

Next ==
  \/ \E t \in Loggers : Enter(t)
  \/ \E t \in Loggers : Lock(t)
  \/ \E t \in Loggers : LogNormal(t)
  \/ \E t \in Loggers : LogDebug(t)
  \/ \E t \in Loggers : Unlock(t)
  \/ StartNormal \/ StartDebug \/ StartThread
  \/ StopFlag \/ StopJoin \/ StopNormal \/ StopDebug
  \/ SetLogLevel \/ SetDebugMode \/ LogSetFlushBuffer
  \/ ThreadTurn \/ ThreadFlush \/ ThreadNormal \/ ThreadDebug
  \/ Tick \/ Rerun

Spec == Init /\ [][Next]_vars

(* The log thread and the main thread inside Start and Stop go on when     *)
(* they can; nobody has to log, to stop, or to die.                        *)
Thread  == ThreadTurn \/ ThreadFlush \/ ThreadNormal \/ ThreadDebug
Stopping == StopJoin \/ StopNormal \/ StopDebug

FairSpec == Spec /\ WF_vars(Thread) /\ WF_vars(Stopping)

-----------------------------------------------------------------------------
(* Properties.                                                             *)

(* The shape of the variables (LogManager.h:56-68).                        *)
TypeOK ==
  /\ mIsRunning \in BOOLEAN /\ mDebugMode \in BOOLEAN /\ mLogLevel \in Levels
  /\ mMutex \in Loggers \cup {"free"} /\ next \in 1..(MaxRecords + 1)
  /\ at \in [Loggers -> {"out", "lock", "normal", "debug", "unlock"}]
  /\ record \in [Loggers -> Records \cup {Nothing}]
  /\ app \in {"idle", "startDebug", "startThread", "join", "deleteNormal",
              "deleteDebug"}
  /\ thread \in {"none", "top", "flush", "flushNormal", "flushDebug", "done"}
  /\ iCount \in 0..FlushEvery /\ clock \in 0..MaxClock
  /\ overtaken \subseteq Loggers /\ fault \subseteq Loggers \cup {"thread"}
  /\ \A c \in {mpFileCtrl, mpFileCtrlDebug} :
       c.there \in BOOLEAN /\ c.use \in Nat /\ c.buffer \in Seq(Records)

(* A controller that has not been created yet or has been deleted is used  *)
(* by no thread but those that Stop has overtaken inside Log: neither by   *)
(* the log thread nor by a change of a setting, nor by a logger that has   *)
(* read the flag of a log not stopped since (LogManager.cpp:91, 132-138,   *)
(* 225-241, 252-272, 325-341).                                             *)
ControllersThere ==
  /\ fault \subseteq overtaken
  /\ \/ mIsRunning
     \/ thread \in {"flushNormal", "flushDebug"}
     \/ \E t \in Loggers \ overtaken : at[t] # "out"
     => mpFileCtrl.there /\ mpFileCtrlDebug.there

(* At most one log thread, and none once the controllers are being deleted *)
(* (LogManager.cpp:262-272, KThread.cpp:40-74).                            *)
ThreadBesideRun ==
  /\ thread # "none" => mIsRunning \/ app = "join"
  /\ app \in {"deleteNormal", "deleteDebug"} => thread = "none"

(* Two records that are in both directories are there in the same order,   *)
(* whatever the threads that log them and the flushes between              *)
(* (LogManager.cpp:95, 132-148).                                           *)
Logged(c) == Kept(c, clock) \o c.buffer

Before(a, b, records) ==
  \E i, j \in 1..Len(records) : i < j /\ records[i] = a /\ records[j] = b

SameOrder ==
  \A i, j \in 1..Len(Logged(mpFileCtrl)) :
    i < j => ~Before(Logged(mpFileCtrl)[j], Logged(mpFileCtrl)[i],
                     Logged(mpFileCtrlDebug))

(* The normal directory keeps what Log was given while the log runs, and   *)
(* loses at most what was in the memory block when it is stopped or the    *)
(* process dies: it implements Journal.                                    *)
J == INSTANCE Journal WITH kept <- Kept(mpFileCtrl, clock),
                           pending <- mpFileCtrl.buffer,
                           open <- mpFileCtrl.there, overwrites <- Overwrites

ImplementsJournal == J!Spec

(* Stop comes to its end: the log thread sees the flag, wherever it is     *)
(* (LogManager.cpp:44-52, 252-262).                                        *)
StopReturns == app = "join" ~> app = "idle"

(* No record stays in the memory block for ever while there is a log       *)
(* thread, also when nothing more is logged (LogManager.cpp:42-53).        *)
InBlock(id) ==
  \E i \in 1..Len(mpFileCtrl.buffer) : mpFileCtrl.buffer[i].id = id

BlockIsFlushed ==
  \A id \in 1..MaxRecords : InBlock(id) ~> (~InBlock(id) \/ thread = "none")
=============================================================================
