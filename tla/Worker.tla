--------------------------------- MODULE Worker --------------------------------
(***************************************************************************)
(* The parts of the library for a program with a working thread: a KThread *)
(* started and stopped by several owners under an IAutoLock, a KSafeList   *)
(* of values for it, and an Event it waits on when there are none.         *)
(*                                                                         *)
(* The owners and the runnable are the program's.  The runnable takes one  *)
(* value after the other, and waits when there is none, until it is told   *)
(* to stop.  An owner pushes and signals, takes back a value, and starts,  *)
(* stops or restarts the thread.  What an owner still has to do is a       *)
(* sequence of steps; between two of them the others go on.                *)
(***************************************************************************)
EXTENDS Integers, Sequences, FiniteSets, SequencesExt

CONSTANTS
  Owners,
  None,         (* no owner                                                 *)
  MaxThreads,   (* bounds the threads created                               *)
  MaxValues     (* bounds the values                                        *)

ASSUME WorkerAssumption ==
  /\ None \notin Owners
  /\ MaxThreads \in Nat /\ MaxValues \in Nat

VARIABLES
  todo,         (* the steps each owner still has to do                     *)
  m_bInit,      (* has the IAutoLock been initialised?                      *)
  m_lock,       (* who holds it, how often                                  *)
  m_pthread_t,  (* the thread KThread knows, 0 is none                      *)
  m_pKRunnable, (* does KThread have its runnable?                          *)
  threads,      (* where each thread is that was created                    *)
  running,      (* the runnable's flag                                      *)
  mList, mSize,
  mLock,        (* who holds the list's lock over several calls             *)
  itr,          (* the value each owner's iterator is at, 0 is End          *)
  pushed, handled, cancelled    (* the values: how many, in order, which    *)

lock == <<m_bInit, m_lock>>
kthread == <<m_pthread_t, m_pKRunnable, threads>>
list == <<mList, mSize, mLock, itr>>
values == <<pushed, handled, cancelled>>
vars == <<todo, lock, kthread, running, list, values>>

Init ==
  /\ todo = [o \in Owners |-> <<>>]
  /\ m_bInit \in BOOLEAN /\ m_lock = [owner |-> None, count |-> 0]
  /\ m_pthread_t = 0 /\ m_pKRunnable \in BOOLEAN
  /\ threads = <<>>
  /\ running = FALSE
  /\ mList = <<>> /\ mSize = 0 /\ mLock = None
  /\ itr = [o \in Owners |-> 0]
  /\ pushed = 0 /\ handled = <<>> /\ cancelled = {}

-----------------------------------------------------------------------------
(* What an owner may do, and with what steps.                              *)
StartSteps == <<"lock", "start", "create", "unlock">>
StopSteps == <<"lock", "flag", "signal", "join", "forget", "unlock">>
RestartSteps ==
  <<"lock", "lock", "flag", "signal", "join", "forget", "unlock",
    "lock", "start", "create", "unlock", "unlock">>

Works ==
  {<<"push", "signal">>, <<"hold", "find", "erase", "release">>,
   StartSteps, StopSteps, RestartSteps}

Choose(o) ==
  /\ todo[o] = <<>>
  /\ \E work \in Works :
       /\ Head(work) = "push" => pushed < MaxValues
       /\ todo' = [todo EXCEPT ![o] = work]
  /\ UNCHANGED <<lock, kthread, running, list, values>>

Does(o, step) == todo[o] # <<>> /\ Head(todo[o]) = step
Done(o) == todo' = [todo EXCEPT ![o] = Tail(@)]

(* LinuxAutoLock, a recursive mutex.  One that is not initialised is not   *)
(* locked; the owner sees that and gives up.                               *)
Lock(o) ==
  /\ Does(o, "lock")
  /\ \/ /\ m_bInit /\ m_lock.owner \in {None, o}
        /\ m_lock' = [owner |-> o, count |-> m_lock.count + 1]
        /\ Done(o)
     \/ /\ ~m_bInit
        /\ todo' = [todo EXCEPT ![o] = <<>>]
        /\ UNCHANGED m_lock
  /\ UNCHANGED <<m_bInit, kthread, running, list, values>>

(* Mutant: the first unlock of a restart gives the lock away.              *)
UnlockAll(o) ==
  /\ Does(o, "unlock")
  /\ m_lock' = [owner |-> None, count |-> 0]
  /\ Done(o)
  /\ UNCHANGED <<m_bInit, kthread, running, list, values>>

Unlock(o) ==
  /\ Does(o, "unlock")
  /\ m_lock' = [owner |-> IF m_lock.count = 1 THEN None ELSE o, count |-> m_lock.count - 1]
  /\ Done(o)
  /\ UNCHANGED <<m_bInit, kthread, running, list, values>>

-----------------------------------------------------------------------------
(* KThread::Start finds a thread, or takes the runnable if it is given one *)
(* (raising the flag first is the owner's part).                           *)
Start(o) ==
  /\ Does(o, "start")
  /\ \/ /\ m_pthread_t # 0
        /\ todo' = [todo EXCEPT ![o] = Tail(Tail(@))]
        /\ UNCHANGED <<m_pKRunnable, running>>
     \/ /\ m_pthread_t = 0
        /\ \E given \in BOOLEAN : m_pKRunnable' = (given \/ m_pKRunnable)
        /\ running' = TRUE
        /\ Done(o)
  /\ UNCHANGED <<lock, m_pthread_t, threads, list, values>>

(* Mutant: the thread id is not reset when pthread_create has failed.      *)
CreateUnreset(o) ==
  /\ Does(o, "create")
  /\ \/ Len(threads) < MaxThreads /\ threads' = Append(threads, "begun")
     \/ UNCHANGED threads
  /\ m_pthread_t' = Len(threads) + 1
  /\ Done(o)
  /\ UNCHANGED <<lock, m_pKRunnable, running, list, values>>

(* pthread_create, which may fail, and does when there are too many.       *)
Create(o) ==
  /\ Does(o, "create")
  /\ \/ /\ Len(threads) < MaxThreads
        /\ threads' = Append(threads, "begun")
        /\ m_pthread_t' = Len(threads')
     \/ UNCHANGED threads /\ m_pthread_t' = 0
  /\ Done(o)
  /\ UNCHANGED <<lock, m_pKRunnable, running, list, values>>

LowerFlag(o) ==
  /\ Does(o, "flag")
  /\ running' = FALSE
  /\ Done(o)
  /\ UNCHANGED <<lock, kthread, list, values>>

(* KThread::Stop waits for the thread to end, and then forgets it and the  *)
(* runnable.                                                               *)
Join(o) ==
  /\ Does(o, "join")
  /\ m_pthread_t # 0 => threads[m_pthread_t] = "ended"
  /\ Done(o)
  /\ UNCHANGED <<lock, kthread, running, list, values>>

Forget(o) ==
  /\ Does(o, "forget")
  /\ m_pthread_t' = 0 /\ m_pKRunnable' = FALSE
  /\ Done(o)
  /\ UNCHANGED <<lock, threads, running, list, values>>

-----------------------------------------------------------------------------
(* Event: whoever waits is woken; nothing is left for one that does not.   *)
Signal(o) ==
  /\ Does(o, "signal")
  /\ threads' = [w \in DOMAIN threads |->
                   IF threads[w] = "asleep" THEN "loop" ELSE threads[w]]
  /\ Done(o)
  /\ UNCHANGED <<lock, m_pthread_t, m_pKRunnable, running, list, values>>

PushBack(o) ==
  /\ Does(o, "push")
  /\ mLock = None /\ pushed < MaxValues
  /\ mList' = Append(mList, pushed + 1)
  /\ mSize' = mSize + 1
  /\ pushed' = pushed + 1
  /\ Done(o)
  /\ UNCHANGED <<lock, kthread, running, mLock, itr, handled, cancelled>>

(* Mutant: the owner goes through the list without its lock.               *)
LockListNot(o) ==
  /\ Does(o, "hold")
  /\ Done(o)
  /\ UNCHANGED <<lock, kthread, running, list, values>>

LockList(o) ==
  /\ Does(o, "hold")
  /\ mLock = None
  /\ mLock' = o
  /\ Done(o)
  /\ UNCHANGED <<lock, kthread, running, mList, mSize, itr, values>>

(* From Begin to the value it looks for, or to End.                        *)
FindValue(o) ==
  /\ Does(o, "find")
  /\ \E v \in ToSet(mList) \cup {0} : itr' = [itr EXCEPT ![o] = v]
  /\ Done(o)
  /\ UNCHANGED <<lock, kthread, running, mList, mSize, mLock, values>>

(* Nothing at End.  A value that is gone would be erased a second time.    *)
PopValueUnSafe(o) ==
  /\ Does(o, "erase")
  /\ \/ /\ itr[o] # 0
        /\ \/ \E i \in DOMAIN mList : mList[i] = itr[o] /\ mList' = RemoveAt(mList, i)
           \/ ~Contains(mList, itr[o]) /\ UNCHANGED mList
        /\ mSize' = mSize - 1
        /\ cancelled' = cancelled \cup {itr[o]}
     \/ itr[o] = 0 /\ UNCHANGED <<mList, mSize, cancelled>>
  /\ itr' = [itr EXCEPT ![o] = 0]
  /\ Done(o)
  /\ UNCHANGED <<lock, kthread, running, mLock, pushed, handled>>

UnlockList(o) ==
  /\ Does(o, "release")
  /\ mLock' = None
  /\ Done(o)
  /\ UNCHANGED <<lock, kthread, running, mList, mSize, itr, values>>

-----------------------------------------------------------------------------
(* The thread.                                                             *)
Goto(w, place) == threads' = [threads EXCEPT ![w] = place]
At(w, place) == w \in DOMAIN threads /\ threads[w] = place

(* KThread::onRun, with nothing to run if it has no runnable.              *)
Begin(w) ==
  /\ At(w, "begun")
  /\ Goto(w, IF m_pKRunnable THEN "loop" ELSE "ended")
  /\ UNCHANGED <<todo, lock, m_pthread_t, m_pKRunnable, running, list, values>>

Loop(w) ==
  /\ At(w, "loop")
  /\ Goto(w, IF running THEN "pop" ELSE "ended")
  /\ UNCHANGED <<todo, lock, m_pthread_t, m_pKRunnable, running, list, values>>

PopFront(w) ==
  /\ At(w, "pop")
  /\ mLock = None
  /\ \/ /\ mList # <<>>
        /\ handled' = Append(handled, Head(mList))
        /\ mList' = Tail(mList) /\ mSize' = mSize - 1
        /\ Goto(w, "loop")
     \/ /\ mList = <<>>
        /\ Goto(w, "wait")
        /\ UNCHANGED <<handled, mList, mSize>>
  /\ UNCHANGED <<todo, lock, m_pthread_t, m_pKRunnable, running, mLock, itr, pushed, cancelled>>

(* Event::wait                                                             *)
Wait(w) ==
  /\ At(w, "wait")
  /\ Goto(w, "asleep")
  /\ UNCHANGED <<todo, lock, m_pthread_t, m_pKRunnable, running, list, values>>

(* Mutant: pthread_cond_wait, as in the comment, waits for a signal only.  *)
WakeNever(w) == At(w, "asleep") /\ FALSE /\ UNCHANGED vars

(* The second is over.                                                     *)
Wake(w) ==
  /\ At(w, "asleep")
  /\ Goto(w, "loop")
  /\ UNCHANGED <<todo, lock, m_pthread_t, m_pKRunnable, running, list, values>>

OwnerStep(o) ==
  \/ Lock(o) \/ Unlock(o)
  \/ Start(o) \/ Create(o) \/ LowerFlag(o) \/ Join(o) \/ Forget(o)
  \/ Signal(o) \/ PushBack(o)
  \/ LockList(o) \/ FindValue(o) \/ PopValueUnSafe(o) \/ UnlockList(o)

ThreadStep(w) == Begin(w) \/ Loop(w) \/ PopFront(w) \/ Wait(w) \/ Wake(w)

Next ==
  \/ \E o \in Owners : Choose(o) \/ OwnerStep(o)
  \/ \E w \in 1..MaxThreads : ThreadStep(w)

(* Every thread is scheduled, and gets the list's lock when it is given up *)
(* again and again; nobody has to begin anything.                          *)
Spec ==
  /\ Init /\ [][Next]_vars
  /\ \A o \in Owners : WF_vars(OwnerStep(o))
  /\ \A w \in 1..MaxThreads : WF_vars(ThreadStep(w)) /\ SF_vars(PopFront(w))

-----------------------------------------------------------------------------
(* Properties.                                                             *)

(* Locks are held by owners, and threads are where they can be             *)
(* (KThread.h, KSafeList.h:91-94, IAutoLock.cpp:121-123).                  *)
TypeOK ==
  /\ todo \in [Owners -> UNION {Suffixes(work) : work \in Works}]
  /\ m_bInit \in BOOLEAN /\ m_lock \in [owner : Owners \cup {None}, count : 0..2]
  /\ m_pthread_t \in 0..Len(threads) /\ m_pKRunnable \in BOOLEAN
  /\ threads \in Seq({"begun", "loop", "pop", "wait", "asleep", "ended"})
  /\ running \in BOOLEAN
  /\ mList \in Seq(1..pushed) /\ mSize \in Nat /\ mLock \in Owners \cup {None}
  /\ itr \in [Owners -> 0..pushed]
  /\ pushed \in 0..MaxValues /\ handled \in Seq(1..pushed)
  /\ cancelled \subseteq 1..pushed

(* A thread that has not ended is the one KThread knows: there are never   *)
(* two, whoever starts, stops and restarts, and none is left behind by a   *)
(* Stop (KThread.cpp:40-74).                                               *)
OneThread == \A w \in DOMAIN threads : threads[w] # "ended" => w = m_pthread_t

(* No value is lost, handled twice, or handled before an earlier one,      *)
(* though owners take some out of the middle; the size is right; and an    *)
(* iterator stays good over the calls between Lock and Unlock              *)
(* (KSafeList.h:33-89).                                                    *)
Increasing(s) == \A i, j \in 1..Len(s) : i < j => s[i] < s[j]

ListInOrder ==
  /\ Increasing(handled \o mList)
  /\ \A v \in 1..pushed : Contains(handled \o mList, v) <=> v \notin cancelled
  /\ mSize = Len(mList)
  /\ \A o \in Owners : itr[o] # 0 => Contains(mList, itr[o])

Serves == running /\ \E w \in DOMAIN threads : threads[w] \notin {"begun", "ended"}

(* A value in the list of a working thread is handled or taken back, also  *)
(* when its signal came before the wait and was not remembered; and a Stop *)
(* returns (event.hpp:49-68, KThread.cpp:62-74).                           *)
Answered ==
  /\ \A v \in 1..MaxValues :
       (Serves /\ Contains(mList, v)) ~> (~Contains(mList, v) \/ ~running)
  /\ \A o \in Owners : Does(o, "join") ~> ~Does(o, "join")
=============================================================================
