----------------------------- MODULE WorkerProof ------------------------------
(***************************************************************************)
(* Proofs about Worker, for every number of owners, threads and values.    *)
(***************************************************************************)
EXTENDS Worker, SequenceTheorems, TLAPS

Steps == {"push", "signal", "hold", "find", "erase", "release",
          "lock", "start", "create", "flag", "join", "forget", "unlock"}

(* What an owner does, with how often it holds the lock before each step   *)
(* and behind the last.                                                    *)
Plans ==
  {[work |-> <<"push", "signal">>, level |-> <<0, 0, 0>>],
   [work |-> <<"hold", "find", "erase", "release">>,
    level |-> <<0, 0, 0, 0, 0>>],
   [work |-> StartSteps, level |-> <<0, 1, 1, 1, 0>>],
   [work |-> StopSteps, level |-> <<0, 1, 1, 1, 1, 1, 0>>],
   [work |-> RestartSteps, level |-> <<0, 1, 2, 2, 2, 2, 2, 1, 2, 2, 2, 1, 0>>]}

Rest(plan, l) == SubSeq(plan.work, l, Len(plan.work))
Level(o) == IF m_lock.owner = o THEN m_lock.count ELSE 0

(* The owner is before step l of its plan, and holds the lock as it says.  *)
On(o, plan, l) == todo[o] = Rest(plan, l) /\ Level(o) = plan.level[l]

LockInv ==
  /\ m_lock.owner = None <=> m_lock.count = 0
  /\ m_lock.count > 0 => m_bInit
  /\ \A o \in Owners : \E plan \in Plans : \E l \in 1..(Len(plan.work) + 1) : On(o, plan, l)

(* Between its look for a thread and the creation of one an owner is alone,*)
(* and between the join and the forgetting.                                *)
ThreadInv ==
  /\ OneThread
  /\ \A o \in Owners : Does(o, "create") => m_pthread_t = 0
  /\ \A o \in Owners :
       Does(o, "forget") /\ m_pthread_t # 0 => threads[m_pthread_t] = "ended"

(* Who goes through the list has its lock, and an iterator is only used    *)
(* by who has.                                                             *)
InList(o) == \E step \in {"find", "erase", "release"} : Does(o, step)

ListInv ==
  /\ ListInOrder
  /\ \A o \in Owners : InList(o) <=> mLock = o
  /\ \A o \in Owners : itr[o] # 0 => Does(o, "erase")

IInv == TypeOK /\ LockInv /\ ThreadInv /\ ListInv

-----------------------------------------------------------------------------
(* The plans.                                                              *)

LEMMA PlanWorks ==
  /\ \A plan \in Plans : plan.work \in Works /\ plan.work \in Seq(Steps) /\ plan.work # <<>>
  /\ \A work \in Works : \E plan \in Plans : plan.work = work
<1>1. ASSUME NEW plan \in Plans
      PROVE  plan.work \in Works /\ plan.work \in Seq(Steps) /\ plan.work # <<>>
  <2>1. /\ plan.work \in Works
        /\ \/ plan.work = <<"push", "signal">>
           \/ plan.work = <<"hold", "find", "erase", "release">>
           \/ plan.work = StartSteps \/ plan.work = StopSteps \/ plan.work = RestartSteps
    BY DEF Plans, Works
  <2>2. <<"push", "signal">> \in Seq(Steps) /\ <<"hold", "find", "erase", "release">> \in Seq(Steps)
    BY DEF Steps
  <2>3. StartSteps \in Seq(Steps) /\ StopSteps \in Seq(Steps)
    BY DEF Steps, StartSteps, StopSteps
  <2>4. RestartSteps \in Seq(Steps)
    BY DEF Steps, RestartSteps
  <2>5. /\ <<"push", "signal">> # <<>> /\ <<"hold", "find", "erase", "release">> # <<>>
        /\ StartSteps # <<>> /\ StopSteps # <<>> /\ RestartSteps # <<>>
    BY DEF StartSteps, StopSteps, RestartSteps
  <2> QED BY <2>1, <2>2, <2>3, <2>4, <2>5
<1>2. ASSUME NEW work \in Works PROVE \E plan \in Plans : plan.work = work
  BY DEF Plans, Works
<1> QED BY <1>1, <1>2

(* How often the lock is held changes with its own steps only, and it is   *)
(* held around those of the thread.                                        *)
Levels(work, level) ==
  /\ level[1] = 0 /\ level[Len(work) + 1] = 0
  /\ \A l \in 1..Len(work) :
       /\ level[l] \in 0..2 /\ level[l + 1] \in 0..2
       /\ work[l] = "lock" => level[l + 1] = level[l] + 1
       /\ work[l] = "unlock" => level[l] = level[l + 1] + 1
       /\ work[l] \notin {"lock", "unlock"} => level[l + 1] = level[l]
       /\ work[l] \in {"start", "create", "flag", "join", "forget"} => level[l] > 0

(* What comes before what.                                                 *)
Order(work) ==
  /\ work[1] \notin {"create", "forget", "find", "erase", "release"}
  /\ work[Len(work)] \notin {"start", "join", "hold", "find", "erase"}
  /\ \A l \in 1..Len(work) :
       l < Len(work) =>
         /\ work[l + 1] = "create" <=> work[l] = "start"
         /\ work[l + 1] = "forget" <=> work[l] = "join"
         /\ work[l + 1] = "find" <=> work[l] = "hold"
         /\ work[l + 1] = "erase" <=> work[l] = "find"
         /\ work[l + 1] = "release" <=> work[l] = "erase"

LEMMA PlanSteps ==
  ASSUME NEW plan \in Plans
  PROVE  Levels(plan.work, plan.level) /\ Order(plan.work)
<1>1. CASE plan = [work |-> <<"push", "signal">>, level |-> <<0, 0, 0>>]
  BY <1>1 DEF Levels, Order
<1>2. CASE plan = [work |-> <<"hold", "find", "erase", "release">>,
                   level |-> <<0, 0, 0, 0, 0>>]
  BY <1>2 DEF Levels, Order
<1>3. CASE plan = [work |-> StartSteps, level |-> <<0, 1, 1, 1, 0>>]
  BY <1>3 DEF Levels, Order, StartSteps
<1>4. CASE plan = [work |-> StopSteps, level |-> <<0, 1, 1, 1, 1, 1, 0>>]
  BY <1>4 DEF Levels, Order, StopSteps
<1>5. CASE plan = [work |-> RestartSteps,
                   level |-> <<0, 1, 2, 2, 2, 2, 2, 1, 2, 2, 2, 1, 0>>]
  BY <1>5 DEF Levels, Order, RestartSteps
<1> QED BY <1>1, <1>2, <1>3, <1>4, <1>5 DEF Plans

(* What is left of a plan, as a sequence.                                  *)
LEMMA RestOf ==
  ASSUME NEW plan \in Plans, NEW l \in 1..(Len(plan.work) + 1)
  PROVE  /\ Len(plan.work) \in Nat \ {0}
         /\ Rest(plan, l) \in Seq(Steps)
         /\ Rest(plan, l) \in UNION {Suffixes(work) : work \in Works}
         /\ l = Len(plan.work) + 1 => Rest(plan, l) = <<>>
         /\ l # Len(plan.work) + 1 => /\ l \in 1..Len(plan.work)
                                      /\ Rest(plan, l) # <<>>
                                      /\ Head(Rest(plan, l)) = plan.work[l]
                                      /\ Tail(Rest(plan, l)) = Rest(plan, l + 1)
         /\ l = 1 => Rest(plan, l) = plan.work
<1> DEFINE w == plan.work
<1>1. w \in Works /\ w \in Seq(Steps) /\ w # <<>>
  BY PlanWorks
<1>2. Len(w) \in Nat \ {0}
  BY <1>1, EmptySeq
<1>3. \A i \in l..Len(w) : w[i] \in Steps
  BY <1>1, <1>2, ElementOfSeq
<1>4. /\ Rest(plan, l) \in Seq(Steps)
      /\ Len(Rest(plan, l)) = IF l <= Len(w) THEN Len(w) - l + 1 ELSE 0
  BY <1>2, <1>3, SubSeqProperties DEF Rest
<1>5. CASE l = Len(w) + 1
  <2>1. Rest(plan, l) = <<>>
    BY <1>2, <1>5, SubSeqEmpty DEF Rest
  <2> QED BY <1>1, <1>2, <1>4, <1>5, <2>1 DEF Suffixes
<1>6. CASE l # Len(w) + 1
  <2>1. l \in 1..Len(w) /\ Len(w) \in l..Len(w)
    BY <1>2, <1>6
  <2>2. Rest(plan, l) # <<>>
    BY <1>2, <1>4, <2>1, EmptySeq
  <2>3. /\ Head(Rest(plan, l)) = w[l]
        /\ Tail(Rest(plan, l)) = Rest(plan, l + 1)
    BY <1>1, <2>1, HeadTailOfSubSeq DEF Rest
  <2>4. Rest(plan, l) \in Suffixes(w)
    BY <2>1 DEF Rest, Suffixes
  <2>5. l = 1 => Rest(plan, l) = w
    BY <1>1, SubSeqFull DEF Rest
  <2> QED BY <1>1, <1>2, <1>4, <1>6, <2>1, <2>2, <2>3, <2>4, <2>5
<1> QED BY <1>5, <1>6

LEMMA RestAt ==
  ASSUME NEW plan \in Plans
  PROVE  /\ Len(plan.work) \in Nat \ {0}
         /\ Rest(plan, Len(plan.work) + 1) = <<>>
         /\ \A k \in 1..Len(plan.work) : /\ Rest(plan, k) # <<>>
                                        /\ Head(Rest(plan, k)) = plan.work[k]
                                        /\ Tail(Rest(plan, k)) = Rest(plan, k + 1)
<1>1. Len(plan.work) \in Nat \ {0}
  BY PlanWorks, EmptySeq
<1>2. Rest(plan, Len(plan.work) + 1) = <<>>
  BY <1>1, RestOf
<1>3. ASSUME NEW k \in 1..Len(plan.work)
      PROVE  /\ Rest(plan, k) # <<>>
             /\ Head(Rest(plan, k)) = plan.work[k]
             /\ Tail(Rest(plan, k)) = Rest(plan, k + 1)
  BY <1>1, RestOf
<1> QED BY <1>1, <1>2, <1>3

-----------------------------------------------------------------------------
(* The lock.                                                               *)

Before(o, plan, l, step) ==
  l \in 1..Len(plan.work) /\ On(o, plan, l) /\ plan.work[l] = step

LEMMA AtStep ==
  ASSUME LockInv, NEW o \in Owners, NEW step, Does(o, step)
  PROVE  \E plan \in Plans, l \in Nat : Before(o, plan, l, step)
<1>1. PICK plan \in Plans, l \in Nat : l \in 1..(Len(plan.work) + 1) /\ On(o, plan, l)
  BY RestOf DEF LockInv
<1>2. todo[o] # <<>> /\ Head(todo[o]) = step
  BY DEF Does
<1>3. l \in 1..Len(plan.work) /\ plan.work[l] = step
  BY <1>1, <1>2, RestOf DEF On
<1> QED BY <1>1, <1>3 DEF Before

LEMMA GoesOn ==
  ASSUME TypeOK, NEW o \in Owners, NEW plan \in Plans, NEW l \in 1..Len(plan.work),
         todo[o] = Rest(plan, l), Done(o)
  PROVE  /\ l + 1 \in 1..(Len(plan.work) + 1)
         /\ todo'[o] = Rest(plan, l + 1)
         /\ \A q \in Owners \ {o} : todo'[q] = todo[q]
<1>1. todo' = [todo EXCEPT ![o] = Tail(todo[o])] /\ DOMAIN todo = Owners
  BY DEF TypeOK, Done
<1>2. Len(plan.work) \in Nat /\ l \in 1..(Len(plan.work) + 1) /\ l # Len(plan.work) + 1
  BY RestOf
<1> QED BY <1>1, <1>2, RestOf

(* The steps other than those of the lock.                                 *)
LEMMA LockKept ==
  ASSUME TypeOK, LockInv, NEW o \in Owners, NEW step, Does(o, step), Done(o),
         step \notin {"lock", "unlock"}, UNCHANGED lock
  PROVE  LockInv'
<1>1. PICK plan \in Plans, l \in Nat : Before(o, plan, l, step)
  BY AtStep
<1>2. /\ l + 1 \in 1..(Len(plan.work) + 1) /\ todo'[o] = Rest(plan, l + 1)
      /\ \A q \in Owners \ {o} : todo'[q] = todo[q]
  BY <1>1, GoesOn DEF Before, On
<1>3. \A q \in Owners : Level(q)' = Level(q)
  BY DEF lock, Level
<1>4. plan.level[l + 1] = plan.level[l]
  BY <1>1, PlanSteps DEF Before, Levels
<1>5. On(o, plan, l + 1)'
  BY <1>1, <1>2, <1>3, <1>4 DEF Before, On
<1>6. \A q \in Owners \ {o} : \A p, k : On(q, p, k) => On(q, p, k)'
  BY <1>2, <1>3 DEF On
<1> QED BY <1>2, <1>5, <1>6 DEF LockInv, lock

LEMMA LockInvStep ==
  ASSUME TypeOK, LockInv, ThreadInv, [Next]_vars
  PROVE  LockInv'
<1>1. ASSUME NEW o \in Owners, Choose(o) PROVE LockInv'
  <2>1. PICK plan \in Plans : todo' = [todo EXCEPT ![o] = plan.work]
    BY <1>1, PlanWorks DEF Choose
  <2>2. PICK p \in Plans, k \in Nat : k \in 1..(Len(p.work) + 1) /\ On(o, p, k)
    BY DEF LockInv
  <2>3. Level(o) = 0
    BY <1>1, <2>2, RestOf, PlanSteps DEF Before, Choose, On, Levels
  <2>4. \A q \in Owners : Level(q)' = Level(q)
    BY <1>1 DEF Choose, lock, Level
  <2>5. 1 \in 1..(Len(plan.work) + 1) /\ Rest(plan, 1) = plan.work
    BY RestOf
  <2>6. On(o, plan, 1)'
    BY <2>1, <2>3, <2>4, <2>5, PlanSteps DEF Before, On, TypeOK, Levels
  <2>7. \A q \in Owners \ {o} : \A r, l : On(q, r, l) => On(q, r, l)'
    BY <2>1, <2>4 DEF On, TypeOK
  <2> QED BY <1>1, <2>5, <2>6, <2>7 DEF LockInv, Choose, lock
<1>2. ASSUME NEW o \in Owners, Lock(o) PROVE LockInv'
  <2>1. PICK plan \in Plans, l \in Nat : Before(o, plan, l, "lock")
    BY <1>2, AtStep DEF Lock
  <2>2. m_lock.count \in Nat /\ m_lock.owner \in Owners \cup {None}
    BY DEF TypeOK
  <2>3. CASE /\ m_bInit /\ m_lock.owner \in {None, o}
             /\ m_lock' = [owner |-> o, count |-> m_lock.count + 1]
             /\ Done(o)
    <3>1. /\ l + 1 \in 1..(Len(plan.work) + 1) /\ todo'[o] = Rest(plan, l + 1)
          /\ \A q \in Owners \ {o} : todo'[q] = todo[q]
      BY <2>1, <2>3, GoesOn DEF Before, On
    <3>2. Level(o) = m_lock.count
      BY <2>3 DEF Level, LockInv
    <3>3. Level(o)' = Level(o) + 1
      BY <2>3, <3>2 DEF Level
    <3>4. \A q \in Owners \ {o} : Level(q) = 0 /\ Level(q)' = 0
      BY <2>3, WorkerAssumption DEF Level
    <3>5. On(o, plan, l + 1)'
      BY <2>1, <3>1, <3>3, PlanSteps DEF Before, On, Levels
    <3>6. \A q \in Owners \ {o} : \A p, k : On(q, p, k) => On(q, p, k)'
      BY <3>1, <3>4 DEF On
    <3>7. m_lock'.owner # None /\ m_lock'.count > 0 /\ m_bInit'
      BY <1>2, <2>2, <2>3, WorkerAssumption DEF Lock
    <3> QED BY <3>1, <3>5, <3>6, <3>7 DEF LockInv
  <2>4. CASE ~m_bInit /\ todo' = [todo EXCEPT ![o] = <<>>] /\ UNCHANGED m_lock
    <3>1. \A q \in Owners : Level(q)' = 0 /\ Level(q) = 0
      BY <2>2, <2>4 DEF Level, LockInv
    <3>2. /\ Len(plan.work) + 1 \in 1..(Len(plan.work) + 1)
          /\ Rest(plan, Len(plan.work) + 1) = <<>>
      BY RestOf
    <3>3. On(o, plan, Len(plan.work) + 1)'
      BY <2>4, <3>1, <3>2, PlanSteps DEF Before, On, Levels, TypeOK
    <3>4. \A q \in Owners \ {o} : \A p, k : On(q, p, k) => On(q, p, k)'
      BY <2>4, <3>1 DEF On, TypeOK
    <3> QED BY <1>2, <2>4, <3>2, <3>3, <3>4 DEF LockInv, Lock
  <2> QED BY <1>2, <2>3, <2>4 DEF Lock
<1>3. ASSUME NEW o \in Owners, Unlock(o) PROVE LockInv'
  <2>1. PICK plan \in Plans, l \in Nat : Before(o, plan, l, "unlock")
    BY <1>3, AtStep DEF Unlock
  <2>2. /\ l + 1 \in 1..(Len(plan.work) + 1) /\ todo'[o] = Rest(plan, l + 1)
        /\ \A q \in Owners \ {o} : todo'[q] = todo[q]
    BY <1>3, <2>1, GoesOn DEF Before, On, Unlock
  <2>3. Level(o) = plan.level[l + 1] + 1 /\ plan.level[l + 1] \in 0..2
    BY <2>1, PlanSteps DEF Before, On, Levels
  <2>4. m_lock.owner = o /\ m_lock.count = plan.level[l + 1] + 1
    BY <2>3 DEF Level
  <2>5. m_lock' = [owner |-> IF plan.level[l + 1] = 0 THEN None ELSE o,
                   count |-> plan.level[l + 1]]
    BY <1>3, <2>3, <2>4 DEF Unlock
  <2>6. Level(o)' = plan.level[l + 1]
    BY <2>3, <2>5, WorkerAssumption DEF Level
  <2>7. \A q \in Owners \ {o} : Level(q) = 0 /\ Level(q)' = 0
    BY <2>4, <2>5, WorkerAssumption DEF Level
  <2>8. On(o, plan, l + 1)'
    BY <2>2, <2>6 DEF On
  <2>9. \A q \in Owners \ {o} : \A p, k : On(q, p, k) => On(q, p, k)'
    BY <2>2, <2>7 DEF On
  <2>10. /\ m_lock'.owner = None <=> m_lock'.count = 0
         /\ m_bInit'
    BY <1>3, <2>3, <2>4, <2>5, WorkerAssumption DEF Unlock, LockInv
  <2> QED BY <2>2, <2>8, <2>9, <2>10 DEF LockInv
<1>4. ASSUME NEW o \in Owners, Start(o) PROVE LockInv'
  <2>1. CASE Done(o)
    BY <1>4, <2>1, LockKept DEF Start, lock
  <2>2. CASE todo' = [todo EXCEPT ![o] = Tail(Tail(@))]
    <3>1. PICK plan \in Plans, l \in Nat : Before(o, plan, l, "start")
      BY <1>4, AtStep DEF Start
    <3>2. /\ l + 1 \in 1..Len(plan.work) /\ l + 2 \in 1..(Len(plan.work) + 1)
          /\ plan.work[l + 1] = "create" /\ Len(plan.work) \in Nat
      BY <3>1, RestOf, PlanSteps DEF Before, Order
    <3>3. Tail(Tail(todo[o])) = Rest(plan, l + 2)
      <4>1. \A k \in 1..Len(plan.work) : Tail(Rest(plan, k)) = Rest(plan, k + 1)
        BY RestAt
      <4>2. (l + 1) + 1 = l + 2
        BY <3>1
      <4>3. Tail(Rest(plan, l)) = Rest(plan, l + 1) /\ Tail(Rest(plan, l + 1)) = Rest(plan, l + 2)
        BY <3>1, <3>2, <4>1, <4>2 DEF Before
      <4> QED BY <3>1, <4>3 DEF Before, On
    <3>4. plan.level[l + 1] = plan.level[l] /\ plan.level[(l + 1) + 1] = plan.level[l + 1]
      BY <3>1, <3>2, PlanSteps DEF Before, Levels
    <3>5. \A q \in Owners : Level(q)' = Level(q)
      BY <1>4 DEF Start, lock, Level
    <3>6. On(o, plan, l + 2)'
      <4>1. (l + 1) + 1 = l + 2
        BY <3>1
      <4> QED BY <2>2, <3>1, <3>3, <3>4, <3>5, <4>1 DEF Before, On, TypeOK
    <3>7. \A q \in Owners \ {o} : \A p, k : On(q, p, k) => On(q, p, k)'
      BY <2>2, <3>5 DEF On, TypeOK
    <3> QED BY <1>4, <3>2, <3>6, <3>7 DEF LockInv, Start, lock
  <2> QED BY <1>4, <2>1, <2>2 DEF Start
<1>5. ASSUME NEW o \in Owners,
             \/ Create(o) \/ LowerFlag(o) \/ Join(o) \/ Forget(o) \/ Signal(o)
             \/ PushBack(o) \/ LockList(o) \/ FindValue(o) \/ PopValueUnSafe(o)
             \/ UnlockList(o)
      PROVE  LockInv'
  BY <1>5, LockKept DEF Create, LowerFlag, Join, Forget, Signal, PushBack, LockList,
       FindValue, PopValueUnSafe, UnlockList, lock
<1>6. CASE UNCHANGED <<todo, lock>>
  BY <1>6 DEF LockInv, On, Level, lock
<1>7. ASSUME NEW w, ThreadStep(w) PROVE UNCHANGED <<todo, lock>>
  BY <1>7 DEF ThreadStep, Begin, Loop, PopFront, Wait, Wake
<1>8. UNCHANGED vars => UNCHANGED <<todo, lock>>
  BY DEF vars
<1> QED BY <1>1, <1>2, <1>3, <1>4, <1>5, <1>6, <1>7, <1>8 DEF Next, OwnerStep

(* What an owner does next, and that the others are where they were.       *)
LEMMA AfterStep ==
  ASSUME TypeOK, LockInv, NEW o \in Owners, NEW step, Does(o, step), Done(o)
  PROVE  /\ Does(o, "create")' <=> step = "start"
         /\ Does(o, "forget")' <=> step = "join"
         /\ Does(o, "erase")' <=> step = "find"
         /\ InList(o)' <=> step \in {"hold", "find", "erase"}
         /\ \A q \in Owners \ {o} : todo'[q] = todo[q]
<1>1. PICK plan \in Plans, l \in Nat : Before(o, plan, l, step)
  BY AtStep
<1>2. /\ l + 1 \in 1..(Len(plan.work) + 1) /\ todo'[o] = Rest(plan, l + 1)
      /\ \A q \in Owners \ {o} : todo'[q] = todo[q]
  BY <1>1, GoesOn DEF Before, On
<1>3. Len(plan.work) \in Nat
  BY <1>2, RestOf
<1>4. CASE l = Len(plan.work)
  <2>1. todo'[o] = <<>>
    BY <1>2, <1>4, RestOf
  <2>2. step \notin {"start", "join", "hold", "find", "erase"}
    BY <1>1, <1>4, PlanSteps DEF Before, Order
  <2> QED BY <1>2, <2>1, <2>2 DEF Does, InList
<1>5. CASE l # Len(plan.work)
  <2>1. l \in 1..Len(plan.work) /\ l < Len(plan.work) /\ plan.work[l] = step
    BY <1>1, <1>3, <1>5 DEF Before
  <2>2. \A k \in 1..Len(plan.work) :
          Rest(plan, k) # <<>> /\ Head(Rest(plan, k)) = plan.work[k]
    BY RestAt
  <2>3. todo'[o] # <<>> /\ Head(todo'[o]) = plan.work[l + 1]
    BY <1>2, <1>3, <2>1, <2>2
  <2>4. /\ plan.work[l + 1] = "create" <=> step = "start"
        /\ plan.work[l + 1] = "forget" <=> step = "join"
        /\ plan.work[l + 1] = "find" <=> step = "hold"
        /\ plan.work[l + 1] = "erase" <=> step = "find"
        /\ plan.work[l + 1] = "release" <=> step = "erase"
    BY <2>1, PlanSteps DEF Order
  <2> QED BY <1>2, <2>3, <2>4 DEF Does, InList
<1> QED BY <1>4, <1>5

(* What an owner begins with.                                              *)
LEMMA AfterChoose ==
  ASSUME TypeOK, NEW o \in Owners, Choose(o)
  PROVE  /\ ~Does(o, "create")' /\ ~Does(o, "forget")' /\ ~Does(o, "erase")' /\ ~InList(o)'
         /\ ~InList(o) /\ \A q \in Owners \ {o} : todo'[q] = todo[q]
<1>1. PICK plan \in Plans : todo' = [todo EXCEPT ![o] = plan.work]
  BY PlanWorks DEF Choose
<1>2. 1 \in 1..(Len(plan.work) + 1) /\ 1 # Len(plan.work) + 1
  BY RestOf
<1>3. Head(plan.work) = plan.work[1]
  BY <1>2, RestOf
<1>4. plan.work[1] \notin {"create", "forget", "find", "erase", "release"}
  BY PlanSteps DEF Order
<1>5. todo[o] = <<>> /\ todo'[o] = plan.work /\ \A q \in Owners \ {o} : todo'[q] = todo[q]
  BY <1>1 DEF Choose, TypeOK
<1> QED BY <1>3, <1>4, <1>5 DEF Does, InList

(* An owner whose lock is not initialised gives up.                        *)
LEMMA AfterGivingUp ==
  ASSUME TypeOK, NEW o \in Owners, Does(o, "lock"), todo' = [todo EXCEPT ![o] = <<>>]
  PROVE  /\ ~Does(o, "create")' /\ ~Does(o, "forget")' /\ ~Does(o, "erase")' /\ ~InList(o)'
         /\ ~InList(o) /\ \A q \in Owners \ {o} : todo'[q] = todo[q]
BY DEF Does, InList, TypeOK

(* An owner that finds a thread skips the creation of one.                 *)
LEMMA AfterFound ==
  ASSUME TypeOK, LockInv, NEW o \in Owners, Does(o, "start"),
         todo' = [todo EXCEPT ![o] = Tail(Tail(@))]
  PROVE  /\ ~Does(o, "create")' /\ ~Does(o, "forget")' /\ ~Does(o, "erase")' /\ ~InList(o)'
         /\ ~InList(o) /\ \A q \in Owners \ {o} : todo'[q] = todo[q]
<1>1. PICK plan \in Plans, l \in Nat : Before(o, plan, l, "start")
  BY AtStep
<1>2. /\ l + 1 \in 1..Len(plan.work) /\ plan.work[l + 1] = "create"
      /\ l \in 1..Len(plan.work) /\ Len(plan.work) \in Nat
  BY <1>1, RestOf, PlanSteps DEF Before, Order
<1>3. \A k \in 1..Len(plan.work) : /\ Tail(Rest(plan, k)) = Rest(plan, k + 1)
                                   /\ Rest(plan, k) # <<>> /\ Head(Rest(plan, k)) = plan.work[k]
  BY RestAt
<1>4. (l + 1) + 1 = l + 2
  OBVIOUS
<1>5. todo'[o] = Rest(plan, l + 2) /\ \A q \in Owners \ {o} : todo'[q] = todo[q]
  <2>1. Tail(Rest(plan, l)) = Rest(plan, l + 1) /\ Tail(Rest(plan, l + 1)) = Rest(plan, l + 2)
    BY <1>2, <1>3, <1>4
  <2> QED BY <1>1, <2>1 DEF Before, On, TypeOK
<1>6. CASE l + 2 = Len(plan.work) + 1
  <2>1. Rest(plan, Len(plan.work) + 1) = <<>>
    BY <1>2, RestOf
  <2> QED BY <1>5, <1>6, <2>1 DEF Does, InList
<1>7. CASE l + 2 # Len(plan.work) + 1
  <2>1. l + 2 \in 1..Len(plan.work) /\ l + 1 < Len(plan.work)
    BY <1>2, <1>7
  <2>2. plan.work[(l + 1) + 1] \notin {"create", "forget", "find", "erase", "release"}
    BY <1>2, <2>1, PlanSteps DEF Order
  <2>3. Head(todo'[o]) = plan.work[l + 2]
    BY <1>3, <1>5, <2>1
  <2> QED BY <1>4, <1>5, <2>2, <2>3 DEF Does, InList
<1> QED BY <1>6, <1>7

(* Only one owner at a time does something to the thread.                  *)
LEMMA Alone ==
  ASSUME TypeOK, LockInv, NEW o \in Owners, NEW q \in Owners,
         NEW s \in {"start", "create", "flag", "join", "forget"}, Does(o, s),
         NEW t \in {"start", "create", "flag", "join", "forget"}, Does(q, t)
  PROVE  o = q
<1>1. PICK plan \in Plans, l \in Nat : Before(o, plan, l, s)
  BY AtStep
<1>2. PICK p \in Plans, k \in Nat : Before(q, p, k, t)
  BY AtStep
<1>3. Level(o) > 0
  BY <1>1, PlanSteps DEF Before, On, Levels
<1>4. Level(q) > 0
  BY <1>2, PlanSteps DEF Before, On, Levels
<1> QED BY <1>3, <1>4 DEF Level

-----------------------------------------------------------------------------
(* The thread.                                                             *)

(* Steps that leave the thread alone.                                      *)
LEMMA ThreadKept ==
  ASSUME ThreadInv, NEW o \in Owners, UNCHANGED kthread,
         ~Does(o, "create")', ~Does(o, "forget")',
         \A q \in Owners \ {o} : todo'[q] = todo[q]
  PROVE  ThreadInv'
BY DEF ThreadInv, OneThread, Does, kthread

(* A thread that goes on is the one KThread knows.                         *)
LEMMA ThreadGoesOn ==
  ASSUME TypeOK, ThreadInv, NEW w, w \in DOMAIN threads, threads[w] # "ended",
         NEW place, Goto(w, place), UNCHANGED <<todo, m_pthread_t>>
  PROVE  ThreadInv'
<1>1. w = m_pthread_t
  BY DEF ThreadInv, OneThread
<1>2. /\ DOMAIN threads' = DOMAIN threads
      /\ \A v \in DOMAIN threads : v # w => threads'[v] = threads[v]
  BY DEF Goto
<1>3. OneThread'
  BY <1>1, <1>2 DEF ThreadInv, OneThread
<1>4. \A o \in Owners : ~(Does(o, "forget") /\ m_pthread_t # 0)
  BY <1>1 DEF ThreadInv
<1> QED BY <1>3, <1>4 DEF ThreadInv, Does

LEMMA ThreadInvStep ==
  ASSUME TypeOK, LockInv, ThreadInv, [Next]_vars
  PROVE  ThreadInv'
<1>1. ASSUME NEW o \in Owners, Choose(o) PROVE ThreadInv'
  BY <1>1, AfterChoose, ThreadKept DEF Choose, kthread
<1>2. ASSUME NEW o \in Owners, NEW step, Does(o, step), Done(o), UNCHANGED kthread,
             step \notin {"start", "join"}
      PROVE  ThreadInv'
  BY <1>2, AfterStep, ThreadKept
<1>3. ASSUME NEW o \in Owners,
             \/ Unlock(o) \/ LowerFlag(o) \/ PushBack(o) \/ LockList(o) \/ FindValue(o)
             \/ PopValueUnSafe(o) \/ UnlockList(o)
      PROVE  ThreadInv'
  BY <1>2, <1>3 DEF Unlock, LowerFlag, PushBack, LockList, FindValue, PopValueUnSafe, UnlockList
<1>4. ASSUME NEW o \in Owners, Lock(o) PROVE ThreadInv'
  <2>1. CASE Done(o)
    BY <1>2, <1>4, <2>1 DEF Lock
  <2>2. CASE todo' = [todo EXCEPT ![o] = <<>>]
    BY <1>4, <2>2, AfterGivingUp, ThreadKept DEF Lock
  <2> QED BY <1>4, <2>1, <2>2 DEF Lock
<1>5. ASSUME NEW o \in Owners, Start(o) PROVE ThreadInv'
  <2>1. CASE m_pthread_t # 0 /\ todo' = [todo EXCEPT ![o] = Tail(Tail(@))] /\ UNCHANGED m_pKRunnable
    BY <1>5, <2>1, AfterFound, ThreadKept DEF Start, kthread
  <2>2. CASE m_pthread_t = 0 /\ Done(o)
    <3>1. ~Does(o, "forget")' /\ \A q \in Owners \ {o} : todo'[q] = todo[q]
      BY <1>5, <2>2, AfterStep DEF Start
    <3>2. UNCHANGED <<m_pthread_t, threads>>
      BY <1>5 DEF Start
    <3> QED BY <2>2, <3>1, <3>2 DEF ThreadInv, OneThread, Does
  <2> QED BY <1>5, <2>1, <2>2 DEF Start
<1>6. ASSUME NEW o \in Owners, Create(o) PROVE ThreadInv'
  <2>1. Does(o, "create") /\ Done(o) /\ m_pthread_t = 0
    BY <1>6 DEF Create, ThreadInv
  <2>2. \A q \in Owners : ~Does(q, "create")' /\ ~Does(q, "forget")'
    <3>1. \A q \in Owners \ {o} : ~Does(q, "create") /\ ~Does(q, "forget")
      BY <2>1, Alone
    <3> QED BY <2>1, <3>1, AfterStep DEF Does
  <2>3. threads \in Seq({"begun", "loop", "pop", "wait", "asleep", "ended"}) /\ Len(threads) \in Nat
        /\ DOMAIN threads = 1..Len(threads)
    BY LenProperties DEF TypeOK
  <2>4. \A w \in DOMAIN threads : threads[w] = "ended"
    BY <2>1, <2>3 DEF ThreadInv, OneThread
  <2>5. CASE threads' = Append(threads, "begun") /\ m_pthread_t' = Len(threads')
    <3>1. /\ DOMAIN threads' = 1..(Len(threads) + 1) /\ Len(threads') = Len(threads) + 1
          /\ \A w \in 1..Len(threads) : threads'[w] = threads[w]
      BY <2>3, <2>5, AppendProperties, LenProperties
    <3> QED BY <2>2, <2>3, <2>4, <2>5, <3>1 DEF ThreadInv, OneThread
  <2>6. CASE UNCHANGED threads
    BY <2>2, <2>4, <2>6 DEF ThreadInv, OneThread
  <2> QED BY <1>6, <2>5, <2>6 DEF Create
<1>7. ASSUME NEW o \in Owners, Join(o) PROVE ThreadInv'
  <2>1. Does(o, "join") /\ Done(o) /\ UNCHANGED kthread
    BY <1>7 DEF Join
  <2>2. ~Does(o, "create")' /\ \A q \in Owners \ {o} : todo'[q] = todo[q]
    BY <2>1, AfterStep
  <2>3. m_pthread_t # 0 => threads[m_pthread_t] = "ended"
    BY <1>7 DEF Join
  <2> QED BY <2>1, <2>2, <2>3 DEF ThreadInv, OneThread, Does, kthread
<1>8. ASSUME NEW o \in Owners, Forget(o) PROVE ThreadInv'
  <2>1. Does(o, "forget") /\ m_pthread_t' = 0 /\ UNCHANGED threads
    BY <1>8 DEF Forget
  <2>2. \A w \in DOMAIN threads : threads[w] = "ended"
    <3> SUFFICES ASSUME NEW w \in DOMAIN threads, threads[w] # "ended" PROVE FALSE
      OBVIOUS
    <3>1. w = m_pthread_t
      BY DEF ThreadInv, OneThread
    <3>2. w # 0
      BY LenProperties DEF TypeOK
    <3> QED BY <2>1, <3>1, <3>2 DEF ThreadInv
  <2> QED BY <2>1, <2>2 DEF ThreadInv, OneThread
<1>9. ASSUME NEW o \in Owners, Signal(o) PROVE ThreadInv'
  <2>1. Does(o, "signal") /\ Done(o) /\ UNCHANGED m_pthread_t
    BY <1>9 DEF Signal
  <2>2. /\ DOMAIN threads' = DOMAIN threads
        /\ \A w \in DOMAIN threads : threads'[w] = "ended" <=> threads[w] = "ended"
    BY <1>9 DEF Signal
  <2>3. /\ ~Does(o, "create")' /\ ~Does(o, "forget")'
        /\ \A q \in Owners \ {o} : todo'[q] = todo[q]
    BY <2>1, AfterStep
  <2>4. m_pthread_t # 0 => m_pthread_t \in DOMAIN threads
    BY LenProperties DEF TypeOK
  <2> QED BY <2>1, <2>2, <2>3, <2>4 DEF ThreadInv, OneThread, Does
<1>10. ASSUME NEW w, ThreadStep(w) PROVE ThreadInv'
  <2>1. w \in DOMAIN threads /\ threads[w] # "ended" /\ UNCHANGED <<todo, m_pthread_t>>
    BY <1>10 DEF ThreadStep, Begin, Loop, PopFront, Wait, Wake, At
  <2>2. \E place : Goto(w, place)
    BY <1>10 DEF ThreadStep, Begin, Loop, PopFront, Wait, Wake
  <2> QED BY <2>1, <2>2, ThreadGoesOn
<1>11. CASE UNCHANGED vars
  BY <1>11 DEF vars, kthread, ThreadInv, OneThread, Does
<1> QED BY <1>1, <1>3, <1>4, <1>5, <1>6, <1>7, <1>8, <1>9, <1>10, <1>11 DEF Next, OwnerStep

-----------------------------------------------------------------------------
(* The list.                                                               *)

(* One more value behind the others.                                       *)
LEMMA IncreasingAppend ==
  ASSUME NEW n \in Nat, NEW s \in Seq(1..n), Increasing(s)
  PROVE  /\ Append(s, n + 1) \in Seq(1..(n + 1)) /\ Increasing(Append(s, n + 1))
         /\ \A v : Contains(Append(s, n + 1), v) <=> Contains(s, v) \/ v = n + 1
<1> DEFINE t == Append(s, n + 1)
<1>1. s \in Seq(1..(n + 1)) /\ n + 1 \in 1..(n + 1)
  BY SeqMonotonic
<1>2. /\ t \in Seq(1..(n + 1)) /\ Len(t) = Len(s) + 1 /\ Len(s) \in Nat
      /\ \A i \in 1..Len(s) : t[i] = s[i]
      /\ t[Len(s) + 1] = n + 1
  BY <1>1, AppendProperties, LenProperties
<1>3. \A i \in 1..Len(s) : s[i] \in 1..n
  BY ElementOfSeq
<1> HIDE DEF t
<1>4. Increasing(t)
  <2> SUFFICES ASSUME NEW i \in 1..Len(t), NEW j \in 1..Len(t), i < j PROVE t[i] < t[j]
    BY DEF Increasing
  <2>1. i \in 1..Len(s) /\ t[i] = s[i] /\ s[i] \in 1..n
    BY <1>2, <1>3
  <2>2. CASE j = Len(s) + 1
    BY <1>2, <2>1, <2>2
  <2>3. CASE j # Len(s) + 1
    <3>1. j \in 1..Len(s)
      <4>1. Len(t) = Len(s) + 1 /\ Len(s) \in Nat
        BY <1>2
      <4> QED BY <2>3, <4>1
    <3>2. t[j] = s[j]
      BY <1>2, <3>1
    <3> QED BY <2>1, <3>1, <3>2 DEF Increasing
  <2> QED BY <2>2, <2>3
<1>5. ASSUME NEW v PROVE Contains(t, v) <=> Contains(s, v) \/ v = n + 1
  <2>1. ASSUME NEW i \in 1..Len(t), t[i] = v PROVE Contains(s, v) \/ v = n + 1
    <3>1. i \in 1..Len(s) \/ i = Len(s) + 1
      BY <1>2
    <3> QED BY <1>2, <2>1, <3>1 DEF Contains
  <2>2. ASSUME NEW i \in 1..Len(s), s[i] = v PROVE Contains(t, v)
    <3>1. i \in 1..Len(t) /\ t[i] = v
      BY <1>2, <2>2
    <3> QED BY <3>1 DEF Contains
  <2>3. Len(s) + 1 \in 1..Len(t)
    BY <1>2
  <2> QED BY <1>2, <2>1, <2>2, <2>3 DEF Contains
<1> QED BY <1>2, <1>4, <1>5 DEF t

(* The value at place p is taken out.                                      *)
LEMMA IncreasingRemove ==
  ASSUME NEW n \in Nat, NEW s \in Seq(1..n), NEW t \in Seq(1..n), NEW p \in 1..Len(s),
         Increasing(s), Len(t) = Len(s) - 1,
         \A k \in 1..Len(t) : t[k] = IF k < p THEN s[k] ELSE s[k + 1]
  PROVE  Increasing(t) /\ \A v : Contains(t, v) <=> Contains(s, v) /\ v # s[p]
<1>1. Len(s) \in Nat /\ \A i \in 1..Len(s) : s[i] \in 1..n
  BY LenProperties, ElementOfSeq
<1>2. \A i, j \in 1..Len(s) : i < j => s[i] < s[j]
  BY DEF Increasing
<1>3. Increasing(t)
  <2> SUFFICES ASSUME NEW i \in 1..Len(t), NEW j \in 1..Len(t), i < j PROVE t[i] < t[j]
    BY DEF Increasing
  <2> DEFINE k == IF i < p THEN i ELSE i + 1
             l == IF j < p THEN j ELSE j + 1
  <2>1. k \in 1..Len(s) /\ l \in 1..Len(s) /\ k < l
    BY <1>1, SMTT(30)
  <2>2. t[i] = s[k] /\ t[j] = s[l]
    OBVIOUS
  <2> QED BY <1>2, <2>1, <2>2
<1>4. ASSUME NEW v, Contains(t, v) PROVE Contains(s, v) /\ v # s[p]
  <2>1. PICK i \in 1..Len(t) : t[i] = v
    BY <1>4 DEF Contains
  <2> DEFINE k == IF i < p THEN i ELSE i + 1
  <2>2. k \in 1..Len(s) /\ (k < p \/ p < k)
    BY <1>1
  <2>3. s[k] < s[p] \/ s[p] < s[k]
    BY <1>2, <2>2
  <2>4. s[k] \in Int /\ s[p] \in Int
    BY <1>1, <2>2
  <2>5. s[k] = v
    BY <2>1
  <2> QED BY <2>2, <2>3, <2>4, <2>5 DEF Contains
<1>5. ASSUME NEW v, Contains(s, v), v # s[p] PROVE Contains(t, v)
  <2>1. PICK i \in 1..Len(s) : s[i] = v
    BY <1>5 DEF Contains
  <2>2. CASE i < p
    <3>1. i \in 1..Len(t) /\ t[i] = v
      BY <1>1, <2>1, <2>2
    <3> QED BY <3>1 DEF Contains
  <2>3. CASE i > p
    <3>1. i - 1 \in 1..Len(t) /\ ~(i - 1 < p) /\ (i - 1) + 1 = i
      BY <1>1, <2>1, <2>3
    <3>2. t[i - 1] = v
      BY <2>1, <3>1
    <3> QED BY <3>1, <3>2 DEF Contains
  <2> QED BY <1>1, <1>5, <2>1, <2>2, <2>3
<1> QED BY <1>3, <1>4, <1>5

LEMMA RemoveAtProperties ==
  ASSUME NEW S, NEW s \in Seq(S), NEW i \in 1..Len(s)
  PROVE  /\ RemoveAt(s, i) \in Seq(S) /\ Len(RemoveAt(s, i)) = Len(s) - 1
         /\ \A k \in 1..(Len(s) - 1) : RemoveAt(s, i)[k] = IF k < i THEN s[k] ELSE s[k + 1]
<1> DEFINE a == SubSeq(s, 1, i - 1)
           b == SubSeq(s, i + 1, Len(s))
<1>1. Len(s) \in Nat /\ \A k \in 1..Len(s) : s[k] \in S
  BY LenProperties, ElementOfSeq
<1>2. /\ a \in Seq(S) /\ Len(a) = i - 1
      /\ \A k \in 1..(i - 1) : a[k] = s[k]
  <2>1. \A k \in 1..(i - 1) : s[k] \in S
    BY <1>1
  <2>2. /\ a \in Seq(S) /\ Len(a) = IF 1 <= i - 1 THEN (i - 1) - 1 + 1 ELSE 0
        /\ \A k \in 1..((i - 1) - 1 + 1) : a[k] = s[1 + k - 1]
    BY <1>1, <2>1, SubSeqProperties
  <2> QED BY <1>1, <2>2
<1>3. /\ b \in Seq(S) /\ Len(b) = Len(s) - i
      /\ \A k \in 1..(Len(s) - i) : b[k] = s[k + i]
  <2>1. \A k \in (i + 1)..Len(s) : s[k] \in S
    BY <1>1
  <2>2. /\ b \in Seq(S) /\ Len(b) = IF i + 1 <= Len(s) THEN Len(s) - (i + 1) + 1 ELSE 0
        /\ \A k \in 1..(Len(s) - (i + 1) + 1) : b[k] = s[(i + 1) + k - 1]
    BY <1>1, <2>1, SubSeqProperties
  <2>3. \A k \in 1..(Len(s) - i) : (i + 1) + k - 1 = k + i
    BY <1>1
  <2> QED BY <1>1, <2>2, <2>3
<1> HIDE DEF a, b
<1>4. /\ a \o b \in Seq(S) /\ Len(a \o b) = Len(a) + Len(b)
      /\ \A k \in 1..(Len(a) + Len(b)) : (a \o b)[k] = IF k <= Len(a) THEN a[k] ELSE b[k - Len(a)]
  BY <1>2, <1>3, ConcatProperties
<1>5. Len(a \o b) = Len(s) - 1
  BY <1>1, <1>2, <1>3, <1>4
<1>6. ASSUME NEW k \in 1..(Len(s) - 1)
      PROVE  (a \o b)[k] = IF k < i THEN s[k] ELSE s[k + 1]
  <2>1. (a \o b)[k] = IF k <= i - 1 THEN a[k] ELSE b[k - (i - 1)]
    BY <1>1, <1>2, <1>3, <1>4
  <2>2. CASE k < i
    <3>1. k \in 1..(i - 1)
      BY <2>2
    <3> QED BY <1>2, <2>1, <2>2, <3>1
  <2>3. CASE ~(k < i)
    <3>1. k - (i - 1) \in 1..(Len(s) - i) /\ k - (i - 1) + i = k + 1
      BY <1>1, <2>3
    <3> QED BY <1>3, <2>1, <2>3, <3>1
  <2> QED BY <2>2, <2>3
<1>7. RemoveAt(s, i) = a \o b
  BY DEF RemoveAt, a, b
<1> QED BY <1>4, <1>5, <1>6, <1>7

(* Steps that leave the list, its lock and the iterators alone.            *)
LEMMA ListKept ==
  ASSUME ListInv, NEW o \in Owners, UNCHANGED <<list, values>>,
         InList(o)' <=> InList(o), ~Does(o, "erase"),
         \A q \in Owners \ {o} : todo'[q] = todo[q]
  PROVE  ListInv'
BY DEF ListInv, ListInOrder, InList, Does, list, values

(* Without the list's lock nobody is at a value.                           *)
LEMMA NobodyInList ==
  ASSUME ListInv, mLock = None
  PROVE  \A o \in Owners : ~InList(o) /\ itr[o] = 0
BY WorkerAssumption DEF ListInv, InList

LEMMA PushBackOrder ==
  ASSUME TypeOK, ListInOrder, mLock = None, ListInv,
         mList' = Append(mList, pushed + 1), mSize' = mSize + 1, pushed' = pushed + 1,
         UNCHANGED <<handled, cancelled, itr>>
  PROVE  ListInOrder'
<1> DEFINE s == handled \o mList
           n == pushed
<1>1. /\ n \in Nat /\ handled \in Seq(1..n) /\ mList \in Seq(1..n) /\ cancelled \subseteq 1..n
      /\ Len(mList) \in Nat
  BY LenProperties DEF TypeOK
<1>2. s \in Seq(1..n)
  BY <1>1, ConcatProperties
<1>3. handled' \o mList' = Append(s, n + 1)
  <2>1. /\ handled \in Seq(1..(n + 1)) /\ mList \in Seq(1..(n + 1)) /\ s \in Seq(1..(n + 1))
        /\ n + 1 \in 1..(n + 1)
    BY <1>1, <1>2, SeqMonotonic
  <2>2. /\ Append(mList, n + 1) = mList \o <<n + 1>>
        /\ Append(s, n + 1) = s \o <<n + 1>>
    BY <2>1, AppendIsConcat
  <2>3. <<n + 1>> \in Seq(1..(n + 1))
    BY <2>1
  <2>4. handled \o (mList \o <<n + 1>>) = (handled \o mList) \o <<n + 1>>
    BY <2>1, <2>3, ConcatAssociative
  <2> QED BY <2>2, <2>4
<1>4. Increasing(s) /\ \A v \in 1..n : Contains(s, v) <=> v \notin cancelled
  BY DEF ListInOrder
<1> HIDE DEF s
<1>5. /\ Increasing(Append(s, n + 1))
      /\ \A v : Contains(Append(s, n + 1), v) <=> Contains(s, v) \/ v = n + 1
  BY <1>1, <1>2, <1>4, IncreasingAppend
<1>6. ~Contains(s, n + 1)
  BY <1>1, <1>2, ElementOfSeq DEF Contains
<1>7. \A v \in 1..(n + 1) : Contains(Append(s, n + 1), v) <=> v \notin cancelled
  BY <1>1, <1>4, <1>5, <1>6
<1>8. mSize' = Len(mList')
  BY <1>1, AppendProperties DEF ListInOrder
<1>9. \A o \in Owners : itr'[o] = 0
  BY NobodyInList
<1> QED BY <1>3, <1>5, <1>7, <1>8, <1>9 DEF ListInOrder

LEMMA PopFrontOrder ==
  ASSUME TypeOK, ListInv, mLock = None, mList # <<>>,
         handled' = Append(handled, Head(mList)), mList' = Tail(mList), mSize' = mSize - 1,
         UNCHANGED <<pushed, cancelled, itr>>
  PROVE  ListInOrder'
<1> DEFINE V == 1..pushed
           e == Head(mList)
           r == Tail(mList)
<1>1. handled \in Seq(V) /\ mList \in Seq(V)
  BY DEF TypeOK
<1>2. e \in V /\ r \in Seq(V) /\ Len(r) = Len(mList) - 1
  BY <1>1, HeadTailProperties
<1>3. Len(mList) \in Nat \ {0} /\ 1 \in 1..Len(mList) /\ Len(mList) \in 1..Len(mList)
  BY <1>1, EmptySeq
<1>4. mList = <<e>> \o r
  <2>1. SubSeq(mList, 1, Len(mList)) = <<mList[1]>> \o SubSeq(mList, 1 + 1, Len(mList))
    BY <1>1, <1>3, SubSeqRecursiveFirst
  <2>2. SubSeq(mList, 1, Len(mList)) = mList
    BY <1>1, SubSeqFull
  <2>3. r = SubSeq(mList, 2, Len(mList))
    BY <1>1, TailIsSubSeq
  <2>4. e = mList[1]
    BY <1>1, <1>3
  <2>5. 1 + 1 = 2
    OBVIOUS
  <2> QED BY <2>1, <2>2, <2>3, <2>4, <2>5
<1>5. handled' \o mList' = handled \o mList
  <2> HIDE DEF e, r
  <2>1. Append(handled, e) = handled \o <<e>> /\ <<e>> \in Seq(V)
    BY <1>1, <1>2, AppendIsConcat
  <2>2. (handled \o <<e>>) \o r = handled \o (<<e>> \o r)
    BY <1>1, <1>2, <2>1, ConcatAssociative
  <2>3. handled' = Append(handled, e) /\ mList' = r
    BY DEF e, r
  <2> QED BY <1>4, <2>1, <2>2, <2>3
<1>6. \A o \in Owners : itr'[o] = 0
  BY NobodyInList
<1> QED BY <1>2, <1>5, <1>6 DEF ListInv, ListInOrder

LEMMA PopValueOrder ==
  ASSUME TypeOK, ListInv, NEW o \in Owners, PopValueUnSafe(o)
  PROVE  ListInOrder'
<1>1. /\ itr' = [itr EXCEPT ![o] = 0] /\ UNCHANGED <<pushed, handled>>
      /\ Does(o, "erase") /\ itr \in [Owners -> 0..pushed]
  BY DEF PopValueUnSafe, TypeOK
<1>2. \A q \in Owners : itr'[q] = 0
  <2>1. InList(o)
    BY <1>1 DEF InList
  <2>2. \A q \in Owners \ {o} : ~InList(q)
    BY <2>1 DEF ListInv
  <2>3. \A q \in Owners \ {o} : itr[q] = 0
    BY <2>2 DEF ListInv, InList
  <2> QED BY <1>1, <2>3
<1>3. CASE itr[o] = 0 /\ UNCHANGED <<mList, mSize, cancelled>>
  BY <1>1, <1>2, <1>3 DEF ListInv, ListInOrder
<1>4. CASE itr[o] # 0
  <2> DEFINE V == 1..pushed
             s == handled \o mList
             t == handled \o mList'
  <2>1. handled \in Seq(V) /\ mList \in Seq(V) /\ pushed \in Nat
    BY DEF TypeOK
  <2>2. Contains(mList, itr[o])
    BY <1>4 DEF ListInv, ListInOrder
  <2>3. PICK i \in 1..Len(mList) : mList[i] = itr[o] /\ mList' = RemoveAt(mList, i)
    <3>1. DOMAIN mList = 1..Len(mList)
      BY <2>1, LenProperties
    <3> QED BY <1>4, <2>2, <3>1 DEF PopValueUnSafe
  <2>4. mSize' = mSize - 1 /\ cancelled' = cancelled \cup {itr[o]}
    BY <1>4 DEF PopValueUnSafe
  <2>5. /\ mList' \in Seq(V) /\ Len(mList') = Len(mList) - 1
        /\ \A k \in 1..(Len(mList) - 1) : mList'[k] = IF k < i THEN mList[k] ELSE mList[k + 1]
    BY <2>1, <2>3, RemoveAtProperties
  <2>6. Len(handled) \in Nat /\ Len(mList) \in Nat
    BY <2>1, LenProperties
  <2>7. /\ s \in Seq(V) /\ Len(s) = Len(handled) + Len(mList)
        /\ \A k \in 1..(Len(handled) + Len(mList)) :
             s[k] = IF k <= Len(handled) THEN handled[k] ELSE mList[k - Len(handled)]
    BY <2>1, ConcatProperties
  <2>8. /\ t \in Seq(V) /\ Len(t) = Len(handled) + Len(mList')
        /\ \A k \in 1..(Len(handled) + Len(mList')) :
             t[k] = IF k <= Len(handled) THEN handled[k] ELSE mList'[k - Len(handled)]
    BY <2>1, <2>5, ConcatProperties
  <2> HIDE DEF s, t
  <2> DEFINE p == Len(handled) + i
  <2>9. p \in 1..Len(s) /\ s[p] = itr[o] /\ Len(t) = Len(s) - 1
    <3>1. p \in 1..Len(s) /\ ~(p <= Len(handled)) /\ p - Len(handled) = i
      BY <2>3, <2>6, <2>7
    <3>2. s[p] = mList[i]
      BY <2>7, <3>1
    <3>3. Len(t) = Len(s) - 1
      BY <2>5, <2>6, <2>7, <2>8
    <3> QED BY <2>3, <3>1, <3>2, <3>3
  <2>10. ASSUME NEW k \in 1..Len(t) PROVE t[k] = IF k < p THEN s[k] ELSE s[k + 1]
    <3>1. k \in 1..(Len(handled) + Len(mList')) /\ k \in 1..Len(s) /\ k + 1 \in 1..Len(s)
      BY <2>5, <2>6, <2>7, <2>8
    <3>2. CASE k <= Len(handled)
      <4>1. k < p
        BY <2>6, <3>1, <3>2
      <4> QED BY <2>7, <2>8, <3>1, <3>2, <4>1
    <3>3. CASE ~(k <= Len(handled))
      <4> DEFINE j == k - Len(handled)
      <4>1. j \in 1..(Len(mList) - 1) /\ (k < p <=> j < i) /\ k + 1 - Len(handled) = j + 1
            /\ ~(k + 1 <= Len(handled))
        BY <2>3, <2>5, <2>6, <3>1, <3>3
      <4>2. t[k] = mList'[j] /\ s[k] = mList[j] /\ s[k + 1] = mList[j + 1]
        BY <2>5, <2>6, <2>7, <2>8, <3>1, <3>3, <4>1
      <4> QED BY <2>5, <4>1, <4>2
    <3> QED BY <3>2, <3>3
  <2>11. Increasing(s) /\ \A v \in V : Contains(s, v) <=> v \notin cancelled
    BY DEF ListInv, ListInOrder, s
  <2>12. Increasing(t) /\ \A v : Contains(t, v) <=> Contains(s, v) /\ v # s[p]
    <3>1. \A k \in 1..Len(t) : t[k] = IF k < p THEN s[k] ELSE s[k + 1]
      BY <2>10
    <3>2. p \in 1..Len(s) /\ Len(t) = Len(s) - 1 /\ s \in Seq(V) /\ t \in Seq(V)
      BY <2>7, <2>8, <2>9
    <3> HIDE DEF p
    <3> QED BY <2>1, <2>11, <3>1, <3>2, IncreasingRemove
  <2>13. mSize' = Len(mList')
    BY <2>4, <2>5 DEF ListInv, ListInOrder
  <2>14. handled' \o mList' = t /\ pushed' = pushed
    BY <1>1 DEF t
  <2> QED BY <1>2, <2>4, <2>9, <2>11, <2>12, <2>13, <2>14 DEF ListInOrder
<1> QED BY <1>3, <1>4 DEF PopValueUnSafe

LEMMA ListInvStep ==
  ASSUME TypeOK, LockInv, ListInv, [Next]_vars
  PROVE  ListInv'
<1>1. ASSUME NEW o \in Owners, Choose(o) PROVE ListInv'
  <2>1. ~Does(o, "erase")
    BY <1>1, AfterChoose DEF InList
  <2> QED BY <1>1, <2>1, AfterChoose, ListKept DEF Choose
<1>2. ASSUME NEW o \in Owners, NEW step, Does(o, step), Done(o), UNCHANGED <<list, values>>,
             step \notin {"hold", "find", "erase", "release"}
      PROVE  ListInv'
  <2>1. ~InList(o) /\ ~Does(o, "erase")
    BY <1>2 DEF Does, InList
  <2> QED BY <1>2, <2>1, AfterStep, ListKept
<1>3. ASSUME NEW o \in Owners,
             \/ Unlock(o) \/ Create(o) \/ LowerFlag(o) \/ Join(o) \/ Forget(o) \/ Signal(o)
      PROVE  ListInv'
  BY <1>2, <1>3 DEF Unlock, Create, LowerFlag, Join, Forget, Signal
<1>4. ASSUME NEW o \in Owners, Lock(o) PROVE ListInv'
  <2>1. CASE Done(o)
    BY <1>2, <1>4, <2>1 DEF Lock
  <2>2. CASE todo' = [todo EXCEPT ![o] = <<>>]
    <3>1. ~Does(o, "erase")
      BY <1>4 DEF Does, Lock
    <3> QED BY <1>4, <2>2, <3>1, AfterGivingUp, ListKept DEF Lock
  <2> QED BY <1>4, <2>1, <2>2 DEF Lock
<1>5. ASSUME NEW o \in Owners, Start(o) PROVE ListInv'
  <2>1. CASE Done(o)
    BY <1>2, <1>5, <2>1 DEF Start
  <2>2. CASE todo' = [todo EXCEPT ![o] = Tail(Tail(@))]
    <3>1. ~Does(o, "erase")
      BY <1>5 DEF Does, Start
    <3> QED BY <1>5, <2>2, <3>1, AfterFound, ListKept DEF Start
  <2> QED BY <1>5, <2>1, <2>2 DEF Start
<1>6. ASSUME NEW o \in Owners, PushBack(o) PROVE ListInv'
  <2>1. Does(o, "push") /\ Done(o) /\ mLock = None /\ UNCHANGED <<mLock, itr>>
    BY <1>6 DEF PushBack
  <2>2. ListInOrder'
    BY <1>6, PushBackOrder DEF PushBack, ListInv
  <2>3. ~InList(o)' /\ \A q \in Owners \ {o} : todo'[q] = todo[q]
    BY <2>1, AfterStep
  <2>4. \A q \in Owners : ~InList(q)'
    BY <2>1, <2>3, NobodyInList DEF InList, Does
  <2>5. \A q \in Owners : itr'[q] = 0
    BY <2>1, NobodyInList
  <2> QED BY <2>1, <2>2, <2>4, <2>5, WorkerAssumption DEF ListInv
<1>7. ASSUME NEW o \in Owners, LockList(o) PROVE ListInv'
  <2>1. /\ Does(o, "hold") /\ Done(o) /\ mLock = None /\ mLock' = o
        /\ UNCHANGED <<mList, mSize, itr, values>>
    BY <1>7 DEF LockList
  <2>2. InList(o)' /\ \A q \in Owners \ {o} : todo'[q] = todo[q]
    BY <2>1, AfterStep
  <2>3. \A q \in Owners \ {o} : ~InList(q)'
    BY <2>1, <2>2, NobodyInList DEF InList, Does
  <2>4. \A q \in Owners : itr'[q] = 0
    BY <2>1, NobodyInList
  <2>5. ListInOrder'
    BY <2>1, <2>4 DEF ListInv, ListInOrder, values
  <2> QED BY <2>1, <2>2, <2>3, <2>4, <2>5 DEF ListInv
<1>8. ASSUME NEW o \in Owners, FindValue(o) PROVE ListInv'
  <2>1. Does(o, "find") /\ Done(o) /\ UNCHANGED <<mList, mSize, mLock, values>>
    BY <1>8 DEF FindValue
  <2>2. /\ InList(o)' /\ Does(o, "erase")'
        /\ \A q \in Owners \ {o} : todo'[q] = todo[q]
    BY <2>1, AfterStep
  <2>3. InList(o)
    BY <2>1 DEF InList
  <2>4. PICK v \in ToSet(mList) \cup {0} : itr' = [itr EXCEPT ![o] = v]
    BY <1>8 DEF FindValue
  <2>5. v # 0 => Contains(mList, v)
    BY <2>4, LenProperties DEF ToSet, Contains, TypeOK
  <2>6. itr'[o] = v /\ \A q \in Owners \ {o} : itr'[q] = itr[q]
    BY <2>4 DEF TypeOK
  <2>7. ListInOrder'
    BY <2>1, <2>5, <2>6 DEF ListInv, ListInOrder, values
  <2>8. \A q \in Owners : InList(q)' <=> mLock' = q
    BY <2>1, <2>2, <2>3 DEF ListInv, InList, Does
  <2>9. \A q \in Owners : itr'[q] # 0 => Does(q, "erase")'
    BY <2>2, <2>6 DEF ListInv, Does
  <2> QED BY <2>7, <2>8, <2>9 DEF ListInv
<1>9. ASSUME NEW o \in Owners, PopValueUnSafe(o) PROVE ListInv'
  <2>1. Does(o, "erase") /\ Done(o) /\ UNCHANGED mLock /\ itr' = [itr EXCEPT ![o] = 0]
    BY <1>9 DEF PopValueUnSafe
  <2>2. InList(o)' /\ \A q \in Owners \ {o} : todo'[q] = todo[q]
    BY <2>1, AfterStep
  <2>3. InList(o)
    BY <2>1 DEF InList
  <2>4. \A q \in Owners : InList(q)' <=> mLock' = q
    BY <2>1, <2>2, <2>3 DEF ListInv, InList, Does
  <2>5. itr'[o] = 0 /\ \A q \in Owners \ {o} : itr'[q] = itr[q]
    BY <2>1 DEF TypeOK
  <2>6. \A q \in Owners : itr'[q] # 0 => Does(q, "erase")'
    BY <2>2, <2>5 DEF ListInv, Does
  <2> QED BY <1>9, <2>4, <2>6, PopValueOrder DEF ListInv
<1>10. ASSUME NEW o \in Owners, UnlockList(o) PROVE ListInv'
  <2>1. /\ Does(o, "release") /\ Done(o) /\ mLock' = None
        /\ UNCHANGED <<mList, mSize, itr, values>>
    BY <1>10 DEF UnlockList
  <2>2. ~InList(o)' /\ \A q \in Owners \ {o} : todo'[q] = todo[q]
    BY <2>1, AfterStep
  <2>3. mLock = o
    BY <2>1 DEF InList, ListInv
  <2>4. \A q \in Owners : ~InList(q)'
    BY <2>2, <2>3 DEF ListInv, InList, Does
  <2>5. ~Does(o, "erase")
    BY <2>1 DEF Does
  <2>6. \A q \in Owners : itr'[q] # 0 => Does(q, "erase")'
    BY <2>1, <2>2, <2>5 DEF ListInv, Does
  <2>7. ListInOrder'
    BY <2>1 DEF ListInv, ListInOrder, values
  <2> QED BY <2>1, <2>4, <2>6, <2>7, WorkerAssumption DEF ListInv
<1>11. CASE UNCHANGED <<todo, list, values>>
  BY <1>11 DEF ListInv, ListInOrder, InList, Does, list, values
<1>12. ASSUME NEW w, PopFront(w) PROVE ListInv'
  <2>1. CASE mList = <<>>
    BY <1>11, <1>12, <2>1 DEF PopFront, list, values
  <2>2. CASE mList # <<>>
    <3>1. ListInOrder'
      BY <1>12, <2>2, PopFrontOrder DEF PopFront
    <3>2. UNCHANGED <<todo, mLock, itr>>
      BY <1>12 DEF PopFront
    <3> QED BY <3>1, <3>2 DEF ListInv, InList, Does
  <2> QED BY <2>1, <2>2
<1>13. ASSUME NEW w, Begin(w) \/ Loop(w) \/ Wait(w) \/ Wake(w) PROVE UNCHANGED <<todo, list, values>>
  BY <1>13 DEF Begin, Loop, Wait, Wake
<1>14. UNCHANGED vars => UNCHANGED <<todo, list, values>>
  BY DEF vars
<1> QED BY <1>1, <1>3, <1>4, <1>5, <1>6, <1>7, <1>8, <1>9, <1>10, <1>11, <1>12, <1>13, <1>14
        DEF Next, OwnerStep, ThreadStep

-----------------------------------------------------------------------------
(* The types.                                                              *)

(* The lock and what is to be done are where the plans say.                *)
TodoShape ==
  /\ DOMAIN todo = Owners /\ todo = [o \in Owners |-> todo[o]]
  /\ \E h \in Owners \cup {None}, n \in Nat : m_lock = [owner |-> h, count |-> n]

TodoTypes ==
  /\ todo \in [Owners -> UNION {Suffixes(work) : work \in Works}]
  /\ m_lock \in [owner : Owners \cup {None}, count : 0..2]

LEMMA PlansTyped == LockInv /\ TodoShape => TodoTypes
<1> SUFFICES ASSUME LockInv, TodoShape PROVE TodoTypes
  OBVIOUS
<1>1. ASSUME NEW o \in Owners
      PROVE  /\ todo[o] \in UNION {Suffixes(work) : work \in Works}
             /\ Level(o) \in 0..2
  <2>1. PICK plan \in Plans, l \in Nat : l \in 1..(Len(plan.work) + 1) /\ On(o, plan, l)
    BY RestOf DEF LockInv
  <2>2. plan.level[l] \in 0..2
    <3>1. CASE l = Len(plan.work) + 1
      BY <3>1, PlanSteps DEF Levels
    <3>2. CASE l # Len(plan.work) + 1
      BY <2>1, <3>2, RestOf, PlanSteps DEF Levels
    <3> QED BY <3>1, <3>2
  <2> QED BY <2>1, <2>2, RestOf DEF On
<1>2. PICK h \in Owners \cup {None}, n \in Nat : m_lock = [owner |-> h, count |-> n]
  BY DEF TodoShape
<1>3. m_lock.count \in 0..2
  <2>1. CASE h = None
    BY <1>2, <2>1 DEF LockInv
  <2>2. CASE h \in Owners
    BY <1>1, <1>2, <2>2 DEF Level
  <2> QED BY <2>1, <2>2
<1> QED BY <1>1, <1>2, <1>3 DEF TodoShape, TodoTypes

LEMMA TodoTypeStep ==
  ASSUME TypeOK, LockInv', [Next]_vars
  PROVE  m_bInit' \in BOOLEAN /\ TodoTypes'
<1>1. ASSUME NEW o \in Owners, Choose(o) \/ OwnerStep(o)
      PROVE  \E rest : todo' = [todo EXCEPT ![o] = rest]
  BY <1>1 DEF Choose, OwnerStep, Lock, Unlock, Start, Create, LowerFlag, Join, Forget, Signal,
       PushBack, LockList, FindValue, PopValueUnSafe, UnlockList, Done
<1>2. ASSUME NEW w, ThreadStep(w) PROVE UNCHANGED todo
  BY <1>2 DEF ThreadStep, Begin, Loop, PopFront, Wait, Wake
<1>3. DOMAIN todo' = Owners /\ todo' = [o \in Owners |-> todo'[o]]
  <2>1. todo = [o \in Owners |-> todo[o]] /\ DOMAIN todo = Owners
    BY DEF TypeOK
  <2>2. ASSUME NEW o \in Owners, NEW rest, todo' = [todo EXCEPT ![o] = rest]
        PROVE  DOMAIN todo' = Owners /\ todo' = [q \in Owners |-> todo'[q]]
    BY <2>1, <2>2
  <2>3. UNCHANGED vars => UNCHANGED todo
    BY DEF vars
  <2> QED BY <1>1, <1>2, <2>1, <2>2, <2>3 DEF Next
<1>4. /\ m_bInit' \in BOOLEAN
      /\ \E h \in Owners \cup {None}, n \in Nat : m_lock' = [owner |-> h, count |-> n]
  <2>1. /\ m_bInit \in BOOLEAN
        /\ m_lock = [owner |-> m_lock.owner, count |-> m_lock.count]
        /\ m_lock.owner \in Owners \cup {None} /\ m_lock.count \in 0..2
    BY DEF TypeOK
  <2>2. CASE UNCHANGED lock
    BY <2>1, <2>2 DEF lock
  <2>3. ASSUME NEW o \in Owners, Lock(o)
        PROVE  /\ UNCHANGED m_bInit
               /\ UNCHANGED m_lock \/ m_lock' = [owner |-> o, count |-> m_lock.count + 1]
    BY <2>3 DEF Lock
  <2>4. ASSUME NEW o \in Owners, Unlock(o)
        PROVE  /\ UNCHANGED m_bInit
               /\ m_lock.count # 0
               /\ \E h \in {None, o} : m_lock' = [owner |-> h, count |-> m_lock.count - 1]
    <3>1. /\ UNCHANGED m_bInit
          /\ m_lock' = [owner |-> IF m_lock.count = 1 THEN None ELSE o, count |-> m_lock.count - 1]
      BY <2>4 DEF Unlock
    <3>2. m_lock.count # 0
      <4> SUFFICES ASSUME m_lock.count = 0 PROVE FALSE
        OBVIOUS
      <4>1. m_lock'.owner = o /\ m_lock'.count = -1
        BY <3>1
      <4>2. Level(o)' = -1
        BY <4>1 DEF Level
      <4>3. PICK plan \in Plans, l \in Nat : l \in 1..(Len(plan.work) + 1) /\ On(o, plan, l)'
        BY RestOf DEF LockInv
      <4>4. plan.level[l] \in 0..2
        <5>1. CASE l = Len(plan.work) + 1
          BY <5>1, PlanSteps DEF Levels
        <5>2. CASE l # Len(plan.work) + 1
          BY <4>3, <5>2, RestOf, PlanSteps DEF Levels
        <5> QED BY <5>1, <5>2
      <4> QED BY <4>2, <4>3, <4>4 DEF On
    <3> QED BY <3>1, <3>2
  <2>5. ASSUME NEW o \in Owners, Choose(o) \/ OwnerStep(o), ~Lock(o), ~Unlock(o)
        PROVE  UNCHANGED lock
    BY <2>5 DEF Choose, OwnerStep, Start, Create, LowerFlag, Join, Forget, Signal,
         PushBack, LockList, FindValue, PopValueUnSafe, UnlockList
  <2>6. ASSUME NEW w, ThreadStep(w) PROVE UNCHANGED lock
    BY <2>6 DEF ThreadStep, Begin, Loop, PopFront, Wait, Wake
  <2>7. UNCHANGED vars => UNCHANGED lock
    BY DEF vars
  <2>8. ASSUME NEW o \in Owners, Choose(o) \/ OwnerStep(o)
        PROVE  /\ m_bInit' \in BOOLEAN
               /\ \E h \in Owners \cup {None}, n \in Nat : m_lock' = [owner |-> h, count |-> n]
    <3>1. CASE Lock(o)
      BY <2>1, <2>3, <3>1
    <3>2. CASE Unlock(o)
      <4>1. m_lock.count - 1 \in Nat
        BY <2>1, <2>4, <3>2
      <4> QED BY <2>1, <2>4, <3>2, <4>1
    <3> QED BY <2>2, <2>5, <2>8, <3>1, <3>2
  <2> QED BY <2>2, <2>6, <2>7, <2>8 DEF Next
<1>5. (LockInv /\ TodoShape => TodoTypes)'
  BY PlansTyped, PTL
<1> QED BY <1>3, <1>4, <1>5 DEF TodoShape

(* The remaining conjuncts, by the group of variables.                     *)
ThreadTypes ==
  /\ m_pthread_t \in 0..Len(threads) /\ m_pKRunnable \in BOOLEAN
  /\ threads \in Seq({"begun", "loop", "pop", "wait", "asleep", "ended"})
  /\ running \in BOOLEAN

LEMMA ThreadTypeStep ==
  ASSUME TypeOK, [Next]_vars
  PROVE  ThreadTypes'
<1> DEFINE Places == {"begun", "loop", "pop", "wait", "asleep", "ended"}
<1>1. ThreadTypes /\ Len(threads) \in Nat /\ threads \in [1..Len(threads) -> Places]
      /\ DOMAIN threads = 1..Len(threads)
  BY LenProperties DEF TypeOK, ThreadTypes
<1>2. CASE UNCHANGED kthread /\ running' \in BOOLEAN
  BY <1>1, <1>2 DEF ThreadTypes, kthread
<1>3. ASSUME NEW o \in Owners,
             \/ Choose(o) \/ Lock(o) \/ Unlock(o) \/ LowerFlag(o) \/ Join(o) \/ PushBack(o)
             \/ LockList(o) \/ FindValue(o) \/ PopValueUnSafe(o) \/ UnlockList(o)
      PROVE  UNCHANGED kthread /\ running' \in BOOLEAN
  BY <1>1, <1>3 DEF Choose, Lock, Unlock, LowerFlag, Join, PushBack, LockList, FindValue,
       PopValueUnSafe, UnlockList, ThreadTypes
<1>4. ASSUME NEW o \in Owners, Start(o) \/ Forget(o) PROVE ThreadTypes'
  <2>1. m_pKRunnable' \in BOOLEAN /\ running' \in BOOLEAN
    BY <1>1, <1>4 DEF Start, Forget, ThreadTypes
  <2>2. UNCHANGED threads /\ (UNCHANGED m_pthread_t \/ m_pthread_t' = 0)
    BY <1>4 DEF Start, Forget
  <2> QED BY <1>1, <2>1, <2>2 DEF ThreadTypes
<1>5. ASSUME NEW o \in Owners, Create(o) PROVE ThreadTypes'
  <2>1. /\ Append(threads, "begun") \in Seq(Places)
        /\ Len(Append(threads, "begun")) = Len(threads) + 1
    BY <1>1, AppendProperties DEF ThreadTypes
  <2> QED BY <1>1, <1>5, <2>1 DEF Create, ThreadTypes
<1>6. ASSUME NEW p, threads' = p, p \in [1..Len(threads) -> Places],
             UNCHANGED <<m_pthread_t, m_pKRunnable, running>>
      PROVE  ThreadTypes'
  <2>1. p \in Seq(Places) /\ Len(p) = Len(threads)
    BY <1>1, <1>6
  <2> QED BY <1>1, <1>6, <2>1 DEF ThreadTypes
<1>7. ASSUME NEW o \in Owners, Signal(o) PROVE ThreadTypes'
  <2>1. [w \in DOMAIN threads |-> IF threads[w] = "asleep" THEN "loop" ELSE threads[w]]
          \in [1..Len(threads) -> Places]
    BY <1>1
  <2> QED BY <1>6, <1>7, <2>1 DEF Signal
<1>8. ASSUME NEW w, ThreadStep(w) PROVE ThreadTypes'
  <2>1. ASSUME NEW place \in Places PROVE [threads EXCEPT ![w] = place] \in [1..Len(threads) -> Places]
    BY <1>1, <2>1
  <2>2. /\ \E place \in Places : threads' = [threads EXCEPT ![w] = place]
        /\ UNCHANGED <<m_pthread_t, m_pKRunnable, running>>
    BY <1>8 DEF ThreadStep, Begin, Loop, PopFront, Wait, Wake, Goto
  <2> QED BY <1>6, <2>1, <2>2
<1>9. UNCHANGED vars => UNCHANGED kthread /\ running' \in BOOLEAN
  BY <1>1 DEF vars, ThreadTypes
<1> QED BY <1>2, <1>3, <1>4, <1>5, <1>7, <1>8, <1>9 DEF Next, OwnerStep

ListTypes ==
  /\ mList \in Seq(1..pushed) /\ mLock \in Owners \cup {None}
  /\ itr \in [Owners -> 0..pushed]
  /\ pushed \in 0..MaxValues /\ handled \in Seq(1..pushed)
  /\ cancelled \subseteq 1..pushed

LEMMA ListTypeStep ==
  ASSUME TypeOK, [Next]_vars
  PROVE  ListTypes'
<1>1. ListTypes
  BY DEF TypeOK, ListTypes
<1>2. CASE UNCHANGED <<list, values>>
  BY <1>1, <1>2 DEF ListTypes, list, values
<1>3. ASSUME NEW o \in Owners,
             \/ Choose(o) \/ Lock(o) \/ Unlock(o) \/ Start(o) \/ Create(o) \/ LowerFlag(o)
             \/ Join(o) \/ Forget(o) \/ Signal(o)
      PROVE  UNCHANGED <<list, values>>
  BY <1>3 DEF Choose, Lock, Unlock, Start, Create, LowerFlag, Join, Forget, Signal
<1>4. ASSUME NEW o \in Owners, LockList(o) \/ UnlockList(o) PROVE ListTypes'
  BY <1>1, <1>4 DEF LockList, UnlockList, ListTypes, values
<1>5. ASSUME NEW o \in Owners, PushBack(o) PROVE ListTypes'
  <2>1. pushed' = pushed + 1 /\ pushed' \in 0..MaxValues /\ pushed \in Nat
    BY <1>1, <1>5, WorkerAssumption DEF PushBack, ListTypes
  <2>2. 1..pushed \subseteq 1..pushed' /\ 0..pushed \subseteq 0..pushed' /\ pushed' \in 1..pushed'
    BY <2>1
  <2>3. mList \in Seq(1..pushed') /\ handled \in Seq(1..pushed')
    BY <1>1, <2>2, SeqMonotonic DEF ListTypes
  <2>4. mList' \in Seq(1..pushed')
    BY <1>5, <2>1, <2>2, <2>3, AppendProperties DEF PushBack
  <2>5. itr \in [Owners -> 0..pushed']
    BY <1>1, <2>2 DEF ListTypes
  <2>6. cancelled \subseteq 1..pushed'
    BY <1>1, <2>2 DEF ListTypes
  <2>7. UNCHANGED <<mLock, itr, handled, cancelled>>
    BY <1>5 DEF PushBack
  <2> QED BY <1>1, <2>1, <2>3, <2>4, <2>5, <2>6, <2>7 DEF ListTypes
<1>6. ASSUME NEW o \in Owners, FindValue(o) PROVE ListTypes'
  <2>1. PICK v \in ToSet(mList) \cup {0} : itr' = [itr EXCEPT ![o] = v]
    BY <1>6 DEF FindValue
  <2>2. v \in 0..pushed
    BY <1>1, <2>1, LenProperties, ElementOfSeq DEF ToSet, ListTypes
  <2> QED BY <1>1, <1>6, <2>1, <2>2 DEF FindValue, ListTypes, values
<1>7. ASSUME NEW o \in Owners, PopValueUnSafe(o) PROVE ListTypes'
  <2>1. itr[o] \in 0..pushed
    BY <1>1 DEF ListTypes
  <2>2. mList' \in Seq(1..pushed)
    <3>1. ASSUME NEW i \in DOMAIN mList PROVE RemoveAt(mList, i) \in Seq(1..pushed)
      BY <1>1, LenProperties, RemoveAtProperties DEF ListTypes
    <3> QED BY <1>1, <1>7, <3>1 DEF PopValueUnSafe, ListTypes
  <2>3. cancelled' \subseteq 1..pushed
    <3>1. UNCHANGED cancelled \/ (itr[o] # 0 /\ cancelled' = cancelled \cup {itr[o]})
      BY <1>7 DEF PopValueUnSafe
    <3>2. pushed \in Nat /\ cancelled \subseteq 1..pushed
      BY <1>1, WorkerAssumption DEF ListTypes
    <3>3. itr[o] # 0 => itr[o] \in 1..pushed
      BY <2>1, <3>2
    <3>4. CASE UNCHANGED cancelled
      BY <3>2, <3>4
    <3>5. CASE itr[o] # 0 /\ cancelled' = cancelled \cup {itr[o]}
      BY <3>2, <3>3, <3>5
    <3> QED BY <3>1, <3>4, <3>5
  <2>4. itr' = [itr EXCEPT ![o] = 0] /\ UNCHANGED <<mLock, pushed, handled>>
    BY <1>7 DEF PopValueUnSafe
  <2>5. itr' \in [Owners -> 0..pushed]
    BY <1>1, <2>4 DEF ListTypes
  <2> QED BY <1>1, <2>2, <2>3, <2>4, <2>5 DEF ListTypes
<1>8. ASSUME NEW w, PopFront(w) PROVE ListTypes'
  <2>1. CASE mList = <<>>
    BY <1>2, <1>8, <2>1 DEF PopFront, list, values
  <2>2. CASE mList # <<>>
    <3>1. Head(mList) \in 1..pushed /\ Tail(mList) \in Seq(1..pushed)
      BY <1>1, <2>2, HeadTailProperties DEF ListTypes
    <3>2. Append(handled, Head(mList)) \in Seq(1..pushed)
      BY <1>1, <3>1, AppendProperties DEF ListTypes
    <3> QED BY <1>1, <1>8, <2>2, <3>1, <3>2 DEF PopFront, ListTypes
  <2> QED BY <2>1, <2>2
<1>9. ASSUME NEW w, Begin(w) \/ Loop(w) \/ Wait(w) \/ Wake(w) PROVE UNCHANGED <<list, values>>
  BY <1>9 DEF Begin, Loop, Wait, Wake
<1>10. UNCHANGED vars => UNCHANGED <<list, values>>
  BY DEF vars
<1> QED BY <1>2, <1>3, <1>4, <1>5, <1>6, <1>7, <1>8, <1>9, <1>10 DEF Next, OwnerStep, ThreadStep

-----------------------------------------------------------------------------
(* The invariant, and what it gives.                                       *)

LEMMA InitInv == Init => IInv
<1> SUFFICES ASSUME Init PROVE IInv
  OBVIOUS
<1>1. /\ \A o \in Owners : todo[o] = <<>> /\ itr[o] = 0
      /\ m_lock.owner = None /\ m_lock.count = 0
      /\ threads = <<>> /\ mList = <<>> /\ handled = <<>> /\ pushed = 0 /\ cancelled = {}
      /\ mSize = 0 /\ mLock = None
  BY DEF Init
<1>2. LockInv
  <2>1. PICK plan : plan \in Plans
    BY DEF Plans
  <2>2. /\ Len(plan.work) + 1 \in 1..(Len(plan.work) + 1)
        /\ Rest(plan, Len(plan.work) + 1) = <<>>
    BY <2>1, RestOf, RestAt
  <2>3. \A o \in Owners : On(o, plan, Len(plan.work) + 1)
    BY <1>1, <2>1, <2>2, PlanSteps DEF On, Level, Levels
  <2> QED BY <1>1, <2>1, <2>2, <2>3 DEF LockInv
<1>3. TypeOK
  <2>1. m_lock = [owner |-> None, count |-> 0] /\ 0 \in Nat /\ None \in Owners \cup {None}
    BY DEF Init
  <2>2. DOMAIN todo = Owners /\ todo = [o \in Owners |-> todo[o]]
    BY DEF Init
  <2>3. TodoTypes
    BY <1>2, <2>1, <2>2, PlansTyped DEF TodoShape
  <2>4. itr \in [Owners -> 0..pushed] /\ pushed \in 0..MaxValues
    BY WorkerAssumption DEF Init
  <2>5. /\ threads \in Seq({"begun", "loop", "pop", "wait", "asleep", "ended"}) /\ Len(threads) = 0
        /\ mList \in Seq(1..pushed) /\ handled \in Seq(1..pushed)
    BY <1>1, EmptySeq
  <2>6. /\ m_bInit \in BOOLEAN /\ m_pKRunnable \in BOOLEAN /\ running \in BOOLEAN
    BY DEF Init
  <2>7. m_pthread_t \in 0..Len(threads) /\ mSize \in Nat
    BY <2>5 DEF Init
  <2>8. mLock \in Owners \cup {None} /\ cancelled \subseteq 1..pushed
    BY <1>1
  <2> QED BY <2>3, <2>4, <2>5, <2>6, <2>7, <2>8 DEF TodoTypes, TypeOK
<1>4. ThreadInv
  BY <1>1 DEF ThreadInv, OneThread, Does
<1>5. ListInv
  <2>1. handled \o mList = <<>> /\ Len(mList) = 0
    BY <1>1
  <2>2. ListInOrder
    BY <1>1, <2>1 DEF ListInOrder, Increasing, Contains
  <2> QED BY <1>1, <2>2, WorkerAssumption DEF ListInv, InList, Does
<1> QED BY <1>2, <1>3, <1>4, <1>5 DEF IInv

LEMMA NextInv == IInv /\ [Next]_vars => IInv'
<1> SUFFICES ASSUME IInv, [Next]_vars PROVE IInv'
  OBVIOUS
<1>1. LockInv' /\ ThreadInv' /\ ListInv'
  BY LockInvStep, ThreadInvStep, ListInvStep DEF IInv
<1>2. mSize' \in Nat
  <2>1. mList' \in Seq(1..pushed')
    BY ListTypeStep DEF IInv, ListTypes
  <2> QED BY <1>1, <2>1, LenProperties DEF ListInv, ListInOrder
<1>3. TypeOK'
  BY <1>1, <1>2, TodoTypeStep, ThreadTypeStep, ListTypeStep
  DEF IInv, TypeOK, TodoTypes, ThreadTypes, ListTypes
<1> QED BY <1>1, <1>3 DEF IInv

LEMMA InvariantAlways == Spec => []IInv
BY InitInv, NextInv, PTL DEF Spec

(* Locks are held by owners, at most twice over, and threads and values    *)
(* are where they can be (IAutoLock.cpp:87-119, KThread.cpp, KSafeList.h). *)
THEOREM WorkerTypes == Spec => []TypeOK
<1>1. IInv => TypeOK
  BY DEF IInv
<1> QED BY <1>1, InvariantAlways, PTL

(* However many owners start, stop and restart it, there is never more     *)
(* than one thread that has not ended, and it is the one KThread knows     *)
(* (KThread.cpp:40-74).                                                    *)
THEOREM OneThreadAlways == Spec => []OneThread
<1>1. IInv => OneThread
  BY DEF IInv, ThreadInv
<1> QED BY <1>1, InvariantAlways, PTL

(* However many values are pushed and taken back, none is lost, handled    *)
(* twice or out of order, and no iterator goes stale under the list's lock *)
(* (KSafeList.h:33-89).                                                    *)
THEOREM ListAlwaysInOrder == Spec => []ListInOrder
<1>1. IInv => ListInOrder
  BY DEF IInv, ListInv
<1> QED BY <1>1, InvariantAlways, PTL
=============================================================================
