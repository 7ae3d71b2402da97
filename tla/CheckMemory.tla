------------------------------ MODULE CheckMemory ------------------------------
(***************************************************************************)
(* The allocation checker (CheckMemoryLeak.cpp, CheckMemoryList.cpp): new  *)
(* and delete of a program built with _CHECK_MEMORY_LEAK, by several       *)
(* threads, and the report made at the end, when only its own thread is    *)
(* left.  An operation of an AllocList is one step, under its lock; those  *)
(* of the DataList take no lock.                                           *)
(*                                                                         *)
(* A block is known by its address; malloc gives out the lowest that is    *)
(* free, so that addresses are used again.  The program may leak a block,  *)
(* write past its end, and delete again what is freed and not given out.   *)
(***************************************************************************)
EXTENDS Integers, Sequences, FiniteSets, FiniteSetsExt, SequencesExt

CONSTANTS
  Threads,      (* the program's threads                                    *)
  Main,         (* the thread of the report                                 *)
  Blocks,       (* the addresses malloc gives out                           *)
  MaxNew,       (* bounds the program's allocations                         *)
  MaxLost       (* bounds the deletes of what is not allocated              *)

ASSUME CheckAssumption ==
  /\ Blocks \subseteq Nat \ {0} /\ Main \notin Threads
  /\ MaxNew \in Nat /\ MaxLost \in Nat

VARIABLES
  heap,         (* the blocks malloc has given out                          *)
  live,         (* those of them the program has and has not deleted        *)
  damaged,      (* those with an overwritten check code                     *)
  g_allocList, g_boundList,
  g_lostList,   (* its items, each a block of its own                       *)
  call,         (* where each thread is in MyDelete or the report, with     *)
                (* what (p), and the item it inserts and the one before it  *)
  news, lost,   (* the program's allocations; what it deleted in vain       *)
  told,         (* what the report has said                                 *)
  raced         (* have two threads been inside DataList::Insert at once?   *)

memory == <<heap, live, damaged>>
history == <<news, lost, told, raced>>
vars == <<memory, g_allocList, g_boundList, g_lostList, call, history>>

NoItem == [block |-> 0, data |-> 0]
Idle == [at |-> "out", p |-> 0, item |-> NoItem, last |-> NoItem]

Init ==
  /\ heap = {} /\ live = {} /\ damaged = {}
  /\ g_allocList = <<>> /\ g_boundList = <<>> /\ g_lostList = <<>>
  /\ call = [t \in Threads \cup {Main} |-> Idle]
  /\ news = 0 /\ lost = <<>>
  /\ told = [leaks |-> {}, bounds |-> {}, lost |-> {}]
  /\ raced = FALSE

At(t, place) == call[t].at = place
Goto(t, place) == call' = [call EXCEPT ![t].at = place]

(* The program runs until the report begins.                               *)
Running(t) == At(t, "out") /\ At(Main, "out")

-----------------------------------------------------------------------------
(* MyAlloc: malloc, the header and the end, and the list.                  *)
Fresh == Min(Blocks \ heap)

MyAlloc ==
  /\ Blocks \ heap # {}
  /\ heap' = heap \cup {Fresh}
  /\ g_allocList' = Append(g_allocList, Fresh)

New(t) ==
  /\ Running(t) /\ news < MaxNew
  /\ MyAlloc
  /\ live' = live \cup {Fresh}
  /\ news' = news + 1
  /\ UNCHANGED <<damaged, g_boundList, g_lostList, call, lost, told, raced>>

(* The program writes past the end of a block.                             *)
Damage(t) ==
  /\ Running(t)
  /\ \E block \in live : damaged' = damaged \cup {block}
  /\ UNCHANGED <<heap, live, g_allocList, g_boundList, g_lostList, call, history>>

(* Mutant: what is not in the list is freed all the same.                  *)
BeginUnchecked(t, data) ==
  call' = [call EXCEPT ![t] = [Idle EXCEPT !.at = "remove", !.p = data]]

(* AllocList::Has, the first step of MyDelete.                             *)
Begin(t, data) ==
  call' = [call EXCEPT ![t] =
             [Idle EXCEPT !.at = IF Contains(g_allocList, data)
                                   THEN "remove" ELSE "lost",
                          !.p = data]]

(* The program's delete: of a block it has, or in vain.                    *)
Delete(t) ==
  /\ Running(t)
  /\ \/ \E block \in live :
          Begin(t, block) /\ live' = live \ {block} /\ UNCHANGED lost
     \/ /\ Len(lost) < MaxLost
        /\ \E block \in Blocks \ heap :
             Begin(t, block) /\ lost' = Append(lost, block)
        /\ UNCHANGED live
  /\ UNCHANGED <<heap, damaged, g_allocList, g_boundList, g_lostList, news, told, raced>>

(* MyDelete is over: the program goes on, or the report with its loop.     *)
Return(t) ==
  call' = [call EXCEPT ![t] =
             [Idle EXCEPT !.at = IF t = Main THEN "lostList" ELSE "out"]]

(* A list without the first item of a block.                               *)
Without(list, block) ==
  IF Contains(list, block)
    THEN RemoveAt(list, Min({i \in 1..Len(list) : list[i] = block}))
    ELSE list

(* Mutant: the head is not moved when it is the only item.                 *)
GetAndRemoveKeeps(t) ==
  /\ At(t, "remove")
  /\ g_allocList' = IF Len(g_allocList) = 1
                      THEN g_allocList ELSE Without(g_allocList, call[t].p)
  /\ Goto(t, IF call[t].p \in damaged THEN "bound" ELSE "free")
  /\ UNCHANGED <<memory, g_boundList, g_lostList, history>>

(* AllocList::GetAndRemove, and the two check codes.                       *)
GetAndRemove(t) ==
  /\ At(t, "remove")
  /\ g_allocList' = Without(g_allocList, call[t].p)
  /\ Goto(t, IF call[t].p \in damaged THEN "bound" ELSE "free")
  /\ UNCHANGED <<memory, g_boundList, g_lostList, history>>

(* Mutant: the insertion into the list replaces its head.                  *)
InsertBoundHead(t) ==
  /\ At(t, "bound")
  /\ g_boundList' = <<call[t].p>>
  /\ Return(t)
  /\ UNCHANGED <<memory, g_allocList, g_lostList, history>>

(* A block with a broken check code is kept, and never freed.              *)
InsertBound(t) ==
  /\ At(t, "bound")
  /\ g_boundList' = Append(g_boundList, call[t].p)
  /\ Return(t)
  /\ UNCHANGED <<memory, g_allocList, g_lostList, history>>

Free(t) ==
  /\ At(t, "free")
  /\ heap' = heap \ {call[t].p}
  /\ Return(t)
  /\ UNCHANGED <<live, damaged, g_allocList, g_boundList, g_lostList, history>>

-----------------------------------------------------------------------------
(* Mutant: the item is allocated by malloc, and still deleted.             *)
NewItemByMalloc(t) ==
  /\ At(t, "lost")
  /\ Blocks \ heap # {}
  /\ heap' = heap \cup {Fresh}
  /\ call' = [call EXCEPT ![t].item = [block |-> Fresh, data |-> call[t].p],
                          ![t].at = IF g_lostList = <<>> THEN "head" ELSE "walk"]
  /\ UNCHANGED <<live, damaged, g_allocList, g_boundList, g_lostList, history>>

(* Another thread is between its look at the head and its link.            *)
Races(t) ==
  \E u \in (Threads \cup {Main}) \ {t} : call[u].at \in {"head", "walk", "link"}

(* Mutant: the new item becomes the head, whether there is one or not.     *)
NewItemFirst(t) ==
  /\ At(t, "lost")
  /\ MyAlloc
  /\ call' = [call EXCEPT ![t].item = [block |-> Fresh, data |-> call[t].p],
                          ![t].at = "head"]
  /\ raced' = (raced \/ Races(t))
  /\ UNCHANGED <<live, damaged, g_boundList, g_lostList, news, lost, told>>

(* DataList::Insert: is there a head, a new item by the operator new that  *)
(* is checked like all others, the walk to the last item, the link.        *)
NewItem(t) ==
  /\ At(t, "lost")
  /\ MyAlloc
  /\ call' = [call EXCEPT ![t].item = [block |-> Fresh, data |-> call[t].p],
                          ![t].at = IF g_lostList = <<>> THEN "head" ELSE "walk"]
  /\ raced' = (raced \/ Races(t))
  /\ UNCHANGED <<live, damaged, g_boundList, g_lostList, news, lost, told>>

(* The head is replaced, whatever has been put there in between.           *)
SetHead(t) ==
  /\ At(t, "head")
  /\ g_lostList' = <<call[t].item>>
  /\ Return(t)
  /\ UNCHANGED <<memory, g_allocList, g_boundList, history>>

Walk(t) ==
  /\ At(t, "walk")
  /\ call' = [call EXCEPT ![t].last = Last(g_lostList), ![t].at = "link"]
  /\ UNCHANGED <<memory, g_allocList, g_boundList, g_lostList, history>>

(* What another thread has put behind the same item is cut off; an item    *)
(* that is no longer in the list takes the new one with it.                *)
Link(t) ==
  /\ At(t, "link")
  /\ IF Contains(g_lostList, call[t].last)
       THEN \E i \in 1..Len(g_lostList) :
              /\ g_lostList[i] = call[t].last
              /\ g_lostList' = Append(SubSeq(g_lostList, 1, i), call[t].item)
       ELSE UNCHANGED g_lostList
  /\ Return(t)
  /\ UNCHANGED <<memory, g_allocList, g_boundList, history>>

-----------------------------------------------------------------------------
(* OutputMemoryLeakInfo, when the program's threads are done.  It takes    *)
(* the lists apart and says what was in them; the blocks stay allocated.   *)
Report ==
  /\ \A t \in Threads \cup {Main} : At(t, "out")
  /\ Goto(Main, "leaks")
  /\ UNCHANGED <<memory, g_allocList, g_boundList, g_lostList, history>>

TellLeaks ==
  /\ At(Main, "leaks")
  /\ \/ /\ g_allocList # <<>>
        /\ told' = [told EXCEPT !.leaks = @ \cup {Head(g_allocList)}]
        /\ g_allocList' = Tail(g_allocList)
        /\ UNCHANGED call
     \/ g_allocList = <<>> /\ Goto(Main, "bounds") /\ UNCHANGED <<g_allocList, told>>
  /\ UNCHANGED <<memory, g_boundList, g_lostList, news, lost, raced>>

TellBounds ==
  /\ At(Main, "bounds")
  /\ \/ /\ g_boundList # <<>>
        /\ told' = [told EXCEPT !.bounds = @ \cup {Head(g_boundList)}]
        /\ g_boundList' = Tail(g_boundList)
        /\ UNCHANGED call
     \/ g_boundList = <<>> /\ Goto(Main, "lostList") /\ UNCHANGED <<g_boundList, told>>
  /\ UNCHANGED <<memory, g_allocList, g_lostList, news, lost, raced>>

(* DataList::GetHeadAndRemove deletes the item with the operator delete    *)
(* that is checked: an item allocated before the report is lost in turn.   *)
TellLost ==
  /\ At(Main, "lostList")
  /\ \/ /\ g_lostList # <<>>
        /\ told' = [told EXCEPT !.lost = @ \cup {Head(g_lostList).data}]
        /\ g_lostList' = Tail(g_lostList)
        /\ Begin(Main, Head(g_lostList).block)
     \/ g_lostList = <<>> /\ Goto(Main, "done") /\ UNCHANGED <<g_lostList, told>>
  /\ UNCHANGED <<memory, g_allocList, g_boundList, news, lost, raced>>

MyDelete(t) ==
  \/ GetAndRemove(t) \/ InsertBound(t) \/ Free(t)
  \/ NewItem(t) \/ SetHead(t) \/ Walk(t) \/ Link(t)

Next ==
  \/ \E t \in Threads : New(t)
  \/ \E t \in Threads : Damage(t)
  \/ \E t \in Threads : Delete(t)
  \/ \E t \in Threads \cup {Main} : MyDelete(t)
  \/ Report \/ TellLeaks \/ TellBounds \/ TellLost

Spec == Init /\ [][Next]_vars

(* The thread of the report is not kept from running.                      *)
FairSpec ==
  Spec /\ WF_vars(TellLeaks \/ TellBounds \/ TellLost \/ MyDelete(Main))

-----------------------------------------------------------------------------
(* Properties.                                                             *)

(* What the program has is allocated, and the lists hold addresses only    *)
(* (MyAlloc and MyDelete, CheckMemoryList.h:57-84).                        *)
TypeOK ==
  /\ live \subseteq heap /\ heap \subseteq Blocks /\ damaged \subseteq heap
  /\ g_allocList \in Seq(Blocks) /\ g_boundList \in Seq(Blocks)
  /\ g_lostList \in Seq([block : Blocks, data : Blocks])
  /\ \A t \in Threads \cup {Main} : call[t].p \in Blocks \cup {0}

(* Until the report, every block is in exactly one of the two lists or in  *)
(* the hands of the one thread that deletes it, and no list has a block    *)
(* twice or one that has been freed (CheckMemoryLeak.cpp:52, 70-89).       *)
InOnePlace ==
  LET deleting == {call[t].p : t \in {u \in Threads : At(u, "bound") \/ At(u, "free")}}
      alloc == ToSet(g_allocList)
      bound == ToSet(g_boundList)
  IN At(Main, "out") =>
       /\ heap = alloc \cup bound \cup deleting
       /\ alloc \cap bound = {} /\ (alloc \cup bound) \cap deleting = {}
       /\ IsInjective(g_allocList) /\ IsInjective(g_boundList)

(* The report names every block the program still has, and of the others   *)
(* no more than the checker's own items; and it names as out of bounds     *)
(* exactly what was deleted with a broken check code, however the threads' *)
(* deletes met (CheckMemoryLeak.cpp:78-82, 146-158).                       *)
ReportTellsLeaks ==
  At(Main, "done") =>
    /\ live \subseteq told.leaks
    /\ Cardinality(told.leaks \ live) <= Len(lost)
    /\ told.bounds = damaged \ live

(* The report comes to its end although its deletes put more into the list *)
(* it takes apart (CheckMemoryLeak.cpp:162-165, CheckMemoryList.cpp:288).  *)
ReportEnds == At(Main, "leaks") ~> At(Main, "done")

(* The report names all that was deleted in vain, unless two threads were  *)
(* inside DataList::Insert at once: that is the only way to lose an item   *)
(* (CheckMemoryLeak.cpp:91-92, 160-165, CheckMemoryList.cpp:245-277).      *)
LostUnlessRaced ==
  At(Main, "done") /\ ~raced => ToSet(lost) \subseteq told.lost
=============================================================================
