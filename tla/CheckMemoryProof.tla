--------------------------- MODULE CheckMemoryProof ---------------------------
(* The proofs about CheckMemory, for any number of threads, blocks,        *)
(* allocations and deletes in vain.                                        *)
EXTENDS CheckMemory, FiniteSetTheorems, SequenceTheorems, WellFoundedInduction, TLAPS

All == Threads \cup {Main}
Items == [block : Blocks, data : Blocks]

(* Where a thread is in MyDelete, and where the report is.                 *)
Deletes == {"remove", "bound", "free", "lost", "head", "walk", "link"}
Places == Deletes \cup {"out", "leaks", "bounds", "lostList", "done"}

Calls == [at : Places, p : Blocks \cup {0}, item : Items \cup {NoItem},
          last : Items \cup {NoItem}]

(* A thread has what it needs where it is.  The report deletes no block    *)
(* with a broken check code, and when it is made nothing else runs.        *)
Ready(c) ==
  /\ c.at \in Deletes => c.p \in Blocks
  /\ c.at \in {"head", "walk", "link"} => c.item \in Items /\ c.item.data = c.p

CallInv ==
  /\ call \in [All -> Calls]
  /\ \A t \in All : Ready(call[t])
  /\ \A t \in Threads : call[t].at \in Deletes \cup {"out"}
  /\ call[Main].at \in Places \ {"bound"}
  /\ ~At(Main, "out") => \A t \in Threads : At(t, "out")

Typed ==
  /\ live \subseteq heap /\ heap \subseteq Blocks /\ damaged \subseteq heap
  /\ g_allocList \in Seq(Blocks) /\ g_boundList \in Seq(Blocks)
  /\ g_lostList \in Seq(Items) /\ lost \in Seq(Blocks)
  /\ told \in [leaks : SUBSET Blocks, bounds : SUBSET Blocks, lost : SUBSET Blocks]

(* The report has done with the program's blocks.                          *)
Listed == call[Main].at \notin {"out", "leaks", "bounds"}

Alloc == ToSet(g_allocList)
Bound == ToSet(g_boundList)

Deleting(t) == At(t, "remove") \/ At(t, "bound") \/ At(t, "free")
Holding(t) == At(t, "bound") \/ At(t, "free")

(* A block is in one list or in the hands of one thread that deletes it.   *)
BlockInv ==
  /\ IsInjective(g_allocList) /\ IsInjective(g_boundList)
  /\ Alloc \subseteq heap /\ Bound \subseteq heap
  /\ Alloc \cap Bound = {} /\ Bound \cap live = {}
  /\ \A t \in All : At(t, "remove") => call[t].p \in Alloc \ live
  /\ \A t \in All : Holding(t) => call[t].p \in heap \ (Alloc \cup Bound \cup live)
  /\ \A t, u \in All : t # u /\ Deleting(t) /\ Deleting(u) => call[t].p # call[u].p
  /\ At(Main, "out") =>
       /\ told.leaks = {}
       /\ \A b \in heap : b \in Alloc \cup Bound \/ \E t \in All : Holding(t) /\ call[t].p = b

(* What the report has told and will tell.                                 *)
ReportInv ==
  /\ live \subseteq told.leaks \cup Alloc
  /\ At(Main, "bounds") => Alloc = {}
  /\ Listed => Alloc \cap (live \cup damaged) = {} /\ g_boundList = <<>>
  /\ At(Main, "done") => g_lostList = <<>>

(* What was deleted with a broken check code is listed, or is being so.    *)
Breaking(b) == \E t \in All : (At(t, "remove") \/ At(t, "bound")) /\ call[t].p = b

BoundsInv ==
  /\ \A t \in All : At(t, "bound") => call[t].p \in damaged
  /\ \A t \in All : At(t, "free") => call[t].p \notin damaged
  /\ \A b \in Blocks :
       b \in damaged \ live <=>
         b \in told.bounds \cup Bound \/ (b \in damaged /\ Breaking(b))

(* The checker's own items, as far as the report can name them, are no     *)
(* more than the deletes in vain that have allocated theirs.               *)
Removing(b) == \E t \in All : At(t, "remove") /\ call[t].p = b
Own ==
  IF Listed THEN told.leaks \ live
            ELSE {b \in told.leaks \cup Alloc : b \notin live /\ ~Removing(b)}
Waiting == {t \in Threads : At(t, "lost")}

OwnInv ==
  /\ IsFiniteSet(Own) /\ IsFiniteSet(Waiting)
  /\ Cardinality(Own) + Cardinality(Waiting) <= Len(lost)

(* The items of the DataList are blocks of their own, and a thread walks   *)
(* only where there is an item.                                            *)
Inserting(t) == At(t, "head") \/ At(t, "walk") \/ At(t, "link")

BlocksOf(list) == {list[i].block : i \in 1..Len(list)}
DataOf(list) == {list[i].data : i \in 1..Len(list)}
Apart(list) == \A i, j \in 1..Len(list) : list[i].block = list[j].block => i = j

ItemBlock(b) ==
  b \in BlocksOf(g_lostList) \/ \E t \in All : Inserting(t) /\ call[t].item.block = b

ItemInv ==
  /\ Apart(g_lostList)
  /\ \A t \in All : Inserting(t) => call[t].item.block \notin BlocksOf(g_lostList)
  /\ \A t, u \in All :
       t # u /\ Inserting(t) /\ Inserting(u) => call[t].item.block # call[u].item.block
  /\ \A b \in Blocks :
       ItemBlock(b) => b \in heap \ live /\ \A t \in All : Deleting(t) => call[t].p # b
  /\ \A t \in All : At(t, "walk") => g_lostList # <<>>

(* Alone, a thread finds the list as it has seen it.                       *)
Pending(b) == \E t \in All : (At(t, "lost") \/ Inserting(t)) /\ call[t].p = b

LostInv ==
  ~raced =>
    /\ \A t, u \in All : Inserting(t) /\ Inserting(u) => t = u
    /\ \A t \in All : At(t, "head") => g_lostList = <<>>
    /\ \A t \in All : At(t, "link") => g_lostList # <<>> /\ call[t].last = Last(g_lostList)
    /\ \A b \in Blocks :
         b \in ToSet(lost) => b \in told.lost \cup DataOf(g_lostList) \/ Pending(b)

IInv ==
  CallInv /\ Typed /\ BlockInv /\ ReportInv /\ BoundsInv /\ OwnInv /\ ItemInv /\ LostInv

-----------------------------------------------------------------------------
(* The lowest of a set, and the lists.                                     *)

LEMMA MinIsThere ==
  ASSUME NEW S, S \subseteq Nat, S # {}
  PROVE  Min(S) \in S /\ \A y \in S : Min(S) <= y
<1> DEFINE L == OpToRel(<, Nat)
<1>1. IsWellFoundedOn(L, Nat)
  BY NatLessThanWellFounded
<1>2. \A m, n \in Nat : m < n => <<m, n>> \in L
  BY DEF OpToRel
<1> HIDE DEF L
<1>3. PICK x \in S : \A y \in S : ~(<<y, x>> \in L)
  BY <1>1, WFMin
<1>4. \A y \in S : x <= y
  <2> SUFFICES ASSUME NEW y \in S, ~(x <= y) PROVE FALSE
    OBVIOUS
  <2>1. y \in Nat /\ x \in Nat /\ y < x
    OBVIOUS
  <2> QED BY <1>2, <1>3, <2>1
<1> QED BY <1>4 DEF Min

LEMMA FreshIsFree ==
  ASSUME Blocks \ heap # {}
  PROVE  Fresh \in Blocks \ heap
BY MinIsThere, CheckAssumption DEF Fresh

LEMMA ListMembers ==
  ASSUME NEW R, NEW s \in Seq(R)
  PROVE  /\ Len(s) \in Nat /\ DOMAIN s = 1..Len(s) /\ ToSet(s) \subseteq R
         /\ \A e : e \in ToSet(s) <=> \E i \in 1..Len(s) : s[i] = e
         /\ \A e : Contains(s, e) <=> e \in ToSet(s)
         /\ IsInjective(s) <=> \A i, j \in 1..Len(s) : s[i] = s[j] => i = j
BY LenProperties, ElementOfSeq DEF ToSet, Contains, IsInjective

LEMMA EmptyMembers ==
  /\ ToSet(<<>>) = {} /\ IsInjective(<<>>) /\ Apart(<<>>)
  /\ BlocksOf(<<>>) = {} /\ DataOf(<<>>) = {}
BY EmptySeq DEF ToSet, IsInjective, Apart, BlocksOf, DataOf

LEMMA AppendMembers ==
  ASSUME NEW R, NEW s \in Seq(R), NEW e \in R
  PROVE  /\ Append(s, e) \in Seq(R) /\ Append(s, e) # <<>>
         /\ ToSet(Append(s, e)) = ToSet(s) \cup {e}
         /\ IsInjective(s) /\ e \notin ToSet(s) => IsInjective(Append(s, e))
<1> DEFINE t == Append(s, e)
<1>1. /\ t \in Seq(R) /\ Len(t) = Len(s) + 1 /\ Len(s) \in Nat /\ t[Len(s) + 1] = e
      /\ \A i \in 1..Len(s) : t[i] = s[i]
  BY AppendProperties, LenProperties
<1>2. \A i \in 1..Len(t) : i \in 1..Len(s) \/ i = Len(s) + 1
  BY <1>1
<1> HIDE DEF t
<1>3. ToSet(t) = ToSet(s) \cup {e}
  BY <1>1, <1>2, ListMembers, SMT
<1>4. IsInjective(s) /\ e \notin ToSet(s) => IsInjective(t)
  BY <1>1, <1>2, ListMembers, SMT
<1>5. t # <<>>
  BY <1>1, EmptySeq
<1> QED BY <1>1, <1>3, <1>4, <1>5 DEF t

LEMMA TailMembers ==
  ASSUME NEW R, NEW s \in Seq(R), s # <<>>
  PROVE  /\ Head(s) \in ToSet(s) /\ Head(s) \in R /\ Tail(s) \in Seq(R)
         /\ ToSet(s) = ToSet(Tail(s)) \cup {Head(s)}
         /\ IsInjective(s) => IsInjective(Tail(s)) /\ Head(s) \notin ToSet(Tail(s))
<1> DEFINE t == Tail(s)  n == Len(t)
<1>1. /\ t \in Seq(R) /\ n \in Nat /\ Len(s) = n + 1 /\ Head(s) = s[1]
      /\ \A i \in 1..n : t[i] = s[i + 1]
  BY HeadTailProperties, LenProperties, EmptySeq
<1>2. \A i \in 1..Len(s) : i = 1 \/ (i - 1 \in 1..n /\ s[i] = t[i - 1])
  BY <1>1
<1> HIDE DEF t, n
<1>3. 1 \in 1..Len(s) /\ \A i \in 1..n : i + 1 \in 1..Len(s)
  BY <1>1
<1>4. Head(s) \in ToSet(s) /\ Head(s) \in R
  BY <1>1, <1>3, ListMembers
<1>5. n = Len(t)
  BY DEF n
<1>6. \A e : e \in ToSet(t) <=> \E i \in 1..n : s[i + 1] = e
  <2>1. \A e : e \in ToSet(t) <=> \E i \in 1..Len(t) : t[i] = e
    BY <1>1, ListMembers
  <2>2. n = Len(t)
    BY DEF n
  <2>3. \A e : (\E i \in 1..n : t[i] = e) <=> \E i \in 1..n : s[i + 1] = e
    BY <1>1
  <2> QED BY <2>1, <2>2, <2>3
<1>7. ToSet(s) = ToSet(t) \cup {Head(s)}
  <2>1. ASSUME NEW e \in ToSet(s) PROVE e \in ToSet(t) \cup {Head(s)}
    <3>1. PICK i \in 1..Len(s) : s[i] = e
      BY <2>1, ListMembers
    <3>2. CASE i = 1
      BY <1>1, <3>1, <3>2
    <3>3. CASE i - 1 \in 1..n /\ s[i] = t[i - 1]
      <4>1. \A x : x \in ToSet(t) <=> \E j \in 1..Len(t) : t[j] = x
        BY <1>1, ListMembers
      <4> QED BY <1>5, <3>1, <3>3, <4>1
    <3> QED BY <1>2, <3>2, <3>3
  <2>2. ASSUME NEW e \in ToSet(t) PROVE e \in ToSet(s)
    <3>1. PICK i \in 1..n : s[i + 1] = e
      BY <1>6
    <3> QED BY <1>3, <3>1, ListMembers
  <2> QED BY <1>4, <2>1, <2>2
<1>8. ASSUME IsInjective(s) PROVE IsInjective(t) /\ Head(s) \notin ToSet(t)
  <2>1. \A i, j \in 1..Len(s) : s[i] = s[j] => i = j
    BY <1>8, ListMembers
  <2>2. \A i, j \in 1..n : t[i] = t[j] => i = j
    BY <1>1, <1>3, <2>1
  <2>3. \A i \in 1..n : s[i + 1] # s[1]
    BY <1>1, <1>3, <2>1
  <2> QED BY <1>1, <1>5, <1>6, <2>2, <2>3, ListMembers
<1> QED BY <1>1, <1>4, <1>7, <1>8 DEF t

LEMMA WithoutMembers ==
  ASSUME NEW R, NEW s \in Seq(R), IsInjective(s), NEW e
  PROVE  /\ Without(s, e) \in Seq(R) /\ IsInjective(Without(s, e))
         /\ ToSet(Without(s, e)) = ToSet(s) \ {e}
<1>1. /\ Len(s) \in Nat /\ \A i, j \in 1..Len(s) : s[i] = s[j] => i = j
      /\ \A x : x \in ToSet(s) <=> \E i \in 1..Len(s) : s[i] = x
      /\ Contains(s, e) <=> e \in ToSet(s)
  BY ListMembers
<1>2. CASE ~Contains(s, e)
  BY <1>1, <1>2 DEF Without
<1>3. CASE Contains(s, e)
  <2> DEFINE I == {i \in 1..Len(s) : s[i] = e}
             k == Min(I)
             a == SubSeq(s, 1, k - 1)
             b == SubSeq(s, k + 1, Len(s))
             t == a \o b
  <2>1. k \in 1..Len(s) /\ s[k] = e
    <3>1. I \subseteq Nat /\ I # {}
      BY <1>3 DEF Contains
    <3> HIDE DEF I
    <3>2. k \in I
      BY <3>1, MinIsThere
    <3> QED BY <3>2 DEF I
  <2>2. Without(s, e) = t
    BY <1>3 DEF Without, RemoveAt
  <2> HIDE DEF k, I
  <2>3. /\ a \in Seq(R) /\ Len(a) = k - 1 /\ \A i \in 1..(k - 1) : a[i] = s[i]
        /\ b \in Seq(R) /\ Len(b) = Len(s) - k
        /\ \A i \in 1..(Len(s) - k) : b[i] = s[k + i]
    <3>1. /\ a \in Seq(R) /\ Len(a) = k - 1 /\ \A i \in 1..(k - 1) : a[i] = s[1 + i - 1]
      BY <1>1, <2>1, SubSeqProperties
    <3>2. /\ b \in Seq(R) /\ Len(b) = Len(s) - k
          /\ \A i \in 1..(Len(s) - k) : b[i] = s[(k + 1) + i - 1]
      BY <1>1, <2>1, SubSeqProperties
    <3> QED BY <1>1, <2>1, <3>1, <3>2
  <2> HIDE DEF a, b
  <2>4. /\ t \in Seq(R) /\ Len(t) = Len(s) - 1
        /\ \A i \in 1..Len(t) : t[i] = IF i < k THEN s[i] ELSE s[i + 1]
    <3>1. /\ t \in Seq(R) /\ Len(t) = Len(a) + Len(b)
          /\ \A i \in 1..Len(t) : t[i] = IF i <= Len(a) THEN a[i] ELSE b[i - Len(a)]
      BY <2>3, ConcatProperties
    <3>2. Len(t) = Len(s) - 1
      BY <1>1, <2>1, <2>3, <3>1
    <3>3. ASSUME NEW i \in 1..Len(t) PROVE t[i] = IF i < k THEN s[i] ELSE s[i + 1]
      <4>1. CASE i < k
        BY <1>1, <2>1, <2>3, <3>1, <4>1
      <4>2. CASE ~(i < k)
        <5>1. i - (k - 1) \in 1..(Len(s) - k) /\ k + (i - (k - 1)) = i + 1
          BY <1>1, <2>1, <3>2, <4>2
        <5>2. t[i] = b[i - (k - 1)]
          BY <1>1, <2>1, <2>3, <3>1, <4>2
        <5> QED BY <2>3, <4>2, <5>1, <5>2
      <4> QED BY <4>1, <4>2
    <3> QED BY <3>1, <3>2, <3>3
  <2> HIDE DEF t
  <2>5. \A i \in 1..Len(s) : i # k =>
          \E j \in 1..Len(t) : t[j] = s[i]
    <3> SUFFICES ASSUME NEW i \in 1..Len(s), i # k PROVE \E j \in 1..Len(t) : t[j] = s[i]
      OBVIOUS
    <3>1. CASE i < k
      BY <1>1, <2>1, <2>4, <3>1
    <3>2. CASE i > k
      <4>1. i - 1 \in 1..Len(t) /\ ~(i - 1 < k) /\ (i - 1) + 1 = i
        BY <1>1, <2>1, <2>4, <3>2
      <4> QED BY <2>4, <4>1
    <3> QED BY <2>1, <3>1, <3>2
  <2>6. \A j \in 1..Len(t) : \E i \in 1..Len(s) : i # k /\ t[j] = s[i]
    BY <1>1, <2>1, <2>4
  <2>7. \A x : x \in ToSet(t) <=> \E i \in 1..Len(t) : t[i] = x
    BY <2>4, ListMembers
  <2>8. ToSet(t) = ToSet(s) \ {e}
    <3>1. ASSUME NEW x \in ToSet(t) PROVE x \in ToSet(s) /\ x # e
      <4>1. PICK j \in 1..Len(t) : t[j] = x
        BY <2>7
      <4>2. PICK i \in 1..Len(s) : i # k /\ t[j] = s[i]
        BY <2>6
      <4> QED BY <1>1, <2>1, <4>1, <4>2
    <3>2. ASSUME NEW x \in ToSet(s), x # e PROVE x \in ToSet(t)
      <4>1. PICK i \in 1..Len(s) : s[i] = x
        BY <1>1
      <4> QED BY <2>1, <2>5, <2>7, <3>2, <4>1
    <3> QED BY <3>1, <3>2
  <2>9. IsInjective(t)
    <3>1. \A i, j \in 1..Len(t) : t[i] = t[j] => i = j
      BY <1>1, <2>1, <2>4
    <3> QED BY <2>4, <3>1, ListMembers
  <2> QED BY <2>2, <2>4, <2>8, <2>9
<1> QED BY <1>2, <1>3

(* The lost list.                                                          *)
LEMMA ItemMembers ==
  ASSUME NEW s \in Seq(Items), NEW e \in Items
  PROVE  /\ BlocksOf(s) \subseteq Blocks /\ DataOf(s) \subseteq Blocks
         /\ Append(s, e) \in Seq(Items) /\ Append(s, e) # <<>>
         /\ BlocksOf(Append(s, e)) = BlocksOf(s) \cup {e.block}
         /\ DataOf(Append(s, e)) = DataOf(s) \cup {e.data}
         /\ Apart(s) /\ e.block \notin BlocksOf(s) => Apart(Append(s, e))
<1> DEFINE t == Append(s, e)
<1>1. /\ t \in Seq(Items) /\ Len(t) = Len(s) + 1 /\ Len(s) \in Nat /\ t[Len(s) + 1] = e
      /\ \A i \in 1..Len(s) : t[i] = s[i] /\ s[i] \in Items
  BY AppendProperties, LenProperties, ElementOfSeq
<1>2. \A i \in 1..Len(t) : i \in 1..Len(s) \/ i = Len(s) + 1
  BY <1>1
<1>3. t # <<>>
  BY <1>1, EmptySeq
<1> HIDE DEF t
<1>4. BlocksOf(s) \subseteq Blocks /\ DataOf(s) \subseteq Blocks
  BY <1>1 DEF BlocksOf, DataOf, Items
<1>5. BlocksOf(t) = BlocksOf(s) \cup {e.block} /\ DataOf(t) = DataOf(s) \cup {e.data}
  BY <1>1, <1>2 DEF BlocksOf, DataOf
<1>6. Apart(s) /\ e.block \notin BlocksOf(s) => Apart(t)
  BY <1>1, <1>2 DEF BlocksOf, Apart
<1> QED BY <1>1, <1>3, <1>4, <1>5, <1>6 DEF t

LEMMA ItemTail ==
  ASSUME NEW s \in Seq(Items), s # <<>>
  PROVE  /\ Head(s) \in Items /\ Tail(s) \in Seq(Items)
         /\ BlocksOf(s) = BlocksOf(Tail(s)) \cup {Head(s).block}
         /\ DataOf(s) = DataOf(Tail(s)) \cup {Head(s).data}
         /\ Apart(s) => Apart(Tail(s)) /\ Head(s).block \notin BlocksOf(Tail(s))
<1> DEFINE t == Tail(s)
<1>1. /\ t \in Seq(Items) /\ Len(t) \in Nat /\ Len(s) = Len(t) + 1
      /\ Head(s) = s[1] /\ Head(s) \in Items
      /\ \A i \in 1..Len(t) : t[i] = s[i + 1]
  BY HeadTailProperties, LenProperties, ElementOfSeq, EmptySeq
<1> HIDE DEF t
<1>2. \A i \in 1..Len(s) : i = 1 \/ (i - 1 \in 1..Len(t) /\ s[i] = t[i - 1])
  BY <1>1
<1>3. 1 \in 1..Len(s) /\ \A i \in 1..Len(t) : i + 1 \in 1..Len(s) /\ i + 1 # 1
  BY <1>1
<1>4. /\ BlocksOf(s) = BlocksOf(t) \cup {Head(s).block}
      /\ DataOf(s) = DataOf(t) \cup {Head(s).data}
  <2>1. ASSUME NEW i \in 1..Len(s)
        PROVE  s[i] = Head(s) \/ \E j \in 1..Len(t) : t[j] = s[i]
    BY <1>1, <1>2
  <2>2. \A j \in 1..Len(t) : \E i \in 1..Len(s) : t[j] = s[i]
    BY <1>1, <1>3
  <2>3. \E i \in 1..Len(s) : s[i] = Head(s)
    BY <1>1, <1>3
  <2> QED BY <2>1, <2>2, <2>3 DEF BlocksOf, DataOf
<1>5. Apart(s) => Apart(t) /\ Head(s).block \notin BlocksOf(t)
  BY <1>1, <1>3 DEF Apart, BlocksOf
<1> QED BY <1>1, <1>4, <1>5 DEF t

LEMMA ItemPrefix ==
  ASSUME NEW s \in Seq(Items), NEW n \in 1..Len(s)
  PROVE  LET t == SubSeq(s, 1, n)
         IN /\ t \in Seq(Items) /\ BlocksOf(t) \subseteq BlocksOf(s)
            /\ Apart(s) => Apart(t)
            /\ n = Len(s) => t = s
<1> DEFINE t == SubSeq(s, 1, n)
<1>1. Len(s) \in Nat
  BY LenProperties
<1>2. t \in Seq(Items) /\ Len(t) = n /\ \A i \in 1..n : t[i] = s[i]
  <2>1. /\ t \in Seq(Items) /\ Len(t) = n /\ \A i \in 1..n : t[i] = s[1 + i - 1]
    BY <1>1, SubSeqProperties
  <2> QED BY <2>1
<1> HIDE DEF t
<1>3. 1..n \subseteq 1..Len(s)
  BY <1>1
<1>4. BlocksOf(t) \subseteq BlocksOf(s) /\ (Apart(s) => Apart(t))
  BY <1>2, <1>3 DEF BlocksOf, Apart
<1>5. n = Len(s) => t = s
  BY <1>2, SeqEqual
<1> QED BY <1>2, <1>4, <1>5 DEF t

-----------------------------------------------------------------------------
(* What the steps do: to the one thread that takes them, and to the lists. *)

(* Thread t comes to c, and the others stay where they are.                *)
Turns(t, c) ==
  /\ c \in Calls /\ Ready(c) /\ call' \in [All -> Calls] /\ call'[t] = c
  /\ \A u \in All : u # t => call'[u] = call[u]

LEMMA TurnsTo ==
  ASSUME CallInv, NEW t \in All, NEW c \in Calls, Ready(c), call' = [call EXCEPT ![t] = c]
  PROVE  Turns(t, c)
BY DEF CallInv, Turns

LEMMA GotoTurns ==
  ASSUME CallInv, NEW t \in All, NEW place \in Places, Goto(t, place),
         place \in Deletes => call[t].p \in Blocks,
         place \notin {"head", "walk", "link"}
  PROVE  Turns(t, [at |-> place, p |-> call[t].p, item |-> call[t].item,
                   last |-> call[t].last])
<1> DEFINE c == [at |-> place, p |-> call[t].p, item |-> call[t].item,
                 last |-> call[t].last]
<1>1. call[t] \in Calls
  BY DEF CallInv
<1>2. c \in Calls /\ Ready(c)
  BY <1>1 DEF Calls, Ready
<1>3. [call[t] EXCEPT !.at = place] = c
  BY <1>1 DEF Calls
<1>4. call' = [call EXCEPT ![t] = c]
  BY <1>3 DEF Goto
<1> HIDE DEF c
<1>5. Turns(t, c)
  BY <1>2, <1>4, TurnsTo
<1> QED BY <1>5 DEF c

(* Records, field by field.                                                *)
LEMMA BeginRecord ==
  ASSUME NEW place, NEW data
  PROVE  [Idle EXCEPT !.at = place, !.p = data] =
           [at |-> place, p |-> data, item |-> NoItem, last |-> NoItem]
<1> DEFINE r == [at |-> place, p |-> 0, item |-> NoItem, last |-> NoItem]
<1>1. [Idle EXCEPT !.at = place] = r
  BY DEF Idle
<1>2. [r EXCEPT !.p = data] = [at |-> place, p |-> data, item |-> NoItem, last |-> NoItem]
  OBVIOUS
<1> HIDE DEF r
<1> QED BY <1>1, <1>2, Zenon

LEMMA ItemRecord ==
  ASSUME NEW c \in Calls, NEW item, NEW place
  PROVE  [c EXCEPT !.item = item, !.at = place] =
           [at |-> place, p |-> c.p, item |-> item, last |-> c.last]
<1> DEFINE r == [at |-> c.at, p |-> c.p, item |-> item, last |-> c.last]
<1>1. [c EXCEPT !.item = item] = r
  BY DEF Calls
<1>2. [r EXCEPT !.at = place] = [at |-> place, p |-> c.p, item |-> item, last |-> c.last]
  OBVIOUS
<1> HIDE DEF r
<1> QED BY <1>1, <1>2, Zenon

LEMMA LastRecord ==
  ASSUME NEW c \in Calls, NEW last, NEW place
  PROVE  [c EXCEPT !.last = last, !.at = place] =
           [at |-> place, p |-> c.p, item |-> c.item, last |-> last]
<1> DEFINE r == [at |-> c.at, p |-> c.p, item |-> c.item, last |-> last]
<1>1. [c EXCEPT !.last = last] = r
  BY DEF Calls
<1>2. [r EXCEPT !.at = place] = [at |-> place, p |-> c.p, item |-> c.item, last |-> last]
  OBVIOUS
<1> HIDE DEF r
<1> QED BY <1>1, <1>2, Zenon

LEMMA NoItemIsNone == NoItem \in Items \cup {NoItem} /\ 0 \notin Blocks
BY CheckAssumption

LEMMA BeginTurns ==
  ASSUME CallInv, NEW t \in All, NEW data \in Blocks, Begin(t, data),
         g_allocList \in Seq(Blocks)
  PROVE  Turns(t, [at |-> IF data \in Alloc THEN "remove" ELSE "lost",
                   p |-> data, item |-> NoItem, last |-> NoItem])
<1> DEFINE c == [at |-> IF data \in Alloc THEN "remove" ELSE "lost",
                 p |-> data, item |-> NoItem, last |-> NoItem]
<1>1. c \in Calls /\ Ready(c)
  BY DEF Calls, Ready, Places, Deletes
<1>2. Contains(g_allocList, data) <=> data \in Alloc
  BY ListMembers DEF Alloc
<1>3. call' = [call EXCEPT ![t] = c]
  <2>2. [Idle EXCEPT !.at = IF Contains(g_allocList, data) THEN "remove" ELSE "lost",
                     !.p = data] = c
    <3> DEFINE place == IF Contains(g_allocList, data) THEN "remove" ELSE "lost"
    <3>1. place = IF data \in Alloc THEN "remove" ELSE "lost"
      BY <1>2
    <3> HIDE DEF place
    <3>3. [Idle EXCEPT !.at = place, !.p = data] =
            [at |-> place, p |-> data, item |-> NoItem, last |-> NoItem]
      BY BeginRecord
    <3> QED BY <3>1, <3>3 DEF place
  <2> QED BY <2>2 DEF Begin
<1> HIDE DEF c
<1>4. Turns(t, c)
  BY <1>1, <1>3, TurnsTo
<1> QED BY <1>4 DEF c

LEMMA ReturnTurns ==
  ASSUME CallInv, NEW t \in All, Return(t)
  PROVE  Turns(t, [at |-> IF t = Main THEN "lostList" ELSE "out",
                   p |-> 0, item |-> NoItem, last |-> NoItem])
<1> DEFINE c == [at |-> IF t = Main THEN "lostList" ELSE "out",
                 p |-> 0, item |-> NoItem, last |-> NoItem]
<1>1. c \in Calls /\ Ready(c)
  BY DEF Calls, Ready, Places, Deletes
<1>2. call' = [call EXCEPT ![t] = c]
  <2>1. Idle = [at |-> "out", p |-> 0, item |-> NoItem, last |-> NoItem]
    BY DEF Idle
  <2>2. [Idle EXCEPT !.at = IF t = Main THEN "lostList" ELSE "out"] = c
    BY <2>1
  <2> QED BY <2>2 DEF Return
<1> HIDE DEF c
<1>3. Turns(t, c)
  BY <1>1, <1>2, TurnsTo
<1> QED BY <1>3 DEF c

LEMMA NewItemTurns ==
  ASSUME CallInv, NEW t \in All, NewItem(t)
  PROVE  /\ Fresh \in Blocks \ heap
         /\ Turns(t, [at |-> IF g_lostList = <<>> THEN "head" ELSE "walk",
                      p |-> call[t].p, item |-> [block |-> Fresh, data |-> call[t].p],
                      last |-> call[t].last])
<1> DEFINE item == [block |-> Fresh, data |-> call[t].p]
           place == IF g_lostList = <<>> THEN "head" ELSE "walk"
           c == [at |-> place, p |-> call[t].p, item |-> item, last |-> call[t].last]
<1>1. Fresh \in Blocks \ heap
  BY FreshIsFree DEF NewItem, MyAlloc
<1>2. call[t] \in Calls /\ call[t].p \in Blocks
  BY DEF CallInv, NewItem, At, Ready, Deletes
<1>3. item \in Items
  BY <1>1, <1>2 DEF Items
<1>4. call' = [call EXCEPT ![t].item = item, ![t].at = place]
  BY DEF NewItem
<1>5. item.data = call[t].p
  OBVIOUS
<1> HIDE DEF item
<1>6. place \in Places
  BY DEF Places, Deletes
<1>7. c \in Calls /\ Ready(c)
  <2> HIDE DEF place
  <2> QED BY <1>2, <1>3, <1>5, <1>6 DEF Calls, Ready
<1> HIDE DEF place
<1>8. [call[t] EXCEPT !.item = item, !.at = place] = c
  <2> DEFINE k == call[t]
  <2>1. k \in Calls
    BY <1>2
  <2> HIDE DEF k
  <2>2. [k EXCEPT !.item = item, !.at = place] =
          [at |-> place, p |-> k.p, item |-> item, last |-> k.last]
    BY <2>1, ItemRecord
  <2> QED BY <2>2 DEF k
<1>9. call' = [call EXCEPT ![t] = c]
  BY <1>4, <1>8 DEF CallInv
<1> HIDE DEF c
<1>10. Turns(t, c)
  BY <1>7, <1>9, TurnsTo
<1> QED BY <1>1, <1>10 DEF c, item, place

LEMMA WalkTurns ==
  ASSUME CallInv, Typed, NEW t \in All, Walk(t), g_lostList # <<>>
  PROVE  /\ Last(g_lostList) \in Items
         /\ Turns(t, [at |-> "link", p |-> call[t].p, item |-> call[t].item,
                      last |-> Last(g_lostList)])
<1> DEFINE last == Last(g_lostList)
           c == [at |-> "link", p |-> call[t].p, item |-> call[t].item, last |-> last]
<1>1. last \in Items
  BY LenProperties, EmptySeq, ElementOfSeq DEF Typed, Last
<1>2. /\ call[t] \in Calls /\ call[t].p \in Blocks
      /\ call[t].item \in Items /\ call[t].item.data = call[t].p
  BY DEF CallInv, Walk, At, Ready, Deletes
<1>3. call' = [call EXCEPT ![t].last = last, ![t].at = "link"]
  BY DEF Walk
<1> HIDE DEF last
<1>4. c \in Calls /\ Ready(c)
  BY <1>1, <1>2 DEF Calls, Ready, Places, Deletes
<1>5. [call[t] EXCEPT !.last = last, !.at = "link"] = c
  <2> DEFINE k == call[t]
  <2>1. k \in Calls
    BY <1>2
  <2> HIDE DEF k
  <2>2. [k EXCEPT !.last = last, !.at = "link"] =
          [at |-> "link", p |-> k.p, item |-> k.item, last |-> last]
    BY <2>1, LastRecord
  <2> QED BY <2>2 DEF k
<1>6. call' = [call EXCEPT ![t] = c]
  BY <1>3, <1>5 DEF CallInv
<1> HIDE DEF c
<1>7. Turns(t, c)
  BY <1>4, <1>6, TurnsTo
<1> QED BY <1>1, <1>7 DEF c, last

LEMMA CallKept ==
  ASSUME CallInv, NEW t \in All, NEW c, Turns(t, c),
         t \in Threads => c.at \in Deletes \cup {"out"} /\ (c.at = "out" \/ At(Main, "out")),
         t = Main => c.at # "bound" /\ (c.at # "out" => \A u \in Threads : At(u, "out"))
  PROVE  CallInv'
<1>1. Main \notin Threads /\ Main \in All /\ (t = Main \/ t \in Threads)
  BY CheckAssumption DEF All
<1>2. call' \in [All -> Calls] /\ \A u \in All : Ready(call'[u])
  BY DEF CallInv, Turns
<1>3. \A u \in Threads : u \in All
  BY DEF All
<1>4. \A u \in Threads : call'[u].at \in Deletes \cup {"out"}
  BY <1>1, <1>3 DEF CallInv, Turns
<1>5. call'[Main].at \in Places \ {"bound"}
  BY <1>1, <1>3 DEF CallInv, Turns, Calls
<1>6. call'[Main].at # "out" => \A u \in Threads : call'[u].at = "out"
  BY <1>1, <1>3 DEF CallInv, Turns, At
<1> QED BY <1>2, <1>4, <1>5, <1>6 DEF CallInv, At

(* What a step does not touch.                                             *)
LEMMA BlockFrame ==
  ASSUME BlockInv, UNCHANGED <<heap, live, g_allocList, g_boundList, call, told>>
  PROVE  BlockInv'
BY DEF BlockInv, Alloc, Bound, At, Deleting, Holding

-----------------------------------------------------------------------------
(* New.                                                                    *)

LEMMA NewKeeps ==
  ASSUME IInv, NEW t \in Threads, New(t)
  PROVE  IInv'
<1> DEFINE b == Fresh
<1>1. CallInv /\ Typed /\ BlockInv /\ ReportInv /\ BoundsInv /\ OwnInv /\ ItemInv /\ LostInv
  BY DEF IInv
<1>2. b \in Blocks \ heap
  BY FreshIsFree DEF New, MyAlloc
<1>3. /\ heap' = heap \cup {b} /\ live' = live \cup {b}
      /\ g_allocList' = Append(g_allocList, b) /\ call[Main].at = "out"
      /\ UNCHANGED <<damaged, g_boundList, g_lostList, call, lost, told, raced>>
  BY DEF New, MyAlloc, Running, At
<1> HIDE DEF b
<1>4. /\ g_allocList' \in Seq(Blocks) /\ Alloc' = Alloc \cup {b}
      /\ IsInjective(g_allocList)'
  <2>1. IsInjective(g_allocList) /\ b \notin ToSet(g_allocList)
    BY <1>1, <1>2 DEF BlockInv, Alloc
  <2> QED BY <1>1, <1>2, <1>3, <2>1, AppendMembers DEF Typed, Alloc
<1>5. Bound' = Bound
  BY <1>3 DEF Bound
<1>6. CallInv'
  BY <1>1, <1>3 DEF CallInv, At
<1>7. Typed'
  BY <1>1, <1>2, <1>3, <1>4 DEF Typed
<1>8. BlockInv'
  <2>1. (IsInjective(g_allocList) /\ IsInjective(g_boundList))'
    BY <1>1, <1>3, <1>4 DEF BlockInv
  <2>2. (/\ Alloc \subseteq heap /\ Bound \subseteq heap
         /\ Alloc \cap Bound = {} /\ Bound \cap live = {})'
    BY <1>1, <1>2, <1>3, <1>4, <1>5 DEF BlockInv
  <2>3. (\A u \in All : At(u, "remove") => call[u].p \in Alloc \ live)'
    BY <1>1, <1>2, <1>3, <1>4 DEF BlockInv, At
  <2>4. (\A u \in All : Holding(u) => call[u].p \in heap \ (Alloc \cup Bound \cup live))'
    BY <1>1, <1>2, <1>3, <1>4, <1>5 DEF BlockInv, At, Holding
  <2>5. (\A u, v \in All : u # v /\ Deleting(u) /\ Deleting(v) => call[u].p # call[v].p)'
    BY <1>1, <1>3 DEF BlockInv, At, Deleting
  <2>6. (At(Main, "out") =>
           /\ told.leaks = {}
           /\ \A x \in heap : x \in Alloc \cup Bound
                \/ \E u \in All : Holding(u) /\ call[u].p = x)'
    BY <1>1, <1>3, <1>4, <1>5 DEF BlockInv, At, Holding
  <2> QED BY <2>1, <2>2, <2>3, <2>4, <2>5, <2>6 DEF BlockInv
<1>9. ReportInv'
  BY <1>1, <1>3, <1>4 DEF ReportInv, Listed, At
<1>10. BoundsInv'
  <2>1. b \notin damaged
    BY <1>1, <1>2 DEF Typed
  <2> QED BY <1>1, <1>3, <1>5, <2>1 DEF BoundsInv, Breaking, At
<1>11. Own' = Own
  <2>1. told.leaks = {} /\ b \notin Alloc
    BY <1>1, <1>2, <1>3 DEF BlockInv, At
  <2>2. ~Listed /\ ~Listed'
    BY <1>3 DEF Listed
  <2> QED BY <1>3, <1>4, <2>1, <2>2 DEF Own, Removing, At
<1>12. OwnInv'
  BY <1>1, <1>3, <1>11 DEF OwnInv, Waiting, At
<1>13. ItemInv'
  BY <1>1, <1>2, <1>3 DEF ItemInv, ItemBlock, Inserting, Deleting, At
<1>14. LostInv'
  BY <1>1, <1>3 DEF LostInv, Inserting, Pending, At
<1> QED BY <1>6, <1>7, <1>8, <1>9, <1>10, <1>12, <1>13, <1>14 DEF IInv

(* Writing past the end of a block.                                        *)
LEMMA DamageKeeps ==
  ASSUME IInv, NEW t \in Threads, Damage(t)
  PROVE  IInv'
<1>1. CallInv /\ Typed /\ BlockInv /\ ReportInv /\ BoundsInv /\ OwnInv /\ ItemInv /\ LostInv
  BY DEF IInv
<1>2. PICK b \in live : damaged' = damaged \cup {b}
  BY DEF Damage
<1>3. /\ call[Main].at = "out"
      /\ UNCHANGED <<heap, live, g_allocList, g_boundList, g_lostList, call, news, lost,
                     told, raced>>
  BY DEF Damage, Running, At, history
<1>4. Alloc' = Alloc /\ Bound' = Bound
  BY <1>3 DEF Alloc, Bound
<1>5. CallInv'
  BY <1>1, <1>3 DEF CallInv, At
<1>6. Typed'
  BY <1>1, <1>2, <1>3 DEF Typed
<1>7. BlockInv'
  BY <1>1, <1>3, BlockFrame
<1>8. ReportInv'
  BY <1>1, <1>3, <1>4 DEF ReportInv, Listed, At
<1>9. BoundsInv'
  <2>1. \A u \in All : At(u, "free") => call[u].p # b
    BY <1>1 DEF BlockInv, Holding
  <2>2. ~Breaking(b) /\ b \notin Bound
    BY <1>1, <1>2 DEF BlockInv, Breaking, Holding
  <2>3. b \in Blocks /\ b \notin told.bounds
    BY <1>1, <1>2 DEF Typed, BoundsInv
  <2>4. (\A u \in All : At(u, "bound") => call[u].p \in damaged)'
    BY <1>1, <1>2, <1>3 DEF BoundsInv, At
  <2>5. (\A u \in All : At(u, "free") => call[u].p \notin damaged)'
    BY <1>1, <1>2, <1>3, <2>1 DEF BoundsInv, At
  <2>6. \A x \in Blocks : Breaking(x)' <=> Breaking(x)
    BY <1>3 DEF Breaking, At
  <2>7. (\A x \in Blocks : x \in damaged \ live <=>
           x \in told.bounds \cup Bound \/ (x \in damaged /\ Breaking(x)))'
    BY <1>1, <1>2, <1>3, <1>4, <2>2, <2>3, <2>6 DEF BoundsInv
  <2> QED BY <2>4, <2>5, <2>7 DEF BoundsInv
<1>10. OwnInv'
  BY <1>1, <1>3, <1>4 DEF OwnInv, Own, Waiting, Listed, Removing, At
<1>11. ItemInv'
  BY <1>1, <1>3 DEF ItemInv, ItemBlock, Inserting, Deleting, At
<1>12. LostInv'
  BY <1>1, <1>3 DEF LostInv, Inserting, Pending, At
<1> QED BY <1>5, <1>6, <1>7, <1>8, <1>9, <1>10, <1>11, <1>12 DEF IInv

-----------------------------------------------------------------------------
(* Delete.                                                                 *)

LEMMA DeleteLiveKeeps ==
  ASSUME IInv, NEW t \in Threads, Running(t), NEW b \in live,
         Begin(t, b), live' = live \ {b}, UNCHANGED lost,
         UNCHANGED <<heap, damaged, g_allocList, g_boundList, g_lostList, news, told, raced>>
  PROVE  IInv'
<1>1. CallInv /\ Typed /\ BlockInv /\ ReportInv /\ BoundsInv /\ OwnInv /\ ItemInv /\ LostInv
  BY DEF IInv
<1>2. /\ t \in All /\ t # Main /\ Main \in All /\ call[t].at = "out" /\ call[Main].at = "out"
  BY CheckAssumption DEF All, Running, At
<1>3. b \in Blocks /\ b \in Alloc /\ told.leaks = {}
  BY <1>1, <1>2 DEF Typed, BlockInv, ReportInv, At
<1>4. Turns(t, [at |-> "remove", p |-> b, item |-> NoItem, last |-> NoItem])
  <2>1. Turns(t, [at |-> IF b \in Alloc THEN "remove" ELSE "lost",
                  p |-> b, item |-> NoItem, last |-> NoItem])
    BY <1>1, <1>2, <1>3, BeginTurns DEF Typed
  <2> QED BY <1>3, <2>1
<1>5. call'[t].at = "remove" /\ call'[t].p = b /\ \A u \in All : u # t => call'[u] = call[u]
  BY <1>4 DEF Turns
<1>6. Alloc' = Alloc /\ Bound' = Bound
  BY DEF Alloc, Bound
<1>7. CallInv'
  <2> DEFINE c == [at |-> "remove", p |-> b, item |-> NoItem, last |-> NoItem]
  <2>1. c.at = "remove"
    OBVIOUS
  <2>2. c.at \in Deletes
    BY DEF Deletes
  <2> HIDE DEF c
  <2>3. Turns(t, c)
    BY <1>4 DEF c
  <2> QED BY <1>1, <1>2, <2>2, <2>3, CallKept DEF At
<1>8. Typed'
  BY <1>1 DEF Typed
<1>9. BlockInv'
  <2>1. \A u \in All : Deleting(u) => call[u].p # b
    BY <1>1 DEF BlockInv, Holding, Deleting
  <2>2. (IsInjective(g_allocList) /\ IsInjective(g_boundList))'
    BY <1>1 DEF BlockInv
  <2>3. (/\ Alloc \subseteq heap /\ Bound \subseteq heap
         /\ Alloc \cap Bound = {} /\ Bound \cap live = {})'
    BY <1>1, <1>6 DEF BlockInv
  <2>4. (\A u \in All : At(u, "remove") => call[u].p \in Alloc \ live)'
    BY <1>1, <1>3, <1>5, <1>6 DEF BlockInv, At
  <2>5. (\A u \in All : Holding(u) => call[u].p \in heap \ (Alloc \cup Bound \cup live))'
    BY <1>1, <1>5, <1>6 DEF BlockInv, At, Holding
  <2>6. (\A u, v \in All : u # v /\ Deleting(u) /\ Deleting(v) => call[u].p # call[v].p)'
    BY <1>1, <1>5, <2>1 DEF BlockInv, At, Deleting
  <2>7. (At(Main, "out") =>
           /\ told.leaks = {}
           /\ \A x \in heap : x \in Alloc \cup Bound
                \/ \E u \in All : Holding(u) /\ call[u].p = x)'
    BY <1>1, <1>2, <1>3, <1>5, <1>6 DEF BlockInv, At, Holding
  <2> QED BY <2>2, <2>3, <2>4, <2>5, <2>6, <2>7 DEF BlockInv
<1>10. ReportInv'
  BY <1>1, <1>2, <1>5, <1>6 DEF ReportInv, Listed, At
<1>11. BoundsInv'
  <2>1. (\A u \in All : At(u, "bound") => call[u].p \in damaged)'
    BY <1>1, <1>5 DEF BoundsInv, At
  <2>2. (\A u \in All : At(u, "free") => call[u].p \notin damaged)'
    BY <1>1, <1>5 DEF BoundsInv, At
  <2>3. \A x \in Blocks : Breaking(x)' <=> Breaking(x) \/ x = b
    BY <1>2, <1>5 DEF Breaking, At
  <2>4. (\A x \in Blocks : x \in damaged \ live <=>
           x \in told.bounds \cup Bound \/ (x \in damaged /\ Breaking(x)))'
    <3> SUFFICES ASSUME NEW x \in Blocks
                 PROVE (x \in damaged \ live <=>
                          x \in told.bounds \cup Bound \/ (x \in damaged /\ Breaking(x)))'
      OBVIOUS
    <3>1. x \in damaged \ live <=>
            x \in told.bounds \cup Bound \/ (x \in damaged /\ Breaking(x))
      BY <1>1 DEF BoundsInv
    <3> QED BY <1>6, <2>3, <3>1
  <2> QED BY <2>1, <2>2, <2>4 DEF BoundsInv
<1>12. Own' = Own
  <2>1. ~Listed /\ ~Listed'
    BY <1>2, <1>5 DEF Listed
  <2>2. \A x : Removing(x)' <=> Removing(x) \/ x = b
    BY <1>2, <1>5 DEF Removing, At
  <2>3. \A x : x \notin live' /\ ~Removing(x)' <=> x \notin live /\ ~Removing(x)
    BY <2>2
  <2> QED BY <1>6, <2>1, <2>3 DEF Own
<1>13. OwnInv'
  <2>1. Waiting' = Waiting
    BY <1>2, <1>5 DEF Waiting, At, All
  <2> QED BY <1>1, <1>12, <2>1 DEF OwnInv
<1>14. ItemInv'
  <2>1. \A u \in All : Inserting(u)' <=> Inserting(u)
    BY <1>2, <1>5 DEF Inserting, At
  <2>2. \A u \in All : Inserting(u)' => call'[u] = call[u]
    BY <1>5 DEF Inserting, At
  <2>3. \A x \in Blocks : ItemBlock(x)' <=> ItemBlock(x)
    BY <2>1, <2>2 DEF ItemBlock
  <2>4. (\A x \in Blocks :
           ItemBlock(x) => x \in heap \ live /\ \A u \in All : Deleting(u) => call[u].p # x)'
    BY <1>1, <1>5, <2>3 DEF ItemInv, Deleting, At
  <2>5. (\A u \in All : At(u, "walk") => g_lostList # <<>>)'
    BY <1>1, <1>5 DEF ItemInv, At
  <2> QED BY <1>1, <2>1, <2>2, <2>4, <2>5 DEF ItemInv
<1>15. LostInv'
  <2>1. \A u \in All : Inserting(u)' <=> Inserting(u)
    BY <1>2, <1>5 DEF Inserting, At
  <2>2. \A x \in Blocks : Pending(x) => Pending(x)'
    BY <1>2, <1>5, <2>1 DEF Pending, At, Inserting
  <2> QED BY <1>1, <1>2, <1>5, <2>1, <2>2 DEF LostInv, At
<1> QED BY <1>7, <1>8, <1>9, <1>10, <1>11, <1>13, <1>14, <1>15 DEF IInv

LEMMA DeleteLostKeeps ==
  ASSUME IInv, NEW t \in Threads, Running(t), NEW b \in Blocks \ heap,
         Begin(t, b), lost' = Append(lost, b), UNCHANGED live,
         UNCHANGED <<heap, damaged, g_allocList, g_boundList, g_lostList, news, told, raced>>
  PROVE  IInv'
<1>1. CallInv /\ Typed /\ BlockInv /\ ReportInv /\ BoundsInv /\ OwnInv /\ ItemInv /\ LostInv
  BY DEF IInv
<1>2. /\ t \in All /\ t # Main /\ Main \in All /\ call[t].at = "out" /\ call[Main].at = "out"
  BY CheckAssumption DEF All, Running, At
<1>3. b \notin Alloc
  BY <1>1 DEF BlockInv
<1>4. Turns(t, [at |-> "lost", p |-> b, item |-> NoItem, last |-> NoItem])
  <2>1. Turns(t, [at |-> IF b \in Alloc THEN "remove" ELSE "lost",
                  p |-> b, item |-> NoItem, last |-> NoItem])
    BY <1>1, <1>2, <1>3, BeginTurns DEF Typed
  <2> QED BY <1>3, <2>1
<1>5. call'[t].at = "lost" /\ call'[t].p = b /\ \A u \in All : u # t => call'[u] = call[u]
  BY <1>4 DEF Turns
<1>6. Alloc' = Alloc /\ Bound' = Bound
  BY DEF Alloc, Bound
<1>7. /\ lost' \in Seq(Blocks) /\ Len(lost') = Len(lost) + 1 /\ Len(lost) \in Nat
      /\ ToSet(lost)' = ToSet(lost) \cup {b}
  <2>1. lost \in Seq(Blocks)
    BY <1>1 DEF Typed
  <2> QED BY <2>1, AppendMembers, AppendProperties, LenProperties
<1>8. CallInv'
  <2> DEFINE c == [at |-> "lost", p |-> b, item |-> NoItem, last |-> NoItem]
  <2>1. c.at = "lost"
    OBVIOUS
  <2>2. c.at \in Deletes
    BY DEF Deletes
  <2> HIDE DEF c
  <2>3. Turns(t, c)
    BY <1>4 DEF c
  <2> QED BY <1>1, <1>2, <2>2, <2>3, CallKept DEF At
<1>9. Typed'
  BY <1>1, <1>7 DEF Typed
<1>10. \A u \in All : Deleting(u)' <=> Deleting(u)
  BY <1>2, <1>5 DEF Deleting, At
<1>11. \A u \in All : Deleting(u)' => call'[u] = call[u]
  BY <1>5 DEF Deleting, At
<1>12. BlockInv'
  <2>1. (IsInjective(g_allocList) /\ IsInjective(g_boundList))'
    BY <1>1 DEF BlockInv
  <2>2. (/\ Alloc \subseteq heap /\ Bound \subseteq heap
         /\ Alloc \cap Bound = {} /\ Bound \cap live = {})'
    BY <1>1, <1>6 DEF BlockInv
  <2>3. (\A u \in All : At(u, "remove") => call[u].p \in Alloc \ live)'
    BY <1>1, <1>5, <1>6 DEF BlockInv, At
  <2>4. (\A u \in All : Holding(u) => call[u].p \in heap \ (Alloc \cup Bound \cup live))'
    BY <1>1, <1>5, <1>6 DEF BlockInv, At, Holding
  <2>5. (\A u, v \in All : u # v /\ Deleting(u) /\ Deleting(v) => call[u].p # call[v].p)'
    BY <1>1, <1>10, <1>11 DEF BlockInv
  <2>6. (At(Main, "out") =>
           /\ told.leaks = {}
           /\ \A x \in heap : x \in Alloc \cup Bound
                \/ \E u \in All : Holding(u) /\ call[u].p = x)'
    BY <1>1, <1>2, <1>5, <1>6 DEF BlockInv, At, Holding
  <2> QED BY <2>1, <2>2, <2>3, <2>4, <2>5, <2>6 DEF BlockInv
<1>13. ReportInv'
  BY <1>1, <1>2, <1>5, <1>6 DEF ReportInv, Listed, At
<1>14. BoundsInv'
  <2>1. (\A u \in All : At(u, "bound") => call[u].p \in damaged)'
    BY <1>1, <1>5 DEF BoundsInv, At
  <2>2. (\A u \in All : At(u, "free") => call[u].p \notin damaged)'
    BY <1>1, <1>5 DEF BoundsInv, At
  <2>3. \A x \in Blocks : Breaking(x)' <=> Breaking(x)
    BY <1>2, <1>5 DEF Breaking, At
  <2> QED BY <1>1, <1>6, <2>1, <2>2, <2>3 DEF BoundsInv
<1>15. Own' = Own
  <2>1. ~Listed /\ ~Listed'
    BY <1>2, <1>5 DEF Listed
  <2>2. \A x : Removing(x)' <=> Removing(x)
    BY <1>2, <1>5 DEF Removing, At
  <2> QED BY <1>6, <2>1, <2>2 DEF Own
<1>16. OwnInv'
  <2>1. Waiting' = Waiting \cup {t} /\ t \notin Waiting
    BY <1>2, <1>5 DEF Waiting, At, All
  <2>2. IsFiniteSet(Waiting') /\ Cardinality(Waiting') = Cardinality(Waiting) + 1
    BY <1>1, <2>1, FS_AddElement DEF OwnInv
  <2>3. Cardinality(Own) \in Nat /\ Cardinality(Waiting) \in Nat
    BY <1>1, FS_CardinalityType DEF OwnInv
  <2> QED BY <1>1, <1>7, <1>15, <2>2, <2>3 DEF OwnInv
<1>17. \A u \in All : (Inserting(u)' <=> Inserting(u)) /\ (Inserting(u)' => call'[u] = call[u])
  BY <1>2, <1>5 DEF Inserting, At
<1>18. ItemInv'
  <2>1. \A x \in Blocks : ItemBlock(x)' <=> ItemBlock(x)
    BY <1>17 DEF ItemBlock
  <2>2. (\A x \in Blocks :
           ItemBlock(x) => x \in heap \ live /\ \A u \in All : Deleting(u) => call[u].p # x)'
    BY <1>1, <1>10, <1>11, <2>1 DEF ItemInv
  <2>3. (\A u \in All : At(u, "walk") => g_lostList # <<>>)'
    BY <1>1, <1>5 DEF ItemInv, At
  <2> QED BY <1>1, <1>17, <2>2, <2>3 DEF ItemInv
<1>19. LostInv'
  <2>1. \A x \in Blocks : Pending(x)' <=> Pending(x) \/ x = b
    BY <1>2, <1>5, <1>17 DEF Pending, At
  <2> QED BY <1>1, <1>2, <1>5, <1>7, <1>17, <2>1 DEF LostInv, At
<1> QED BY <1>8, <1>9, <1>12, <1>13, <1>14, <1>16, <1>18, <1>19 DEF IInv

LEMMA DeleteKeeps ==
  ASSUME IInv, NEW t \in Threads, Delete(t)
  PROVE  IInv'
<1>1. CASE \E b \in live : Begin(t, b) /\ live' = live \ {b} /\ UNCHANGED lost
  BY <1>1, DeleteLiveKeeps DEF Delete
<1>2. CASE /\ \E b \in Blocks \ heap : Begin(t, b) /\ lost' = Append(lost, b)
           /\ UNCHANGED live
  BY <1>2, DeleteLostKeeps DEF Delete
<1> QED BY <1>1, <1>2 DEF Delete

-----------------------------------------------------------------------------
(* GetAndRemove, InsertBound and Free.                                     *)

LEMMA MainOut ==
  ASSUME CallInv, NEW t \in Threads, ~At(t, "out")
  PROVE  At(Main, "out") /\ t # Main /\ t \in All /\ Main \in All
BY CheckAssumption DEF CallInv, All

LEMMA RemoveKeeps ==
  ASSUME IInv, NEW t \in All, GetAndRemove(t)
  PROVE  IInv'
<1> DEFINE b == call[t].p
           place == IF b \in damaged THEN "bound" ELSE "free"
           c == [at |-> place, p |-> b, item |-> call[t].item, last |-> call[t].last]
<1>1. CallInv /\ Typed /\ BlockInv /\ ReportInv /\ BoundsInv /\ OwnInv /\ ItemInv /\ LostInv
  BY DEF IInv
<1>2. /\ call[t].at = "remove" /\ g_allocList' = Without(g_allocList, b) /\ Goto(t, place)
      /\ UNCHANGED <<heap, live, damaged, g_boundList, g_lostList, news, lost, told, raced>>
  BY DEF GetAndRemove, At, memory, history
<1>3. b \in Alloc \ live /\ b \in Blocks
  BY <1>1, <1>2 DEF BlockInv, Typed, At
<1> HIDE DEF b
<1>4. Turns(t, c)
  <2>1. place \in Places /\ place \notin {"head", "walk", "link"}
    BY DEF Places, Deletes
  <2> HIDE DEF place
  <2> QED BY <1>1, <1>2, <1>3, <2>1, GotoTurns DEF b
<1>5. call'[t].at = place /\ call'[t].p = b /\ \A u \in All : u # t => call'[u] = call[u]
  BY <1>4 DEF Turns
<1>6. t \in Threads => call[Main].at = "out" /\ call'[Main].at = "out" /\ t # Main
  BY <1>1, <1>2, <1>5, MainOut DEF At
<1>7. t = Main => Listed /\ place = "free" /\ \A u \in Threads : At(u, "out")
  BY <1>1, <1>2, <1>3 DEF Listed, ReportInv, CallInv, At
<1>8. t = Main \/ t \in Threads
  BY DEF All
<1>9. /\ g_allocList' \in Seq(Blocks) /\ IsInjective(g_allocList)' /\ Alloc' = Alloc \ {b}
      /\ Bound' = Bound
  BY <1>1, <1>2, WithoutMembers DEF Alloc, Bound, BlockInv, Typed
<1>10. \A u \in All : u # t /\ Deleting(u) => call[u].p # b
  BY <1>1, <1>2 DEF BlockInv, Deleting, At, b
<1>11. CallInv'
  <2>1. c.at = place
    OBVIOUS
  <2>2. c.at \in Deletes
    BY DEF Deletes
  <2> HIDE DEF c
  <2>3. t = Main => c.at # "bound"
    BY <1>7, <2>1
  <2> QED BY <1>1, <1>4, <1>6, <1>7, <2>2, <2>3, CallKept DEF At
<1>12. Typed'
  BY <1>1, <1>2, <1>9 DEF Typed
<1>13. BlockInv'
  <2>1. (IsInjective(g_allocList) /\ IsInjective(g_boundList))'
    BY <1>1, <1>2, <1>9 DEF BlockInv
  <2>2. (/\ Alloc \subseteq heap /\ Bound \subseteq heap
         /\ Alloc \cap Bound = {} /\ Bound \cap live = {})'
    BY <1>1, <1>2, <1>9 DEF BlockInv
  <2>3. (\A u \in All : At(u, "remove") => call[u].p \in Alloc \ live)'
    BY <1>1, <1>2, <1>5, <1>9, <1>10 DEF BlockInv, At, Deleting
  <2>4. (\A u \in All : Holding(u) => call[u].p \in heap \ (Alloc \cup Bound \cup live))'
    BY <1>1, <1>2, <1>3, <1>5, <1>9 DEF BlockInv, At, Holding
  <2>5. (\A u, v \in All : u # v /\ Deleting(u) /\ Deleting(v) => call[u].p # call[v].p)'
    BY <1>1, <1>5, <1>10 DEF BlockInv, At, Deleting
  <2>6. (At(Main, "out") =>
           /\ told.leaks = {}
           /\ \A x \in heap : x \in Alloc \cup Bound
                \/ \E u \in All : Holding(u) /\ call[u].p = x)'
    <3>1. SUFFICES ASSUME call'[Main].at = "out"
          PROVE /\ told'.leaks = {}
                /\ \A x \in heap' : x \in Alloc' \cup Bound'
                     \/ \E u \in All : Holding(u)' /\ call'[u].p = x
      BY DEF At
    <3>2. t \in Threads
      BY <1>5, <1>8, <3>1
    <3>3. told.leaks = {} /\ \A x \in heap : x \in Alloc \cup Bound
                               \/ \E u \in All : Holding(u) /\ call[u].p = x
      BY <1>1, <1>6, <3>2 DEF BlockInv, At
    <3>4. Holding(t)'
      BY <1>5 DEF Holding, At
    <3>5. \A u \in All : Holding(u) => Holding(u)' /\ call'[u] = call[u]
      BY <1>2, <1>5 DEF Holding, At
    <3> QED BY <1>2, <1>5, <1>9, <3>3, <3>4, <3>5
  <2> QED BY <2>1, <2>2, <2>3, <2>4, <2>5, <2>6 DEF BlockInv
<1>14. ReportInv'
  <2>1. Listed' <=> Listed
    BY <1>2, <1>5, <1>6, <1>7, <1>8 DEF Listed
  <2>2. (At(Main, "bounds") \/ At(Main, "done"))' => t # Main
    BY <1>5 DEF At
  <2> QED BY <1>1, <1>2, <1>3, <1>5, <1>6, <1>8, <1>9, <2>1, <2>2 DEF ReportInv, At
<1>15. BoundsInv'
  <2>1. (\A u \in All : At(u, "bound") => call[u].p \in damaged)'
    BY <1>1, <1>2, <1>5 DEF BoundsInv, At
  <2>2. (\A u \in All : At(u, "free") => call[u].p \notin damaged)'
    BY <1>1, <1>2, <1>5 DEF BoundsInv, At
  <2>3. \A x \in damaged : Breaking(x)' <=> Breaking(x)
    BY <1>2, <1>5 DEF Breaking, At, b
  <2> QED BY <1>1, <1>2, <1>9, <2>1, <2>2, <2>3 DEF BoundsInv
<1>16. Own' = Own
  <2>1. CASE t = Main
    <3>1. Listed /\ Listed'
      BY <1>5, <1>7, <2>1 DEF Listed
    <3> QED BY <1>2, <3>1 DEF Own
  <2>2. CASE t \in Threads
    <3>1. ~Listed /\ ~Listed' /\ told.leaks = {}
      BY <1>1, <1>6, <2>2 DEF Listed, BlockInv, At
    <3>2. \A x : Removing(x)' /\ x # b => Removing(x)
      BY <1>5 DEF Removing, At
    <3>3. \A x : Removing(x) /\ x # b => Removing(x)'
      BY <1>2, <1>5 DEF Removing, At, b
    <3>4. Removing(b)
      BY <1>2 DEF Removing, At, b
    <3> QED BY <1>2, <1>9, <3>1, <3>2, <3>3, <3>4 DEF Own
  <2> QED BY <1>8, <2>1, <2>2
<1>17. OwnInv'
  <2>1. Waiting' = Waiting
    BY <1>2, <1>5 DEF Waiting, At, All
  <2> QED BY <1>1, <1>2, <1>16, <2>1 DEF OwnInv
<1>18. \A u \in All : (Inserting(u)' <=> Inserting(u)) /\ (Inserting(u)' => call'[u] = call[u])
  BY <1>2, <1>5 DEF Inserting, At
<1>19. ItemInv'
  <2>1. \A x \in Blocks : ItemBlock(x)' <=> ItemBlock(x)
    BY <1>2, <1>18 DEF ItemBlock
  <2>2. \A u \in All : Deleting(u)' => Deleting(u) /\ call'[u].p = call[u].p
    BY <1>2, <1>5 DEF Deleting, At, b
  <2>3. (\A x \in Blocks :
           ItemBlock(x) => x \in heap \ live /\ \A u \in All : Deleting(u) => call[u].p # x)'
    BY <1>1, <1>2, <2>1, <2>2 DEF ItemInv
  <2>4. (\A u \in All : At(u, "walk") => g_lostList # <<>>)'
    BY <1>1, <1>2, <1>5 DEF ItemInv, At
  <2> QED BY <1>1, <1>2, <1>18, <2>3, <2>4 DEF ItemInv
<1>20. LostInv'
  <2>1. \A x \in Blocks : Pending(x)' <=> Pending(x)
    BY <1>2, <1>5, <1>18 DEF Pending, At
  <2> QED BY <1>1, <1>2, <1>5, <1>18, <2>1 DEF LostInv, At
<1> QED BY <1>11, <1>12, <1>13, <1>14, <1>15, <1>17, <1>19, <1>20 DEF IInv

(* A thread that is back from MyDelete.                                    *)
LEMMA ReturnKeeps ==
  ASSUME CallInv, NEW t \in All, Return(t), ~At(t, "out")
  PROVE  /\ CallInv'
         /\ call'[t].at = IF t = Main THEN "lostList" ELSE "out"
         /\ \A u \in All : u # t => call'[u] = call[u]
<1> DEFINE c == [at |-> IF t = Main THEN "lostList" ELSE "out",
                 p |-> 0, item |-> NoItem, last |-> NoItem]
<1>1. Turns(t, c)
  BY ReturnTurns
<1>2. c.at = IF t = Main THEN "lostList" ELSE "out"
  OBVIOUS
<1>3. t = Main => \A u \in Threads : At(u, "out")
  BY DEF CallInv
<1>4. t \in Threads => t # Main
  BY CheckAssumption
<1> HIDE DEF c
<1>5. CallInv'
  BY <1>1, <1>2, <1>3, <1>4, CallKept
<1> QED BY <1>1, <1>2, <1>5 DEF Turns

LEMMA InsertBoundKeeps ==
  ASSUME IInv, NEW t \in All, InsertBound(t)
  PROVE  IInv'
<1> DEFINE b == call[t].p
<1>1. CallInv /\ Typed /\ BlockInv /\ ReportInv /\ BoundsInv /\ OwnInv /\ ItemInv /\ LostInv
  BY DEF IInv
<1>2. /\ call[t].at = "bound" /\ g_boundList' = Append(g_boundList, b) /\ Return(t)
      /\ UNCHANGED <<heap, live, damaged, g_allocList, g_lostList, news, lost, told, raced>>
  BY DEF InsertBound, At, memory, history
<1>3. t \in Threads
  BY <1>1, <1>2 DEF CallInv, All
<1>4. call[Main].at = "out" /\ t # Main /\ Main \in All
  BY <1>1, <1>2, <1>3, MainOut DEF At
<1>5. /\ CallInv' /\ call'[t].at = "out" /\ \A u \in All : u # t => call'[u] = call[u]
  BY <1>1, <1>2, <1>4, ReturnKeeps DEF At
<1>6. b \in heap \ (Alloc \cup Bound \cup live) /\ b \in damaged /\ b \in Blocks
  BY <1>1, <1>2 DEF BlockInv, Holding, BoundsInv, At, Typed
<1>7. \A u \in All : u # t /\ Deleting(u) => call[u].p # b
  BY <1>1, <1>2 DEF BlockInv, Deleting, At
<1>8. Breaking(b) /\ Holding(t) /\ \A u \in All : Holding(u) /\ call[u].p = b => u = t
  BY <1>2, <1>7 DEF Breaking, Holding, Deleting, At
<1> HIDE DEF b
<1>9. /\ g_boundList' \in Seq(Blocks) /\ IsInjective(g_boundList)' /\ Bound' = Bound \cup {b}
      /\ Alloc' = Alloc
  <2>1. b \notin ToSet(g_boundList) /\ IsInjective(g_boundList)
    BY <1>1, <1>6 DEF Bound, BlockInv
  <2> QED BY <1>1, <1>2, <1>6, <2>1, AppendMembers DEF Alloc, Bound, Typed
<1>10. Typed'
  BY <1>1, <1>2, <1>9 DEF Typed
<1>11. \A u \in All : Deleting(u)' => Deleting(u) /\ u # t /\ call'[u] = call[u]
  BY <1>5 DEF Deleting, At
<1>12. BlockInv'
  <2>1. (IsInjective(g_allocList) /\ IsInjective(g_boundList))'
    BY <1>1, <1>2, <1>9 DEF BlockInv
  <2>2. (/\ Alloc \subseteq heap /\ Bound \subseteq heap
         /\ Alloc \cap Bound = {} /\ Bound \cap live = {})'
    BY <1>1, <1>2, <1>6, <1>9 DEF BlockInv
  <2>3. (\A u \in All : At(u, "remove") => call[u].p \in Alloc \ live)'
    BY <1>1, <1>2, <1>5, <1>9 DEF BlockInv, At
  <2>4. (\A u \in All : Holding(u) => call[u].p \in heap \ (Alloc \cup Bound \cup live))'
    <3>1. \A u \in All : Holding(u)' => Holding(u) /\ call'[u] = call[u] /\ call[u].p # b
      BY <1>5, <1>8 DEF At, Holding
    <3> QED BY <1>1, <1>2, <1>9, <3>1 DEF BlockInv
  <2>5. (\A u, v \in All : u # v /\ Deleting(u) /\ Deleting(v) => call[u].p # call[v].p)'
    BY <1>1, <1>11 DEF BlockInv
  <2>6. (At(Main, "out") =>
           /\ told.leaks = {}
           /\ \A x \in heap : x \in Alloc \cup Bound
                \/ \E u \in All : Holding(u) /\ call[u].p = x)'
    <3>1. told.leaks = {} /\ \A x \in heap : x \in Alloc \cup Bound
                               \/ \E u \in All : Holding(u) /\ call[u].p = x
      BY <1>1, <1>4 DEF BlockInv, At
    <3>2. \A u \in All : u # t /\ Holding(u) => Holding(u)' /\ call'[u] = call[u]
      BY <1>5 DEF Holding, At
    <3>3. call[t].p = b
      BY DEF b
    <3> QED BY <1>2, <1>9, <3>1, <3>2, <3>3
  <2> QED BY <2>1, <2>2, <2>3, <2>4, <2>5, <2>6 DEF BlockInv
<1>13. ReportInv'
  BY <1>1, <1>2, <1>4, <1>5, <1>9 DEF ReportInv, Listed, At
<1>14. BoundsInv'
  <2>1. (\A u \in All : At(u, "bound") => call[u].p \in damaged)'
    BY <1>1, <1>2, <1>5 DEF BoundsInv, At
  <2>2. (\A u \in All : At(u, "free") => call[u].p \notin damaged)'
    BY <1>1, <1>2, <1>5 DEF BoundsInv, At
  <2>3. \A x : Breaking(x) /\ x # b => Breaking(x)'
    BY <1>5 DEF Breaking, At, b
  <2>4. \A x : Breaking(x)' => Breaking(x)
    BY <1>5 DEF Breaking, At
  <2> QED BY <1>1, <1>2, <1>6, <1>8, <1>9, <2>1, <2>2, <2>3, <2>4 DEF BoundsInv
<1>15. Own' = Own
  <2>1. ~Listed /\ ~Listed'
    BY <1>4, <1>5 DEF Listed
  <2>2. \A x : Removing(x)' <=> Removing(x)
    BY <1>2, <1>5 DEF Removing, At
  <2> QED BY <1>2, <1>9, <2>1, <2>2 DEF Own
<1>16. OwnInv'
  <2>1. Waiting' = Waiting
    BY <1>2, <1>5 DEF Waiting, At, All
  <2> QED BY <1>1, <1>2, <1>15, <2>1 DEF OwnInv
<1>17. \A u \in All : (Inserting(u)' <=> Inserting(u)) /\ (Inserting(u)' => call'[u] = call[u])
  BY <1>2, <1>5 DEF Inserting, At
<1>18. ItemInv'
  <2>1. \A x \in Blocks : ItemBlock(x)' <=> ItemBlock(x)
    BY <1>2, <1>17 DEF ItemBlock
  <2>2. (\A x \in Blocks :
           ItemBlock(x) => x \in heap \ live /\ \A u \in All : Deleting(u) => call[u].p # x)'
    BY <1>1, <1>2, <1>11, <2>1 DEF ItemInv
  <2>3. (\A u \in All : At(u, "walk") => g_lostList # <<>>)'
    BY <1>1, <1>2, <1>5 DEF ItemInv, At
  <2> QED BY <1>1, <1>2, <1>17, <2>2, <2>3 DEF ItemInv
<1>19. LostInv'
  <2>1. \A x \in Blocks : Pending(x)' <=> Pending(x)
    BY <1>2, <1>5, <1>17 DEF Pending, At
  <2> QED BY <1>1, <1>2, <1>5, <1>17, <2>1 DEF LostInv, At
<1> QED BY <1>5, <1>10, <1>12, <1>13, <1>14, <1>16, <1>18, <1>19 DEF IInv

LEMMA FreeKeeps ==
  ASSUME IInv, NEW t \in All, Free(t)
  PROVE  IInv'
<1> DEFINE b == call[t].p
<1>1. CallInv /\ Typed /\ BlockInv /\ ReportInv /\ BoundsInv /\ OwnInv /\ ItemInv /\ LostInv
  BY DEF IInv
<1>2. /\ call[t].at = "free" /\ heap' = heap \ {b} /\ Return(t)
      /\ UNCHANGED <<live, damaged, g_allocList, g_boundList, g_lostList, news, lost, told, raced>>
  BY DEF Free, At, history
<1>3. /\ CallInv' /\ call'[t].at = IF t = Main THEN "lostList" ELSE "out"
      /\ \A u \in All : u # t => call'[u] = call[u]
  BY <1>1, <1>2, ReturnKeeps DEF At
<1>4. t \in Threads => call[Main].at = "out" /\ call'[Main].at = "out" /\ t # Main
  BY <1>1, <1>2, <1>3, MainOut DEF At
<1>5. t = Main => Listed /\ Listed' /\ call'[Main].at = "lostList"
  BY <1>2, <1>3 DEF Listed
<1>6. t = Main \/ t \in Threads
  BY DEF All
<1>7. b \in heap \ (Alloc \cup Bound \cup live) /\ b \notin damaged /\ b \in Blocks
  BY <1>1, <1>2 DEF BlockInv, Holding, BoundsInv, At, Typed
<1>8. \A u \in All : u # t /\ Deleting(u) => call[u].p # b
  BY <1>1, <1>2 DEF BlockInv, Deleting, At
<1>9. Alloc' = Alloc /\ Bound' = Bound
  BY <1>2 DEF Alloc, Bound
<1>10. \A u \in All : Deleting(u)' => Deleting(u) /\ u # t /\ call'[u] = call[u]
  BY <1>3 DEF Deleting, At
<1>11. ~ItemBlock(b)
  BY <1>1, <1>2, <1>7 DEF ItemInv, Deleting, At
<1> HIDE DEF b
<1>12. Typed'
  BY <1>1, <1>2, <1>7 DEF Typed
<1>13. BlockInv'
  <2>1. (IsInjective(g_allocList) /\ IsInjective(g_boundList))'
    BY <1>1, <1>2 DEF BlockInv
  <2>2. (/\ Alloc \subseteq heap /\ Bound \subseteq heap
         /\ Alloc \cap Bound = {} /\ Bound \cap live = {})'
    BY <1>1, <1>2, <1>7, <1>9 DEF BlockInv
  <2>3. (\A u \in All : At(u, "remove") => call[u].p \in Alloc \ live)'
    BY <1>1, <1>2, <1>3, <1>9 DEF BlockInv, At
  <2>4. (\A u \in All : Holding(u) => call[u].p \in heap \ (Alloc \cup Bound \cup live))'
    <3>1. \A u \in All : Holding(u)' => Holding(u) /\ call'[u] = call[u] /\ call[u].p # b
      BY <1>3, <1>8 DEF At, Holding, Deleting
    <3> QED BY <1>1, <1>2, <1>9, <3>1 DEF BlockInv
  <2>5. (\A u, v \in All : u # v /\ Deleting(u) /\ Deleting(v) => call[u].p # call[v].p)'
    BY <1>1, <1>10 DEF BlockInv
  <2>6. (At(Main, "out") =>
           /\ told.leaks = {}
           /\ \A x \in heap : x \in Alloc \cup Bound
                \/ \E u \in All : Holding(u) /\ call[u].p = x)'
    <3>1. SUFFICES ASSUME call'[Main].at = "out"
          PROVE /\ told'.leaks = {}
                /\ \A x \in heap' : x \in Alloc' \cup Bound'
                     \/ \E u \in All : Holding(u)' /\ call'[u].p = x
      BY DEF At
    <3>2. told.leaks = {} /\ \A x \in heap : x \in Alloc \cup Bound
                               \/ \E u \in All : Holding(u) /\ call[u].p = x
      BY <1>1, <1>4, <1>5, <1>6, <3>1 DEF BlockInv, At
    <3>3. \A u \in All : u # t /\ Holding(u) => Holding(u)' /\ call'[u] = call[u]
      BY <1>3 DEF Holding, At
    <3>4. call[t].p = b
      BY DEF b
    <3> QED BY <1>2, <1>9, <3>2, <3>3, <3>4
  <2> QED BY <2>1, <2>2, <2>3, <2>4, <2>5, <2>6 DEF BlockInv
<1>14. Listed' <=> Listed
  BY <1>4, <1>5, <1>6 DEF Listed
<1>15. ReportInv'
  <2>1. (At(Main, "bounds") \/ At(Main, "done"))' => t # Main
    BY <1>3 DEF At
  <2> QED BY <1>1, <1>2, <1>4, <1>6, <1>9, <1>14, <2>1 DEF ReportInv, At
<1>16. BoundsInv'
  <2>1. (\A u \in All : At(u, "bound") => call[u].p \in damaged)'
    BY <1>1, <1>2, <1>3 DEF BoundsInv, At
  <2>2. (\A u \in All : At(u, "free") => call[u].p \notin damaged)'
    BY <1>1, <1>2, <1>3 DEF BoundsInv, At
  <2>3. \A x : Breaking(x) <=> Breaking(x)'
    BY <1>2, <1>3 DEF Breaking, At
  <2> QED BY <1>1, <1>2, <1>9, <2>1, <2>2, <2>3 DEF BoundsInv
<1>17. Own' = Own
  <2>1. \A x : Removing(x)' <=> Removing(x)
    BY <1>2, <1>3 DEF Removing, At
  <2> QED BY <1>2, <1>9, <1>14, <2>1 DEF Own
<1>18. OwnInv'
  <2>1. Waiting' = Waiting
    BY <1>2, <1>3 DEF Waiting, At, All
  <2> QED BY <1>1, <1>2, <1>17, <2>1 DEF OwnInv
<1>19. \A u \in All : (Inserting(u)' <=> Inserting(u)) /\ (Inserting(u)' => call'[u] = call[u])
  BY <1>2, <1>3 DEF Inserting, At
<1>20. ItemInv'
  <2>1. \A x \in Blocks : ItemBlock(x)' <=> ItemBlock(x)
    BY <1>2, <1>19 DEF ItemBlock
  <2>2. (\A x \in Blocks :
           ItemBlock(x) => x \in heap \ live /\ \A u \in All : Deleting(u) => call[u].p # x)'
    BY <1>1, <1>2, <1>10, <1>11, <2>1 DEF ItemInv
  <2>3. (\A u \in All : At(u, "walk") => g_lostList # <<>>)'
    BY <1>1, <1>2, <1>3 DEF ItemInv, At
  <2> QED BY <1>1, <1>2, <1>19, <2>2, <2>3 DEF ItemInv
<1>21. LostInv'
  <2>1. \A x \in Blocks : Pending(x)' <=> Pending(x)
    BY <1>2, <1>3, <1>19 DEF Pending, At
  <2> QED BY <1>1, <1>2, <1>3, <1>19, <2>1 DEF LostInv, At
<1> QED BY <1>3, <1>12, <1>13, <1>15, <1>16, <1>18, <1>20, <1>21 DEF IInv

-----------------------------------------------------------------------------
(* DataList::Insert.                                                       *)

LEMMA NewItemKeeps ==
  ASSUME IInv, NEW t \in All, NewItem(t)
  PROVE  IInv'
<1> DEFINE b == Fresh
           place == IF g_lostList = <<>> THEN "head" ELSE "walk"
           item == [block |-> b, data |-> call[t].p]
           c == [at |-> place, p |-> call[t].p, item |-> item, last |-> call[t].last]
<1>1. CallInv /\ Typed /\ BlockInv /\ ReportInv /\ BoundsInv /\ OwnInv /\ ItemInv /\ LostInv
  BY DEF IInv
<1>2. /\ call[t].at = "lost" /\ heap' = heap \cup {b} /\ g_allocList' = Append(g_allocList, b)
      /\ raced' = (raced \/ Races(t))
      /\ UNCHANGED <<live, damaged, g_boundList, g_lostList, news, lost, told>>
  BY DEF NewItem, MyAlloc, At
<1>3. b \in Blocks \ heap /\ Turns(t, c)
  BY <1>1, NewItemTurns
<1> HIDE DEF b
<1>4. /\ call'[t].at = place /\ call'[t].p = call[t].p /\ call'[t].item.block = b
      /\ \A u \in All : u # t => call'[u] = call[u]
  BY <1>3 DEF Turns
<1>5. t \in Threads => call[Main].at = "out" /\ call'[Main].at = "out" /\ t # Main
  BY <1>1, <1>2, <1>4, MainOut DEF At
<1>6. t = Main => Listed /\ Listed' /\ \A u \in Threads : At(u, "out")
  BY <1>1, <1>2, <1>4 DEF Listed, CallInv, At
<1>7. t = Main \/ t \in Threads
  BY DEF All
<1>8. /\ g_allocList' \in Seq(Blocks) /\ IsInjective(g_allocList)' /\ Alloc' = Alloc \cup {b}
      /\ Bound' = Bound
  <2>1. IsInjective(g_allocList) /\ b \notin ToSet(g_allocList)
    BY <1>1, <1>3 DEF BlockInv, Alloc
  <2> QED BY <1>1, <1>2, <1>3, <2>1, AppendMembers DEF Typed, Alloc, Bound
<1>9. CallInv'
  <2>1. c.at = place
    OBVIOUS
  <2>2. c.at \in Deletes /\ c.at # "bound"
    BY DEF Deletes
  <2> HIDE DEF c
  <2> QED BY <1>1, <1>3, <1>5, <1>6, <2>2, CallKept DEF At
<1>10. Typed'
  BY <1>1, <1>2, <1>3, <1>8 DEF Typed
<1>11. \A u \in All : (Deleting(u)' <=> Deleting(u)) /\ (Deleting(u)' => call'[u] = call[u])
  BY <1>2, <1>4 DEF Deleting, At
<1>12. BlockInv'
  <2>1. (IsInjective(g_allocList) /\ IsInjective(g_boundList))'
    BY <1>1, <1>2, <1>8 DEF BlockInv
  <2>2. (/\ Alloc \subseteq heap /\ Bound \subseteq heap
         /\ Alloc \cap Bound = {} /\ Bound \cap live = {})'
    BY <1>1, <1>2, <1>3, <1>8 DEF BlockInv
  <2>3. (\A u \in All : At(u, "remove") => call[u].p \in Alloc \ live)'
    BY <1>1, <1>2, <1>4, <1>8 DEF BlockInv, At
  <2>4. \A u \in All : (Holding(u)' <=> Holding(u)) /\ (Holding(u)' => call'[u] = call[u])
    BY <1>2, <1>4 DEF Holding, At
  <2>5. (\A u \in All : Holding(u) => call[u].p \in heap \ (Alloc \cup Bound \cup live))'
    BY <1>1, <1>2, <1>3, <1>8, <2>4 DEF BlockInv
  <2>6. (\A u, v \in All : u # v /\ Deleting(u) /\ Deleting(v) => call[u].p # call[v].p)'
    BY <1>1, <1>11 DEF BlockInv
  <2>7. (At(Main, "out") =>
           /\ told.leaks = {}
           /\ \A x \in heap : x \in Alloc \cup Bound
                \/ \E u \in All : Holding(u) /\ call[u].p = x)'
    <3>1. At(Main, "out")' => At(Main, "out")
      BY <1>4, <1>5, <1>7 DEF At
    <3> QED BY <1>1, <1>2, <1>8, <2>4, <3>1 DEF BlockInv
  <2> QED BY <2>1, <2>2, <2>3, <2>5, <2>6, <2>7 DEF BlockInv
<1>13. (Listed' <=> Listed) /\ (~Listed => t \in Threads /\ told.leaks = {})
  <2>1. Listed' <=> Listed
    BY <1>5, <1>6, <1>7 DEF Listed
  <2>2. ~Listed => t \in Threads
    BY <1>6, <1>7
  <2> QED BY <1>1, <1>5, <2>1, <2>2 DEF BlockInv, At
<1>14. ReportInv'
  <2>1. b \notin live \cup damaged
    BY <1>1, <1>3 DEF Typed
  <2>2. ~(At(Main, "bounds") \/ At(Main, "done"))'
    BY <1>4, <1>5, <1>7 DEF At
  <2> QED BY <1>1, <1>2, <1>8, <1>13, <2>1, <2>2 DEF ReportInv
<1>15. BoundsInv'
  <2>1. (\A u \in All : At(u, "bound") => call[u].p \in damaged)'
    BY <1>1, <1>2, <1>4 DEF BoundsInv, At
  <2>2. (\A u \in All : At(u, "free") => call[u].p \notin damaged)'
    BY <1>1, <1>2, <1>4 DEF BoundsInv, At
  <2>3. \A x : Breaking(x) <=> Breaking(x)'
    BY <1>2, <1>4 DEF Breaking, At
  <2> QED BY <1>1, <1>2, <1>8, <2>1, <2>2, <2>3 DEF BoundsInv
<1>16. OwnInv'
  <2>1. Cardinality(Own) \in Nat /\ Cardinality(Waiting) \in Nat
    BY <1>1, FS_CardinalityType DEF OwnInv
  <2>2. \A x : Removing(x)' <=> Removing(x)
    BY <1>2, <1>4 DEF Removing, At
  <2>3. CASE t = Main
    <3>1. Own' = Own
      BY <1>2, <1>6, <2>3 DEF Own
    <3>2. Waiting' = Waiting
      BY <1>2, <1>4, <1>7, <2>3, CheckAssumption DEF Waiting, At, All
    <3> QED BY <1>1, <1>2, <3>1, <3>2 DEF OwnInv
  <2>4. CASE t \in Threads
    <3>1. ~Listed /\ ~Listed' /\ told.leaks = {}
      BY <1>1, <1>5, <2>4 DEF Listed, BlockInv, At
    <3>2. b \notin Alloc /\ b \notin live
      BY <1>1, <1>3 DEF BlockInv, Typed
    <3>3. ~Removing(b)
      BY <1>1, <3>2 DEF Removing, BlockInv
    <3>4. Own' = Own \cup {b} /\ b \notin Own
      BY <1>2, <1>8, <2>2, <3>1, <3>2, <3>3 DEF Own
    <3>5. Waiting' = Waiting \ {t} /\ t \in Waiting
      BY <1>2, <1>4, <2>4 DEF Waiting, At, All
    <3>6. IsFiniteSet(Own') /\ Cardinality(Own') = Cardinality(Own) + 1
      BY <1>1, <3>4, FS_AddElement DEF OwnInv
    <3>7. IsFiniteSet(Waiting') /\ Cardinality(Waiting') = Cardinality(Waiting) - 1
      BY <1>1, <3>5, FS_RemoveElement DEF OwnInv
    <3>8. Len(lost) \in Nat
      BY <1>1, LenProperties DEF Typed
    <3> QED BY <1>1, <1>2, <2>1, <3>6, <3>7, <3>8 DEF OwnInv
  <2> QED BY <1>7, <2>3, <2>4
<1>17. \A u \in All : Inserting(u)' <=> Inserting(u) \/ u = t
  BY <1>4 DEF Inserting, At
<1>18. \A u \in All : Inserting(u) => u # t /\ call'[u] = call[u]
  BY <1>2, <1>4 DEF Inserting, At
<1>19. ItemInv'
  <2>1. \A x \in Blocks : ItemBlock(x) => x # b
    BY <1>1, <1>3 DEF ItemInv
  <2>2. b \notin BlocksOf(g_lostList)
    BY <1>1, <1>3, <2>1 DEF ItemBlock
  <2>3. \A u \in All : Inserting(u) => call[u].item.block # b
    BY <1>1, <1>3, <2>1 DEF ItemBlock
  <2>4. (\A u \in All : Inserting(u) => call[u].item.block \notin BlocksOf(g_lostList))'
    BY <1>1, <1>2, <1>4, <1>17, <1>18, <2>2 DEF ItemInv
  <2>5. (\A u, v \in All :
           u # v /\ Inserting(u) /\ Inserting(v) => call[u].item.block # call[v].item.block)'
    BY <1>1, <1>4, <1>17, <1>18, <2>3 DEF ItemInv
  <2>6. \A x \in Blocks : ItemBlock(x)' <=> ItemBlock(x) \/ x = b
    BY <1>2, <1>4, <1>17, <1>18 DEF ItemBlock
  <2>7. \A u \in All : Deleting(u) => call[u].p # b
    BY <1>1, <1>3 DEF BlockInv, Deleting, Holding
  <2>8. b \notin live
    BY <1>1, <1>3 DEF Typed
  <2>9. (\A x \in Blocks :
           ItemBlock(x) => x \in heap \ live /\ \A u \in All : Deleting(u) => call[u].p # x)'
    BY <1>1, <1>2, <1>11, <2>6, <2>7, <2>8 DEF ItemInv
  <2>10. (\A u \in All : At(u, "walk") => g_lostList # <<>>)'
    BY <1>1, <1>2, <1>4 DEF ItemInv, At
  <2> QED BY <1>1, <1>2, <2>4, <2>5, <2>9, <2>10 DEF ItemInv
<1>20. LostInv'
  <2> SUFFICES ASSUME ~raced' PROVE LostInv'
    BY DEF LostInv
  <2>1. ~raced /\ ~Races(t)
    BY <1>2
  <2>2. \A u \in All : u # t => ~Inserting(u)
    BY <2>1 DEF Races, Inserting, At, All
  <2>3. \A x \in Blocks : Pending(x) => Pending(x)'
    BY <1>4, <1>17 DEF Pending, At
  <2>4. (\A u, v \in All : Inserting(u) /\ Inserting(v) => u = v)'
    BY <1>17, <2>2
  <2>5. (\A u \in All : At(u, "head") => g_lostList = <<>>)'
    BY <1>1, <1>2, <1>4, <2>1 DEF LostInv, At
  <2>6. (\A u \in All : At(u, "link") => g_lostList # <<>> /\ call[u].last = Last(g_lostList))'
    BY <1>1, <1>2, <1>4, <2>1 DEF LostInv, At
  <2> QED BY <1>1, <1>2, <2>1, <2>3, <2>4, <2>5, <2>6 DEF LostInv
<1> QED BY <1>9, <1>10, <1>12, <1>14, <1>15, <1>16, <1>19, <1>20 DEF IInv

(* The steps behind the new item leave the blocks as they are.             *)
LEMMA InsertFrame ==
  ASSUME IInv, NEW t \in All, Inserting(t), CallInv',
         call'[t].at = "link" \/ call'[t].at = IF t = Main THEN "lostList" ELSE "out",
         \A u \in All : u # t => call'[u] = call[u],
         UNCHANGED <<heap, live, damaged, g_allocList, g_boundList, news, lost, told>>
  PROVE  /\ BlockInv' /\ ReportInv' /\ BoundsInv' /\ OwnInv'
         /\ \A u \in All : (Deleting(u)' <=> Deleting(u)) /\ (Deleting(u)' => call'[u] = call[u])
<1>1. CallInv /\ Typed /\ BlockInv /\ ReportInv /\ BoundsInv /\ OwnInv
  BY DEF IInv
<1>2. call[t].at \in {"head", "walk", "link"}
  BY DEF Inserting, At
<1>3. t \in Threads => call[Main].at = "out" /\ call'[Main].at = "out" /\ t # Main
  BY <1>1, <1>2, MainOut DEF At
<1>4. t = Main => Listed /\ Listed' /\ ~At(Main, "out")' /\ ~At(Main, "bounds")' /\ ~At(Main, "done")'
  BY <1>2 DEF Listed, At
<1>5. t = Main \/ t \in Threads
  BY DEF All
<1>6. Alloc' = Alloc /\ Bound' = Bound
  BY DEF Alloc, Bound
<1>7. \A u \in All : (Deleting(u)' <=> Deleting(u)) /\ (Deleting(u)' => call'[u] = call[u])
  BY <1>2 DEF Deleting, At
<1>8. \A u \in All : (Holding(u)' <=> Holding(u)) /\ (Holding(u)' => call'[u] = call[u])
  BY <1>2 DEF Holding, At
<1>9. \A u \in All : (At(u, "remove")' <=> At(u, "remove"))
                       /\ (At(u, "remove")' => call'[u] = call[u])
  BY <1>2 DEF At
<1>10. \A x : (Breaking(x)' <=> Breaking(x)) /\ (Removing(x)' <=> Removing(x))
  BY <1>2 DEF Breaking, Removing, At
<1>11. Listed' <=> Listed
  BY <1>3, <1>4, <1>5 DEF Listed
<1>12. BlockInv'
  <2>1. (/\ IsInjective(g_allocList) /\ IsInjective(g_boundList)
         /\ Alloc \subseteq heap /\ Bound \subseteq heap
         /\ Alloc \cap Bound = {} /\ Bound \cap live = {})'
    BY <1>1, <1>6 DEF BlockInv
  <2>2. (\A u \in All : At(u, "remove") => call[u].p \in Alloc \ live)'
    BY <1>1, <1>6, <1>9 DEF BlockInv
  <2>3. (\A u \in All : Holding(u) => call[u].p \in heap \ (Alloc \cup Bound \cup live))'
    BY <1>1, <1>6, <1>8 DEF BlockInv
  <2>4. (\A u, v \in All : u # v /\ Deleting(u) /\ Deleting(v) => call[u].p # call[v].p)'
    BY <1>1, <1>7 DEF BlockInv
  <2>5. (At(Main, "out") =>
           /\ told.leaks = {}
           /\ \A x \in heap : x \in Alloc \cup Bound
                \/ \E u \in All : Holding(u) /\ call[u].p = x)'
    <3>1. At(Main, "out")' => At(Main, "out")
      BY <1>3, <1>4, <1>5 DEF At
    <3> QED BY <1>1, <1>6, <1>8, <3>1 DEF BlockInv
  <2> QED BY <2>1, <2>2, <2>3, <2>4, <2>5 DEF BlockInv
<1>13. ReportInv'
  <2>1. ~(At(Main, "bounds") \/ At(Main, "done"))'
    BY <1>3, <1>4, <1>5 DEF At
  <2> QED BY <1>1, <1>6, <1>11, <2>1 DEF ReportInv
<1>14. BoundsInv'
  <2>1. (\A u \in All : At(u, "bound") => call[u].p \in damaged)'
    BY <1>1, <1>2 DEF BoundsInv, At
  <2>2. (\A u \in All : At(u, "free") => call[u].p \notin damaged)'
    BY <1>1, <1>2 DEF BoundsInv, At
  <2> QED BY <1>1, <1>6, <1>10, <2>1, <2>2 DEF BoundsInv
<1>15. OwnInv'
  <2>1. Own' = Own
    BY <1>6, <1>10, <1>11 DEF Own
  <2>2. Waiting' = Waiting
    BY <1>2 DEF Waiting, At, All
  <2> QED BY <1>1, <2>1, <2>2 DEF OwnInv
<1> QED BY <1>7, <1>12, <1>13, <1>14, <1>15

LEMMA SetHeadKeeps ==
  ASSUME IInv, NEW t \in All, SetHead(t)
  PROVE  IInv'
<1> DEFINE item == call[t].item
<1>1. CallInv /\ Typed /\ ItemInv /\ LostInv
  BY DEF IInv
<1>2. /\ call[t].at = "head" /\ g_lostList' = <<item>> /\ Return(t)
      /\ UNCHANGED <<heap, live, damaged, g_allocList, g_boundList, news, lost, told, raced>>
  BY DEF SetHead, At, memory, history
<1>3. item \in Items /\ item.data = call[t].p /\ item.block \in Blocks
  BY <1>1, <1>2 DEF CallInv, Ready, Items
<1>4. /\ CallInv' /\ call'[t].at = IF t = Main THEN "lostList" ELSE "out"
      /\ \A u \in All : u # t => call'[u] = call[u]
  BY <1>1, <1>2, ReturnKeeps DEF At
<1>5. Inserting(t)
  BY <1>2 DEF Inserting, At
<1>6. /\ BlockInv' /\ ReportInv' /\ BoundsInv' /\ OwnInv'
      /\ \A u \in All : (Deleting(u)' <=> Deleting(u)) /\ (Deleting(u)' => call'[u] = call[u])
  BY <1>2, <1>4, <1>5, InsertFrame
<1> HIDE DEF item
<1>7. /\ g_lostList' \in Seq(Items) /\ g_lostList' # <<>> /\ Apart(g_lostList')
      /\ BlocksOf(g_lostList') = {item.block} /\ DataOf(g_lostList') = {item.data}
  <2> DEFINE new == Append(<<>>, item)
  <2>1. g_lostList' = new
    BY <1>2
  <2> HIDE DEF new
  <2>2. <<>> \in Seq(Items)
    OBVIOUS
  <2>3. /\ new \in Seq(Items) /\ new # <<>> /\ Apart(new)
        /\ BlocksOf(new) = {} \cup {item.block} /\ DataOf(new) = {} \cup {item.data}
    BY <1>3, <2>2, ItemMembers, EmptyMembers DEF new
  <2> QED BY <2>1, <2>3
<1>8. Typed'
  BY <1>1, <1>2, <1>7 DEF Typed
<1>9. \A u \in All : Inserting(u)' => Inserting(u) /\ u # t /\ call'[u] = call[u]
  BY <1>4 DEF Inserting, At
<1>10. ItemInv'
  <2>1. (\A u \in All : Inserting(u) => call[u].item.block \notin BlocksOf(g_lostList))'
    BY <1>1, <1>5, <1>7, <1>9 DEF ItemInv, item
  <2>2. (\A u, v \in All :
           u # v /\ Inserting(u) /\ Inserting(v) => call[u].item.block # call[v].item.block)'
    BY <1>1, <1>9 DEF ItemInv
  <2>3. \A x \in Blocks : ItemBlock(x)' => ItemBlock(x)
    BY <1>5, <1>7, <1>9 DEF ItemBlock, item
  <2>4. (\A x \in Blocks :
           ItemBlock(x) => x \in heap \ live /\ \A u \in All : Deleting(u) => call[u].p # x)'
    BY <1>1, <1>2, <1>6, <2>3 DEF ItemInv
  <2>5. (\A u \in All : At(u, "walk") => g_lostList # <<>>)'
    BY <1>7 DEF At
  <2> QED BY <1>7, <2>1, <2>2, <2>4, <2>5 DEF ItemInv
<1>11. LostInv'
  <2> SUFFICES ASSUME ~raced' PROVE LostInv'
    BY DEF LostInv
  <2>1. ~raced
    BY <1>2
  <2>2. \A u \in All : ~Inserting(u)'
    BY <1>1, <1>5, <1>9, <2>1 DEF LostInv
  <2>3. \A u \in All : ~At(u, "head")' /\ ~At(u, "link")'
    BY <2>2 DEF Inserting, At
  <2>4. DataOf(g_lostList) = {}
    BY <1>1, <1>2, <2>1, EmptyMembers DEF LostInv, At
  <2>5. \A x \in Blocks : Pending(x) => x = item.data \/ Pending(x)'
    <3>1. \A u \in All : At(u, "lost") => At(u, "lost")' /\ call'[u] = call[u]
      BY <1>2, <1>4 DEF At
    <3>2. \A u \in All : Inserting(u) => u = t
      BY <1>1, <1>5, <2>1 DEF LostInv
    <3> QED BY <1>3, <3>1, <3>2 DEF Pending
  <2>6. (\A x \in Blocks : x \in ToSet(lost) =>
           x \in told.lost \cup DataOf(g_lostList) \/ Pending(x))'
    BY <1>1, <1>2, <1>7, <2>1, <2>4, <2>5 DEF LostInv
  <2> QED BY <2>2, <2>3, <2>6 DEF LostInv
<1> QED BY <1>4, <1>6, <1>8, <1>10, <1>11 DEF IInv

LEMMA WalkKeeps ==
  ASSUME IInv, NEW t \in All, Walk(t)
  PROVE  IInv'
<1> DEFINE last == Last(g_lostList)
           c == [at |-> "link", p |-> call[t].p, item |-> call[t].item, last |-> last]
<1>1. CallInv /\ Typed /\ ItemInv /\ LostInv
  BY DEF IInv
<1>2. /\ call[t].at = "walk"
      /\ UNCHANGED <<heap, live, damaged, g_allocList, g_boundList, g_lostList, news, lost,
                     told, raced>>
  BY DEF Walk, At, memory, history
<1>3. g_lostList # <<>>
  BY <1>1, <1>2 DEF ItemInv, At
<1>4. Turns(t, c)
  BY <1>1, <1>3, WalkTurns
<1> HIDE DEF last
<1>5. /\ call'[t].at = "link" /\ call'[t].p = call[t].p /\ call'[t].item = call[t].item
      /\ call'[t].last = last /\ \A u \in All : u # t => call'[u] = call[u]
  BY <1>4 DEF Turns
<1>6. CallInv'
  <2>1. c.at = "link"
    OBVIOUS
  <2>2. c.at \in Deletes /\ c.at # "bound"
    BY <2>1 DEF Deletes
  <2> HIDE DEF c
  <2>3. t \in Threads => At(Main, "out")
    BY <1>1, <1>2, MainOut DEF At
  <2>4. t = Main => \A u \in Threads : At(u, "out")
    BY <1>1, <1>2 DEF CallInv, At
  <2> QED BY <1>1, <1>4, <2>2, <2>3, <2>4, CallKept
<1>7. Inserting(t)
  BY <1>2 DEF Inserting, At
<1>8. /\ BlockInv' /\ ReportInv' /\ BoundsInv' /\ OwnInv'
      /\ \A u \in All : (Deleting(u)' <=> Deleting(u)) /\ (Deleting(u)' => call'[u] = call[u])
  BY <1>2, <1>5, <1>6, <1>7, InsertFrame
<1>9. Typed'
  BY <1>1, <1>2 DEF Typed
<1>10. \A u \in All : /\ Inserting(u)' <=> Inserting(u)
                      /\ Inserting(u)' => call'[u].item = call[u].item /\ call'[u].p = call[u].p
  BY <1>2, <1>5 DEF Inserting, At
<1>11. ItemInv'
  <2>1. \A x \in Blocks : ItemBlock(x)' <=> ItemBlock(x)
    BY <1>2, <1>10 DEF ItemBlock
  <2>2. (\A x \in Blocks :
           ItemBlock(x) => x \in heap \ live /\ \A u \in All : Deleting(u) => call[u].p # x)'
    BY <1>1, <1>2, <1>8, <2>1 DEF ItemInv
  <2>3. (\A u \in All : At(u, "walk") => g_lostList # <<>>)'
    BY <1>2, <1>3
  <2> QED BY <1>1, <1>2, <1>10, <2>2, <2>3 DEF ItemInv
<1>12. LostInv'
  <2> SUFFICES ASSUME ~raced' PROVE LostInv'
    BY DEF LostInv
  <2>1. ~raced
    BY <1>2
  <2>2. (\A u, v \in All : Inserting(u) /\ Inserting(v) => u = v)'
    BY <1>1, <1>10, <2>1 DEF LostInv
  <2>3. (\A u \in All : At(u, "head") => g_lostList = <<>>)'
    BY <1>1, <1>2, <1>5, <2>1 DEF LostInv, At
  <2>4. (\A u \in All : At(u, "link") => g_lostList # <<>> /\ call[u].last = Last(g_lostList))'
    BY <1>1, <1>2, <1>3, <1>5, <2>1 DEF LostInv, At, last
  <2>5. \A x \in Blocks : Pending(x) => Pending(x)'
    BY <1>2, <1>5, <1>10 DEF Pending, At
  <2>6. (\A x \in Blocks : x \in ToSet(lost) =>
           x \in told.lost \cup DataOf(g_lostList) \/ Pending(x))'
    BY <1>1, <1>2, <2>1, <2>5 DEF LostInv
  <2> QED BY <2>2, <2>3, <2>4, <2>6 DEF LostInv
<1> QED BY <1>6, <1>8, <1>9, <1>11, <1>12 DEF IInv

(* What a link makes of the list.                                          *)
LEMMA LinkedList ==
  ASSUME IInv, NEW t \in All, Link(t)
  PROVE  /\ g_lostList' \in Seq(Items) /\ Apart(g_lostList')
         /\ BlocksOf(g_lostList') \subseteq BlocksOf(g_lostList) \cup {call[t].item.block}
         /\ g_lostList # <<>> => g_lostList' # <<>>
         /\ ~raced => DataOf(g_lostList') = DataOf(g_lostList) \cup {call[t].item.data}
<1> DEFINE item == call[t].item
           last == call[t].last
<1>1. CallInv /\ Typed /\ ItemInv /\ LostInv
  BY DEF IInv
<1>2. call[t].at = "link" /\ Inserting(t)
  BY DEF Link, At, Inserting
<1>3. item \in Items
  BY <1>1, <1>2 DEF CallInv, Ready
<1>4. g_lostList \in Seq(Items) /\ Apart(g_lostList) /\ item.block \notin BlocksOf(g_lostList)
  BY <1>1, <1>2 DEF Typed, ItemInv
<1>5. Len(g_lostList) \in Nat
  BY <1>4, LenProperties
<1>6. /\ Contains(g_lostList, last) =>
           \E i \in 1..Len(g_lostList) :
             /\ g_lostList[i] = last
             /\ g_lostList' = Append(SubSeq(g_lostList, 1, i), item)
      /\ ~Contains(g_lostList, last) => g_lostList' = g_lostList
  BY DEF Link
<1>7. ~raced => /\ g_lostList # <<>> /\ last = g_lostList[Len(g_lostList)]
                /\ Len(g_lostList) \in 1..Len(g_lostList)
  <2>1. ~raced => g_lostList # <<>> /\ last = Last(g_lostList)
    BY <1>1, <1>2 DEF LostInv, At
  <2>2. g_lostList # <<>> => Len(g_lostList) \in 1..Len(g_lostList)
    BY <1>4, <1>5, EmptySeq
  <2> QED BY <2>1, <2>2 DEF Last
<1> HIDE DEF item, last
<1>8. CASE Contains(g_lostList, last)
  <2>1. PICK i \in 1..Len(g_lostList) :
          g_lostList[i] = last /\ g_lostList' = Append(SubSeq(g_lostList, 1, i), item)
    BY <1>6, <1>8
  <2> DEFINE kept == SubSeq(g_lostList, 1, i)
  <2>2. /\ kept \in Seq(Items) /\ BlocksOf(kept) \subseteq BlocksOf(g_lostList)
        /\ Apart(kept) /\ (i = Len(g_lostList) => kept = g_lostList)
    BY <1>4, ItemPrefix
  <2>3. g_lostList' = Append(kept, item)
    BY <2>1
  <2> HIDE DEF kept
  <2>4. /\ g_lostList' \in Seq(Items) /\ g_lostList' # <<>> /\ Apart(g_lostList')
        /\ BlocksOf(g_lostList') = BlocksOf(kept) \cup {item.block}
        /\ DataOf(g_lostList') = DataOf(kept) \cup {item.data}
    BY <1>3, <1>4, <2>2, <2>3, ItemMembers
  <2>5. ~raced => i = Len(g_lostList)
    BY <1>4, <1>7, <2>1 DEF Apart
  <2> QED BY <2>2, <2>4, <2>5 DEF item
<1>9. CASE ~Contains(g_lostList, last)
  <2>1. \A e : Contains(g_lostList, e) <=> \E i \in 1..Len(g_lostList) : g_lostList[i] = e
    BY <1>4, ListMembers
  <2>2. raced
    BY <1>7, <1>9, <2>1
  <2> QED BY <1>4, <1>6, <1>9, <2>2
<1> QED BY <1>8, <1>9

LEMMA LinkKeeps ==
  ASSUME IInv, NEW t \in All, Link(t)
  PROVE  IInv'
<1> DEFINE item == call[t].item
<1>1. CallInv /\ Typed /\ ItemInv /\ LostInv
  BY DEF IInv
<1>2. /\ call[t].at = "link" /\ Return(t)
      /\ UNCHANGED <<heap, live, damaged, g_allocList, g_boundList, news, lost, told, raced>>
  BY DEF Link, At, memory, history
<1>3. item \in Items /\ item.data = call[t].p
  BY <1>1, <1>2 DEF CallInv, Ready
<1>4. /\ CallInv' /\ call'[t].at = IF t = Main THEN "lostList" ELSE "out"
      /\ \A u \in All : u # t => call'[u] = call[u]
  BY <1>1, <1>2, ReturnKeeps DEF At
<1>5. Inserting(t)
  BY <1>2 DEF Inserting, At
<1>6. /\ BlockInv' /\ ReportInv' /\ BoundsInv' /\ OwnInv'
      /\ \A u \in All : (Deleting(u)' <=> Deleting(u)) /\ (Deleting(u)' => call'[u] = call[u])
  BY <1>2, <1>4, <1>5, InsertFrame
<1>7. /\ g_lostList' \in Seq(Items) /\ Apart(g_lostList')
      /\ BlocksOf(g_lostList') \subseteq BlocksOf(g_lostList) \cup {item.block}
      /\ g_lostList # <<>> => g_lostList' # <<>>
      /\ ~raced => DataOf(g_lostList') = DataOf(g_lostList) \cup {item.data}
  BY LinkedList
<1> HIDE DEF item
<1>8. Typed'
  BY <1>1, <1>2, <1>7 DEF Typed
<1>9. \A u \in All : Inserting(u)' => Inserting(u) /\ u # t /\ call'[u] = call[u]
  BY <1>4 DEF Inserting, At
<1>10. ItemInv'
  <2>1. \A u \in All : Inserting(u) /\ u # t => call[u].item.block # item.block
    BY <1>1, <1>5 DEF ItemInv, item
  <2>2. (\A u \in All : Inserting(u) => call[u].item.block \notin BlocksOf(g_lostList))'
    BY <1>1, <1>7, <1>9, <2>1 DEF ItemInv
  <2>3. (\A u, v \in All :
           u # v /\ Inserting(u) /\ Inserting(v) => call[u].item.block # call[v].item.block)'
    BY <1>1, <1>9 DEF ItemInv
  <2>4. \A x \in Blocks : ItemBlock(x)' => ItemBlock(x)
    BY <1>5, <1>7, <1>9 DEF ItemBlock, item
  <2>5. (\A x \in Blocks :
           ItemBlock(x) => x \in heap \ live /\ \A u \in All : Deleting(u) => call[u].p # x)'
    BY <1>1, <1>2, <1>6, <2>4 DEF ItemInv
  <2>6. (\A u \in All : At(u, "walk") => g_lostList # <<>>)'
    BY <1>1, <1>4, <1>7 DEF ItemInv, At
  <2> QED BY <1>7, <2>2, <2>3, <2>5, <2>6 DEF ItemInv
<1>11. LostInv'
  <2> SUFFICES ASSUME ~raced' PROVE LostInv'
    BY DEF LostInv
  <2>1. ~raced
    BY <1>2
  <2>2. \A u \in All : ~Inserting(u)'
    BY <1>1, <1>5, <1>9, <2>1 DEF LostInv
  <2>3. \A u \in All : ~At(u, "head")' /\ ~At(u, "link")'
    BY <2>2 DEF Inserting, At
  <2>4. \A x \in Blocks : Pending(x) => x = item.data \/ Pending(x)'
    <3>1. \A u \in All : At(u, "lost") => At(u, "lost")' /\ call'[u] = call[u]
      BY <1>2, <1>4 DEF At
    <3>2. \A u \in All : Inserting(u) => u = t
      BY <1>1, <1>5, <2>1 DEF LostInv
    <3> QED BY <1>3, <3>1, <3>2 DEF Pending
  <2>5. (\A x \in Blocks : x \in ToSet(lost) =>
           x \in told.lost \cup DataOf(g_lostList) \/ Pending(x))'
    BY <1>1, <1>2, <1>7, <2>1, <2>4 DEF LostInv
  <2> QED BY <2>2, <2>3, <2>5 DEF LostInv
<1> QED BY <1>4, <1>6, <1>8, <1>10, <1>11 DEF IInv

-----------------------------------------------------------------------------
(* The report.                                                             *)

(* While it takes the lists apart, no thread is in MyDelete.               *)
LEMMA NoDelete ==
  ASSUME CallInv, call[Main].at \notin Deletes, \A u \in Threads : At(u, "out")
  PROVE  \A u \in All : call[u].at \notin Deletes
BY DEF All, At, Deletes

(* A step of the report from one place to another.                         *)
LEMMA ReportGoes ==
  ASSUME IInv, NEW place \in {"leaks", "bounds", "lostList", "done"}, Goto(Main, place),
         call[Main].at \notin Deletes, \A u \in Threads : At(u, "out"),
         UNCHANGED <<memory, g_allocList, g_boundList, g_lostList, history>>,
         place = "bounds" => g_allocList = <<>> /\ call[Main].at = "leaks",
         place = "lostList" => g_boundList = <<>> /\ call[Main].at = "bounds",
         place = "done" => g_lostList = <<>> /\ call[Main].at = "lostList",
         place = "leaks" => call[Main].at = "out"
  PROVE  IInv'
<1> DEFINE c == [at |-> place, p |-> call[Main].p, item |-> call[Main].item,
                 last |-> call[Main].last]
<1>1. CallInv /\ Typed /\ BlockInv /\ ReportInv /\ BoundsInv /\ OwnInv /\ ItemInv /\ LostInv
  BY DEF IInv
<1>2. UNCHANGED <<heap, live, damaged, g_allocList, g_boundList, g_lostList, news, lost,
                  told, raced>>
  BY DEF memory, history
<1>3. Main \in All /\ place \in Places /\ place \notin Deletes /\ place # "out"
  BY DEF All, Places, Deletes
<1>4. Turns(Main, c)
  <2>1. place \notin {"head", "walk", "link"}
    BY <1>3 DEF Deletes
  <2> QED BY <1>1, <1>3, <2>1, GotoTurns
<1>5. call'[Main].at = place /\ \A u \in All : u # Main => call'[u] = call[u]
  BY <1>4 DEF Turns
<1>6. CallInv'
  <2>1. c.at = place
    OBVIOUS
  <2>2. c.at # "bound"
    BY <2>1
  <2> HIDE DEF c
  <2> QED BY <1>1, <1>3, <1>4, <2>2, CheckAssumption, CallKept
<1>7. \A u \in All : call[u].at \notin Deletes /\ call'[u].at \notin Deletes
  <2>1. \A u \in All : call[u].at \notin Deletes
    BY <1>1, NoDelete
  <2> QED BY <1>3, <1>5, <2>1
<1>8. \A u \in All : /\ ~Deleting(u) /\ ~Holding(u) /\ ~Inserting(u) /\ ~At(u, "lost")
                     /\ ~Deleting(u)' /\ ~Holding(u)' /\ ~Inserting(u)' /\ ~At(u, "lost")'
  BY <1>7 DEF Deleting, Holding, Inserting, At, Deletes
<1>9. Alloc' = Alloc /\ Bound' = Bound
  BY <1>2 DEF Alloc, Bound
<1>10. Typed'
  BY <1>1, <1>2 DEF Typed
<1>11. BlockInv'
  <2>1. ~At(Main, "out")'
    BY <1>3, <1>5 DEF At
  <2> QED BY <1>1, <1>2, <1>8, <1>9, <2>1 DEF BlockInv, Deleting
<1>12. Alloc = {} \/ call[Main].at \in {"out", "leaks"} \/ Listed
  BY <1>1, <1>7, CheckAssumption, EmptyMembers DEF ReportInv, CallInv, At, Places, Deletes, Listed
<1>13. (Listed' => Listed \/ (Alloc = {} /\ g_boundList = <<>>)) /\ (Listed => Listed')
  BY <1>5, <1>12 DEF Listed
<1>14. ReportInv'
  <2>1. (live \subseteq told.leaks \cup Alloc)'
    BY <1>1, <1>2, <1>9 DEF ReportInv
  <2>2. (At(Main, "bounds") => Alloc = {})'
    BY <1>5, <1>9, EmptyMembers DEF At, Alloc
  <2>3. (Listed => Alloc \cap (live \cup damaged) = {} /\ g_boundList = <<>>)'
    BY <1>1, <1>2, <1>9, <1>13 DEF ReportInv
  <2>4. (At(Main, "done") => g_lostList = <<>>)'
    BY <1>2, <1>5 DEF At
  <2> QED BY <2>1, <2>2, <2>3, <2>4 DEF ReportInv
<1>15. BoundsInv'
  <2>1. \A x : ~Breaking(x) /\ ~Breaking(x)'
    BY <1>7 DEF Breaking, At, Deletes
  <2>2. (\A u \in All : At(u, "bound") => call[u].p \in damaged)'
    BY <1>8 DEF Holding
  <2>3. (\A u \in All : At(u, "free") => call[u].p \notin damaged)'
    BY <1>8 DEF Holding
  <2>4. (\A x \in Blocks : x \in damaged \ live <=>
           x \in told.bounds \cup Bound \/ (x \in damaged /\ Breaking(x)))'
    BY <1>1, <1>2, <1>9, <2>1 DEF BoundsInv
  <2> QED BY <2>2, <2>3, <2>4 DEF BoundsInv
<1>16. OwnInv'
  <2>1. \A x : ~Removing(x) /\ ~Removing(x)'
    BY <1>7 DEF Removing, At, Deletes
  <2>2. Own' = Own
    <3>1. CASE Listed' <=> Listed
      BY <1>2, <1>9, <2>1, <3>1 DEF Own
    <3>2. CASE Listed' /\ ~Listed
      <4>1. Alloc = {}
        BY <1>13, <3>2
      <4> QED BY <1>2, <1>9, <2>1, <3>2, <4>1 DEF Own
    <3> QED BY <1>13, <3>1, <3>2
  <2>3. Waiting' = Waiting
    BY <1>8 DEF Waiting, All
  <2> QED BY <1>1, <1>2, <2>2, <2>3 DEF OwnInv
<1>17. ItemInv'
  <2>1. \A x \in Blocks : ItemBlock(x)' => ItemBlock(x)
    BY <1>2, <1>8 DEF ItemBlock
  <2>2. (\A u \in All : At(u, "walk") => g_lostList # <<>>)'
    BY <1>8 DEF Inserting
  <2> QED BY <1>1, <1>2, <1>8, <2>1, <2>2 DEF ItemInv
<1>18. LostInv'
  <2>1. \A x : ~Pending(x)
    BY <1>8 DEF Pending
  <2>2. \A u \in All : ~At(u, "head")' /\ ~At(u, "link")'
    BY <1>8 DEF Inserting
  <2> QED BY <1>1, <1>2, <1>8, <2>1, <2>2 DEF LostInv
<1> QED BY <1>6, <1>10, <1>11, <1>14, <1>15, <1>16, <1>17, <1>18 DEF IInv

LEMMA ReportKeeps ==
  ASSUME IInv, Report
  PROVE  IInv'
<1>1. \A u \in All : call[u].at = "out"
  BY DEF Report, All, At
<1>2. Main \in All /\ call[Main].at = "out" /\ call[Main].at \notin Deletes
  BY <1>1 DEF All, Deletes
<1>3. \A u \in Threads : At(u, "out")
  BY <1>1 DEF All, At
<1> QED BY <1>2, <1>3, ReportGoes DEF Report

(* What the report says: a field of told grows.                            *)
LEMMA Tells ==
  ASSUME Typed, NEW b \in Blocks
  PROVE  /\ told' = [told EXCEPT !.leaks = @ \cup {b}] =>
              /\ told' \in [leaks : SUBSET Blocks, bounds : SUBSET Blocks, lost : SUBSET Blocks]
              /\ told'.leaks = told.leaks \cup {b}
              /\ told'.bounds = told.bounds /\ told'.lost = told.lost
         /\ told' = [told EXCEPT !.bounds = @ \cup {b}] =>
              /\ told' \in [leaks : SUBSET Blocks, bounds : SUBSET Blocks, lost : SUBSET Blocks]
              /\ told'.bounds = told.bounds \cup {b}
              /\ told'.leaks = told.leaks /\ told'.lost = told.lost
         /\ told' = [told EXCEPT !.lost = @ \cup {b}] =>
              /\ told' \in [leaks : SUBSET Blocks, bounds : SUBSET Blocks, lost : SUBSET Blocks]
              /\ told'.lost = told.lost \cup {b}
              /\ told'.leaks = told.leaks /\ told'.bounds = told.bounds
BY DEF Typed

LEMMA TellLeakKeeps ==
  ASSUME IInv, At(Main, "leaks"), g_allocList # <<>>,
         told' = [told EXCEPT !.leaks = @ \cup {Head(g_allocList)}],
         g_allocList' = Tail(g_allocList),
         UNCHANGED <<heap, live, damaged, g_boundList, g_lostList, call, news, lost, raced>>
  PROVE  IInv'
<1> DEFINE b == Head(g_allocList)
<1>1. CallInv /\ Typed /\ BlockInv /\ ReportInv /\ BoundsInv /\ OwnInv /\ ItemInv /\ LostInv
  BY DEF IInv
<1>2. g_allocList \in Seq(Blocks)
  BY <1>1 DEF Typed
<1>3. /\ b \in Alloc /\ b \in Blocks /\ g_allocList' \in Seq(Blocks)
      /\ IsInjective(g_allocList)' /\ Alloc' = Alloc \ {b}
  <2>1. IsInjective(g_allocList)
    BY <1>1 DEF BlockInv
  <2> QED BY <1>2, <2>1, TailMembers DEF Alloc
<1>4. told' = [told EXCEPT !.leaks = @ \cup {b}]
  OBVIOUS
<1> HIDE DEF b
<1>5. /\ told' \in [leaks : SUBSET Blocks, bounds : SUBSET Blocks, lost : SUBSET Blocks]
      /\ told'.leaks = told.leaks \cup {b}
      /\ told'.bounds = told.bounds /\ told'.lost = told.lost
  BY <1>1, <1>3, <1>4, Tells
<1>6. call[Main].at = "leaks" /\ Main \in All
  BY DEF At, All
<1>7. \A u \in All : call[u].at \notin Deletes
  <2>1. call[Main].at \notin Deletes
    BY <1>6 DEF Deletes
  <2>2. \A u \in Threads : At(u, "out")
    BY <1>1, <1>6 DEF CallInv, At
  <2> QED BY <1>1, <2>1, <2>2, NoDelete
<1>8. \A u \in All : ~Deleting(u) /\ ~Holding(u) /\ ~Inserting(u) /\ ~At(u, "lost")
  BY <1>7 DEF Deleting, Holding, Inserting, At, Deletes
<1>9. \A u \in All : ~Deleting(u)' /\ ~Holding(u)' /\ ~Inserting(u)' /\ ~At(u, "lost")'
  BY <1>8 DEF Deleting, Holding, Inserting, At
<1>10. Bound' = Bound /\ ~Listed /\ ~Listed'
  BY <1>6 DEF Bound, Listed
<1>11. CallInv'
  BY <1>1 DEF CallInv, At
<1>12. Typed'
  BY <1>1, <1>3, <1>5 DEF Typed
<1>13. BlockInv'
  <2>1. ~At(Main, "out")'
    BY <1>6 DEF At
  <2>2. (/\ IsInjective(g_allocList) /\ IsInjective(g_boundList)
         /\ Alloc \subseteq heap /\ Bound \subseteq heap
         /\ Alloc \cap Bound = {} /\ Bound \cap live = {})'
    BY <1>1, <1>3, <1>10 DEF BlockInv
  <2> QED BY <1>9, <2>1, <2>2 DEF BlockInv, Deleting
<1>14. ReportInv'
  BY <1>1, <1>3, <1>5, <1>6, <1>10 DEF ReportInv, At
<1>15. BoundsInv'
  <2>1. \A x : Breaking(x)' <=> Breaking(x)
    BY DEF Breaking, At
  <2> QED BY <1>1, <1>5, <1>10, <2>1 DEF BoundsInv, At
<1>16. OwnInv'
  <2>1. \A x : Removing(x)' <=> Removing(x)
    BY DEF Removing, At
  <2>2. told'.leaks \cup Alloc' = told.leaks \cup Alloc
    BY <1>3, <1>5
  <2>3. Own' = Own
    BY <1>10, <2>1, <2>2 DEF Own
  <2>4. Waiting' = Waiting
    BY DEF Waiting, At
  <2> QED BY <1>1, <2>3, <2>4 DEF OwnInv
<1>17. ItemInv'
  BY <1>1 DEF ItemInv, ItemBlock, Inserting, Deleting, At
<1>18. LostInv'
  BY <1>1, <1>5 DEF LostInv, Inserting, Pending, At
<1> QED BY <1>11, <1>12, <1>13, <1>14, <1>15, <1>16, <1>17, <1>18 DEF IInv

LEMMA TellBoundKeeps ==
  ASSUME IInv, At(Main, "bounds"), g_boundList # <<>>,
         told' = [told EXCEPT !.bounds = @ \cup {Head(g_boundList)}],
         g_boundList' = Tail(g_boundList),
         UNCHANGED <<heap, live, damaged, g_allocList, g_lostList, call, news, lost, raced>>
  PROVE  IInv'
<1> DEFINE b == Head(g_boundList)
<1>1. CallInv /\ Typed /\ BlockInv /\ ReportInv /\ BoundsInv /\ OwnInv /\ ItemInv /\ LostInv
  BY DEF IInv
<1>2. g_boundList \in Seq(Blocks)
  BY <1>1 DEF Typed
<1>3. /\ b \in Bound /\ b \in Blocks /\ g_boundList' \in Seq(Blocks)
      /\ IsInjective(g_boundList)' /\ Bound' = Bound \ {b}
  <2>1. IsInjective(g_boundList)
    BY <1>1 DEF BlockInv
  <2> QED BY <1>2, <2>1, TailMembers DEF Bound
<1>4. told' = [told EXCEPT !.bounds = @ \cup {b}]
  OBVIOUS
<1> HIDE DEF b
<1>5. /\ told' \in [leaks : SUBSET Blocks, bounds : SUBSET Blocks, lost : SUBSET Blocks]
      /\ told'.bounds = told.bounds \cup {b}
      /\ told'.leaks = told.leaks /\ told'.lost = told.lost
  BY <1>1, <1>3, <1>4, Tells
<1>6. call[Main].at = "bounds" /\ Main \in All
  BY DEF At, All
<1>7. \A u \in All : call[u].at \notin Deletes
  <2>1. call[Main].at \notin Deletes
    BY <1>6 DEF Deletes
  <2>2. \A u \in Threads : At(u, "out")
    BY <1>1, <1>6 DEF CallInv, At
  <2> QED BY <1>1, <2>1, <2>2, NoDelete
<1>8. \A u \in All : ~Deleting(u) /\ ~Holding(u) /\ ~Inserting(u) /\ ~At(u, "lost")
  BY <1>7 DEF Deleting, Holding, Inserting, At, Deletes
<1>9. \A u \in All : ~Deleting(u)' /\ ~Holding(u)' /\ ~Inserting(u)' /\ ~At(u, "lost")'
  BY <1>8 DEF Deleting, Holding, Inserting, At
<1>10. Alloc' = Alloc /\ ~Listed /\ ~Listed'
  BY <1>6 DEF Alloc, Listed
<1>11. CallInv'
  BY <1>1 DEF CallInv, At
<1>12. Typed'
  BY <1>1, <1>3, <1>5 DEF Typed
<1>13. BlockInv'
  <2>1. ~At(Main, "out")'
    BY <1>6 DEF At
  <2>2. (/\ IsInjective(g_allocList) /\ IsInjective(g_boundList)
         /\ Alloc \subseteq heap /\ Bound \subseteq heap
         /\ Alloc \cap Bound = {} /\ Bound \cap live = {})'
    BY <1>1, <1>3, <1>10 DEF BlockInv
  <2> QED BY <1>9, <2>1, <2>2 DEF BlockInv, Deleting
<1>14. ReportInv'
  BY <1>1, <1>3, <1>5, <1>6, <1>10 DEF ReportInv, At
<1>15. BoundsInv'
  <2>1. \A x : Breaking(x)' <=> Breaking(x)
    BY DEF Breaking, At
  <2>2. told'.bounds \cup Bound' = told.bounds \cup Bound
    BY <1>3, <1>5
  <2>3. (\A x \in Blocks : x \in damaged \ live <=>
           x \in told.bounds \cup Bound \/ (x \in damaged /\ Breaking(x)))'
    BY <1>1, <2>1, <2>2 DEF BoundsInv
  <2> QED BY <1>1, <2>3 DEF BoundsInv, At
<1>16. OwnInv'
  <2>1. \A x : Removing(x)' <=> Removing(x)
    BY DEF Removing, At
  <2>2. Own' = Own
    BY <1>5, <1>10, <2>1 DEF Own
  <2>3. Waiting' = Waiting
    BY DEF Waiting, At
  <2> QED BY <1>1, <2>2, <2>3 DEF OwnInv
<1>17. ItemInv'
  BY <1>1 DEF ItemInv, ItemBlock, Inserting, Deleting, At
<1>18. LostInv'
  BY <1>1, <1>5 DEF LostInv, Inserting, Pending, At
<1> QED BY <1>11, <1>12, <1>13, <1>14, <1>15, <1>16, <1>17, <1>18 DEF IInv

(* The item that is told goes through MyDelete.                            *)
LEMMA TellItemKeeps ==
  ASSUME IInv, At(Main, "lostList"), g_lostList # <<>>,
         told' = [told EXCEPT !.lost = @ \cup {Head(g_lostList).data}],
         g_lostList' = Tail(g_lostList),
         Begin(Main, Head(g_lostList).block),
         UNCHANGED <<heap, live, damaged, g_allocList, g_boundList, news, lost, raced>>
  PROVE  IInv'
<1> DEFINE b == Head(g_lostList).block
           d == Head(g_lostList).data
           place == IF b \in Alloc THEN "remove" ELSE "lost"
           c == [at |-> place, p |-> b, item |-> NoItem, last |-> NoItem]
<1>1. CallInv /\ Typed /\ BlockInv /\ ReportInv /\ BoundsInv /\ OwnInv /\ ItemInv /\ LostInv
  BY DEF IInv
<1>2. g_lostList \in Seq(Items) /\ g_allocList \in Seq(Blocks) /\ Apart(g_lostList)
  BY <1>1 DEF Typed, ItemInv
<1>3. /\ b \in Blocks /\ d \in Blocks /\ g_lostList' \in Seq(Items) /\ Apart(g_lostList')
      /\ BlocksOf(g_lostList) = BlocksOf(g_lostList') \cup {b}
      /\ DataOf(g_lostList) = DataOf(g_lostList') \cup {d}
      /\ b \notin BlocksOf(g_lostList')
  BY <1>2, ItemTail DEF Items
<1>4. told' = [told EXCEPT !.lost = @ \cup {d}] /\ Begin(Main, b)
  OBVIOUS
<1> HIDE DEF b, d
<1>5. /\ told' \in [leaks : SUBSET Blocks, bounds : SUBSET Blocks, lost : SUBSET Blocks]
      /\ told'.lost = told.lost \cup {d}
      /\ told'.leaks = told.leaks /\ told'.bounds = told.bounds
  BY <1>1, <1>3, <1>4, Tells
<1>6. call[Main].at = "lostList" /\ Main \in All
  BY DEF At, All
<1>7. \A u \in Threads : At(u, "out")
  BY <1>1, <1>6 DEF CallInv, At
<1>8. Turns(Main, c)
  BY <1>1, <1>2, <1>3, <1>4, <1>6, BeginTurns
<1>9. /\ call'[Main].at = place /\ call'[Main].p = b
      /\ \A u \in All : u # Main => call'[u] = call[u]
  BY <1>8 DEF Turns
<1>10. \A u \in All : call[u].at \notin Deletes
  <2>1. call[Main].at \notin Deletes
    BY <1>6 DEF Deletes
  <2> QED BY <1>1, <1>7, <2>1, NoDelete
<1>11. \A u \in All : ~Deleting(u) /\ ~Holding(u) /\ ~Inserting(u) /\ ~At(u, "lost")
  BY <1>10 DEF Deleting, Holding, Inserting, At, Deletes
<1>12. \A u \in All : /\ ~Holding(u)' /\ ~Inserting(u)'
                      /\ Deleting(u)' => u = Main /\ b \in Alloc
                      /\ At(u, "lost")' => u = Main
                      /\ At(u, "remove")' => u = Main /\ b \in Alloc
  BY <1>9, <1>11 DEF Deleting, Holding, Inserting, At
<1>13. Alloc' = Alloc /\ Bound' = Bound /\ Listed /\ Listed'
  BY <1>6, <1>9 DEF Alloc, Bound, Listed
<1>14. b \in heap \ live
  BY <1>1, <1>3 DEF ItemInv, ItemBlock
<1>15. CallInv'
  <2>1. c.at = place
    OBVIOUS
  <2>2. c.at # "bound"
    BY <2>1
  <2> HIDE DEF c
  <2> QED BY <1>1, <1>6, <1>7, <1>8, <2>2, CheckAssumption, CallKept
<1>16. Typed'
  BY <1>1, <1>3, <1>5 DEF Typed
<1>17. BlockInv'
  <2>1. ~At(Main, "out")'
    BY <1>9 DEF At
  <2>2. (/\ IsInjective(g_allocList) /\ IsInjective(g_boundList)
         /\ Alloc \subseteq heap /\ Bound \subseteq heap
         /\ Alloc \cap Bound = {} /\ Bound \cap live = {})'
    BY <1>1, <1>13 DEF BlockInv
  <2>3. (\A u \in All : At(u, "remove") => call[u].p \in Alloc \ live)'
    BY <1>9, <1>12, <1>13, <1>14
  <2>4. (\A u, v \in All : u # v /\ Deleting(u) /\ Deleting(v) => call[u].p # call[v].p)'
    BY <1>12
  <2> QED BY <1>12, <2>1, <2>2, <2>3, <2>4 DEF BlockInv
<1>18. ReportInv'
  <2>1. ~At(Main, "bounds")' /\ ~At(Main, "done")'
    BY <1>9 DEF At
  <2> QED BY <1>1, <1>5, <1>13, <2>1 DEF ReportInv
<1>19. BoundsInv'
  <2>1. \A x : ~Breaking(x)
    BY <1>10 DEF Breaking, At, Deletes
  <2>2. \A x \in damaged : ~Breaking(x)'
    <3>1. Alloc \cap damaged = {}
      BY <1>1, <1>13 DEF ReportInv
    <3>2. \A u \in All : ~At(u, "bound")'
      BY <1>12 DEF Holding
    <3> QED BY <1>9, <1>12, <3>1, <3>2 DEF Breaking
  <2>3. (\A x \in Blocks : x \in damaged \ live <=>
           x \in told.bounds \cup Bound \/ (x \in damaged /\ Breaking(x)))'
    BY <1>1, <1>5, <1>13, <2>1, <2>2 DEF BoundsInv
  <2> QED BY <1>12, <2>3 DEF BoundsInv, Holding
<1>20. OwnInv'
  <2>1. Own' = Own
    BY <1>5, <1>13 DEF Own
  <2>2. Waiting' = Waiting
    BY <1>9, <1>11, <1>12, CheckAssumption DEF Waiting, All
  <2> QED BY <1>1, <2>1, <2>2 DEF OwnInv
<1>21. ItemInv'
  <2>1. \A x \in Blocks : ItemBlock(x)' => ItemBlock(x) /\ x # b
    BY <1>3, <1>12 DEF ItemBlock
  <2>2. (\A x \in Blocks :
           ItemBlock(x) => x \in heap \ live /\ \A u \in All : Deleting(u) => call[u].p # x)'
    BY <1>1, <1>9, <1>12, <2>1 DEF ItemInv
  <2>3. (\A u \in All : At(u, "walk") => g_lostList # <<>>)'
    BY <1>12 DEF Inserting
  <2> QED BY <1>3, <1>12, <2>2, <2>3 DEF ItemInv
<1>22. LostInv'
  <2>1. \A x : ~Pending(x)
    BY <1>11 DEF Pending
  <2>2. \A u \in All : ~At(u, "head")' /\ ~At(u, "link")'
    BY <1>12 DEF Inserting
  <2>3. told'.lost \cup DataOf(g_lostList') = told.lost \cup DataOf(g_lostList)
    BY <1>3, <1>5
  <2> QED BY <1>1, <1>12, <2>1, <2>2, <2>3 DEF LostInv
<1> QED BY <1>15, <1>16, <1>17, <1>18, <1>19, <1>20, <1>21, <1>22 DEF IInv

LEMMA TellKeeps ==
  ASSUME IInv, TellLeaks \/ TellBounds \/ TellLost
  PROVE  IInv'
<1>1. CallInv
  BY DEF IInv
<1>2. call[Main].at \in {"leaks", "bounds", "lostList"}
  BY DEF TellLeaks, TellBounds, TellLost, At
<1>3. call[Main].at \notin Deletes /\ \A u \in Threads : At(u, "out")
  BY <1>1, <1>2 DEF CallInv, At, Deletes
<1>4. CASE TellLeaks
  <2>1. CASE g_allocList # <<>>
    <3>1. /\ told' = [told EXCEPT !.leaks = @ \cup {Head(g_allocList)}]
          /\ g_allocList' = Tail(g_allocList) /\ At(Main, "leaks")
          /\ UNCHANGED <<heap, live, damaged, g_boundList, g_lostList, call, news, lost, raced>>
      BY <1>4, <2>1 DEF TellLeaks, memory
    <3> QED BY <2>1, <3>1, TellLeakKeeps
  <2>2. CASE g_allocList = <<>>
    <3>1. /\ Goto(Main, "bounds") /\ call[Main].at = "leaks"
          /\ UNCHANGED <<memory, g_allocList, g_boundList, g_lostList, history>>
      BY <1>4, <2>2 DEF TellLeaks, history, At
    <3> QED BY <1>3, <2>2, <3>1, ReportGoes
  <2> QED BY <2>1, <2>2
<1>5. CASE TellBounds
  <2>1. CASE g_boundList # <<>>
    <3>1. /\ told' = [told EXCEPT !.bounds = @ \cup {Head(g_boundList)}]
          /\ g_boundList' = Tail(g_boundList) /\ At(Main, "bounds")
          /\ UNCHANGED <<heap, live, damaged, g_allocList, g_lostList, call, news, lost, raced>>
      BY <1>5, <2>1 DEF TellBounds, memory
    <3> QED BY <2>1, <3>1, TellBoundKeeps
  <2>2. CASE g_boundList = <<>>
    <3>1. /\ Goto(Main, "lostList") /\ call[Main].at = "bounds"
          /\ UNCHANGED <<memory, g_allocList, g_boundList, g_lostList, history>>
      BY <1>5, <2>2 DEF TellBounds, history, At
    <3> QED BY <1>3, <2>2, <3>1, ReportGoes
  <2> QED BY <2>1, <2>2
<1>6. CASE TellLost
  <2>1. CASE g_lostList # <<>>
    <3>1. /\ told' = [told EXCEPT !.lost = @ \cup {Head(g_lostList).data}]
          /\ g_lostList' = Tail(g_lostList) /\ At(Main, "lostList")
          /\ Begin(Main, Head(g_lostList).block)
          /\ UNCHANGED <<heap, live, damaged, g_allocList, g_boundList, news, lost, raced>>
      BY <1>6, <2>1 DEF TellLost, memory
    <3> QED BY <2>1, <3>1, TellItemKeeps
  <2>2. CASE g_lostList = <<>>
    <3>1. /\ Goto(Main, "done") /\ call[Main].at = "lostList"
          /\ UNCHANGED <<memory, g_allocList, g_boundList, g_lostList, history>>
      BY <1>6, <2>2 DEF TellLost, history, At
    <3> QED BY <1>3, <2>2, <3>1, ReportGoes
  <2> QED BY <2>1, <2>2
<1> QED BY <1>4, <1>5, <1>6

-----------------------------------------------------------------------------
(* The invariant, and what follows from it.                                *)

LEMMA InitIInv == Init => IInv
<1> SUFFICES ASSUME Init PROVE IInv
  OBVIOUS
<1>1. /\ heap = {} /\ live = {} /\ damaged = {}
      /\ g_allocList = <<>> /\ g_boundList = <<>> /\ g_lostList = <<>>
      /\ news = 0 /\ lost = <<>> /\ raced = FALSE
      /\ told = [leaks |-> {}, bounds |-> {}, lost |-> {}]
  BY DEF Init
<1>2. /\ call = [t \in All |-> Idle] /\ Main \in All /\ Main \notin Threads
      /\ \A t \in Threads : t \in All
  BY CheckAssumption DEF Init, All
<1>3. Idle \in Calls /\ Idle.at = "out"
  BY DEF Idle, Calls, Places, Deletes
<1>4. \A t \in All : call[t] = Idle /\ call[t].at = "out"
  BY <1>2, <1>3
<1>5. \A t \in All : /\ ~Deleting(t) /\ ~Holding(t) /\ ~Inserting(t)
                     /\ ~At(t, "remove") /\ ~At(t, "lost") /\ ~At(t, "done") /\ ~At(t, "bounds")
                     /\ At(t, "out")
  BY <1>4 DEF Deleting, Holding, Inserting, At
<1>6. /\ Alloc = {} /\ Bound = {} /\ ToSet(lost) = {} /\ ~Listed
      /\ IsInjective(g_allocList) /\ IsInjective(g_boundList) /\ Apart(g_lostList)
      /\ BlocksOf(g_lostList) = {} /\ DataOf(g_lostList) = {}
  BY <1>1, <1>2, <1>4, EmptyMembers DEF Alloc, Bound, Listed
<1>7. CallInv
  <2>1. Ready(Idle)
    BY <1>3 DEF Ready, Deletes
  <2> QED BY <1>2, <1>3, <1>4, <1>5, <2>1 DEF CallInv, Places
<1>8. Typed
  BY <1>1 DEF Typed
<1>9. BlockInv
  BY <1>1, <1>5, <1>6 DEF BlockInv
<1>10. ReportInv
  BY <1>1, <1>2, <1>5, <1>6 DEF ReportInv
<1>11. BoundsInv
  BY <1>1, <1>5, <1>6 DEF BoundsInv, Holding
<1>12. OwnInv
  <2>1. Own = {} /\ Waiting = {}
    BY <1>1, <1>2, <1>5, <1>6 DEF Own, Waiting
  <2>2. Len(lost) = 0
    BY <1>1
  <2> QED BY <2>1, <2>2, FS_EmptySet DEF OwnInv
<1>13. ItemInv
  BY <1>5, <1>6 DEF ItemInv, ItemBlock, Inserting
<1>14. LostInv
  BY <1>5, <1>6 DEF LostInv, Inserting
<1> QED BY <1>7, <1>8, <1>9, <1>10, <1>11, <1>12, <1>13, <1>14 DEF IInv

LEMMA StutterIInv ==
  ASSUME IInv, UNCHANGED vars
  PROVE  IInv'
<1>1. CallInv /\ Typed /\ BlockInv /\ ReportInv /\ BoundsInv /\ OwnInv /\ ItemInv /\ LostInv
  BY DEF IInv
<1>2. UNCHANGED <<heap, live, damaged, g_allocList, g_boundList, g_lostList, call, news, lost,
                  told, raced>>
  BY DEF vars, memory, history
<1>3. CallInv' /\ Typed'
  BY <1>1, <1>2 DEF CallInv, Typed, At
<1>4. BlockInv'
  BY <1>1, <1>2, BlockFrame
<1>5. Alloc' = Alloc /\ Bound' = Bound
  BY <1>2 DEF Alloc, Bound
<1>6. ReportInv' /\ BoundsInv'
  BY <1>1, <1>2, <1>5 DEF ReportInv, BoundsInv, Listed, Breaking, At
<1>7. OwnInv'
  BY <1>1, <1>2, <1>5 DEF OwnInv, Own, Waiting, Listed, Removing, At
<1>8. ItemInv' /\ LostInv'
  BY <1>1, <1>2 DEF ItemInv, LostInv, ItemBlock, Pending, Inserting, Deleting, At
<1> QED BY <1>3, <1>4, <1>6, <1>7, <1>8 DEF IInv

LEMMA NextIInv == IInv /\ [Next]_vars => IInv'
<1> SUFFICES ASSUME IInv, [Next]_vars PROVE IInv'
  OBVIOUS
<1>1. ASSUME NEW t \in Threads, New(t) PROVE IInv'
  BY <1>1, NewKeeps
<1>2. ASSUME NEW t \in Threads, Damage(t) PROVE IInv'
  BY <1>2, DamageKeeps
<1>3. ASSUME NEW t \in Threads, Delete(t) PROVE IInv'
  BY <1>3, DeleteKeeps
<1>4. ASSUME NEW t \in All, MyDelete(t) PROVE IInv'
  BY <1>4, RemoveKeeps, InsertBoundKeeps, FreeKeeps, NewItemKeeps, SetHeadKeeps, WalkKeeps,
     LinkKeeps DEF MyDelete
<1>5. ASSUME Report PROVE IInv'
  BY <1>5, ReportKeeps
<1>6. ASSUME TellLeaks \/ TellBounds \/ TellLost PROVE IInv'
  BY <1>6, TellKeeps
<1>7. CASE UNCHANGED vars
  BY <1>7, StutterIInv
<1> QED BY <1>1, <1>2, <1>3, <1>4, <1>5, <1>6, <1>7 DEF Next, All

(* The invariant the four theorems below rest on holds of every reachable  *)
(* state of the checker.                                                   *)
THEOREM CheckMemoryInvariant == Spec => []IInv
BY InitIInv, NextIInv, PTL DEF Spec

LEMMA IInvTypes == IInv => TypeOK
BY DEF IInv, CallInv, Typed, TypeOK, Items, All, Calls

(* What the program has is allocated and the lists hold addresses only,    *)
(* for any number of threads and blocks (CheckMemoryList.h:57-84).         *)
THEOREM CheckMemoryTypes == Spec => []TypeOK
BY CheckMemoryInvariant, IInvTypes, PTL

LEMMA IInvPlaces == IInv => InOnePlace
<1> SUFFICES ASSUME IInv, At(Main, "out") PROVE InOnePlace
  BY DEF InOnePlace
<1> DEFINE deleting == {call[t].p : t \in {u \in Threads : At(u, "bound") \/ At(u, "free")}}
<1>1. BlockInv
  BY DEF IInv
<1>2. \A x : x \in deleting <=> \E t \in Threads : Holding(t) /\ call[t].p = x
  BY DEF Holding
<1>3. ~Holding(Main)
  BY DEF Holding, At
<1>4. \A x : x \in deleting <=> \E t \in All : Holding(t) /\ call[t].p = x
  BY <1>2, <1>3 DEF All
<1> HIDE DEF deleting
<1>5. heap = Alloc \cup Bound \cup deleting
  BY <1>1, <1>4 DEF BlockInv
<1>6. Alloc \cap Bound = {} /\ (Alloc \cup Bound) \cap deleting = {}
  BY <1>1, <1>4 DEF BlockInv
<1>7. IsInjective(g_allocList) /\ IsInjective(g_boundList)
  BY <1>1 DEF BlockInv
<1> QED BY <1>5, <1>6, <1>7 DEF InOnePlace, Alloc, Bound, deleting

(* Until the report, every block is in exactly one list or in the hands of *)
(* exactly one thread, however the threads' news and deletes interleave    *)
(* (CheckMemoryLeak.cpp:52, 70-89).                                        *)
THEOREM BlocksAlwaysInOnePlace == Spec => []InOnePlace
BY CheckMemoryInvariant, IInvPlaces, PTL

LEMMA IInvLeaks == IInv => ReportTellsLeaks
<1> SUFFICES ASSUME IInv, At(Main, "done") PROVE ReportTellsLeaks
  BY DEF ReportTellsLeaks
<1>1. CallInv /\ Typed /\ BlockInv /\ ReportInv /\ BoundsInv /\ OwnInv
  BY DEF IInv
<1>2. call[Main].at = "done" /\ Listed /\ \A u \in Threads : At(u, "out")
  BY <1>1 DEF At, Listed, CallInv
<1>3. \A u \in All : call[u].at \notin Deletes
  BY <1>1, <1>2, NoDelete DEF Deletes
<1>4. live \subseteq told.leaks
  <2>1. Alloc \cap live = {}
    BY <1>1, <1>2 DEF ReportInv
  <2> QED BY <1>1, <2>1 DEF ReportInv
<1>5. Cardinality(told.leaks \ live) <= Len(lost)
  <2>1. Own = told.leaks \ live
    BY <1>2 DEF Own
  <2>2. Cardinality(Own) \in Nat /\ Cardinality(Waiting) \in Nat /\ Len(lost) \in Nat
    BY <1>1, FS_CardinalityType, LenProperties DEF OwnInv, Typed
  <2>3. Cardinality(Own) <= Len(lost)
    BY <1>1, <2>2 DEF OwnInv
  <2> QED BY <2>1, <2>3
<1>6. told.bounds = damaged \ live
  <2>1. Bound = {}
    BY <1>1, <1>2, EmptyMembers DEF ReportInv, Bound
  <2>2. \A x : ~Breaking(x)
    BY <1>3 DEF Breaking, At, Deletes
  <2>3. told.bounds \subseteq Blocks /\ damaged \subseteq Blocks
    BY <1>1 DEF Typed
  <2> QED BY <1>1, <2>1, <2>2, <2>3 DEF BoundsInv
<1> QED BY <1>4, <1>5, <1>6 DEF ReportTellsLeaks

(* The report names every block the program still has, of the others at    *)
(* most one for each delete in vain, and as out of bounds exactly what was *)
(* deleted with a broken check code (CheckMemoryLeak.cpp:78-82, 146-158).  *)
THEOREM LeaksAlwaysTold == Spec => []ReportTellsLeaks
BY CheckMemoryInvariant, IInvLeaks, PTL

LEMMA IInvLost == IInv => LostUnlessRaced
<1> SUFFICES ASSUME IInv, At(Main, "done"), ~raced PROVE ToSet(lost) \subseteq told.lost
  BY DEF LostUnlessRaced
<1>1. CallInv /\ Typed /\ ReportInv /\ LostInv
  BY DEF IInv
<1>2. call[Main].at = "done" /\ \A u \in Threads : At(u, "out")
  BY <1>1 DEF At, CallInv
<1>3. \A u \in All : call[u].at \notin Deletes
  BY <1>1, <1>2, NoDelete DEF Deletes
<1>4. \A x : ~Pending(x)
  BY <1>3 DEF Pending, Inserting, At, Deletes
<1>5. DataOf(g_lostList) = {}
  BY <1>1, EmptyMembers DEF ReportInv
<1>6. ToSet(lost) \subseteq Blocks
  BY <1>1, ListMembers DEF Typed
<1> QED BY <1>1, <1>4, <1>5, <1>6 DEF LostInv

(* The report names all that was deleted in vain, unless two threads were  *)
(* inside DataList::Insert at once: nothing else loses an item             *)
(* (CheckMemoryList.cpp:245-277).                                          *)
THEOREM LostOnlyByRaces == Spec => []LostUnlessRaced
BY CheckMemoryInvariant, IInvLost, PTL
=============================================================================
