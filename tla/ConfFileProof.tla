---------------------------- MODULE ConfFileProof -----------------------------
(***************************************************************************)
(* Proofs about ConfFile, for any number of spaces, texts and entries, any *)
(* file to begin with, and any number of descriptors; last, about the      *)
(* codecs, for any text of bytes.                                          *)
(***************************************************************************)
EXTENDS ConfFile, FiniteSetTheorems, SequenceTheorems, WellFoundedInduction, TLAPS

-----------------------------------------------------------------------------
(* Numbers.                                                                *)

(* Every set of natural numbers has a least element: the library's theorem *)
(* on well-founded relations, for < on Nat.                                *)
LEMMA LeastElement ==
  ASSUME NEW S, S \subseteq Nat, S # {}
  PROVE  \E x \in S : \A y \in S : x <= y
<1>1. PICK x \in S : \A y \in S : ~(<<y, x>> \in OpToRel(<, Nat))
  BY NatLessThanWellFounded, WFMin, Zenon
<1>2. ASSUME NEW y \in S PROVE x <= y
  <2>1. ~(y < x)
    BY <1>1 DEF OpToRel
  <2> QED BY <2>1
<1> QED BY <1>2

LEMMA MinInSet ==
  ASSUME NEW S, S \subseteq Nat, S # {}
  PROVE  Min(S) \in S
BY LeastElement DEF Min

LEMMA MaxInSet ==
  ASSUME NEW n \in Nat, NEW S, S \subseteq 1..n, S # {}
  PROVE  Max(S) \in S /\ \A x \in S : x <= Max(S)
<1> DEFINE T == {n - x : x \in S}
<1>1. T \subseteq Nat /\ T # {}
  <2>1. \A x \in S : n - x \in Nat
    OBVIOUS
  <2> QED BY <2>1
<1>2. PICK t \in T : \A u \in T : t <= u
  BY <1>1, LeastElement
<1>3. PICK m \in S : t = n - m
  BY <1>2
<1>4. ASSUME NEW x \in S PROVE x <= m
  <2>1. n - m <= n - x
    BY <1>2, <1>3
  <2> QED BY <2>1
<1>5. \E x \in S : \A y \in S : x >= y
  BY <1>4
<1>6. Max(S) \in S /\ \A y \in S : Max(S) >= y
  BY <1>5 DEF Max
<1> QED BY <1>6

(* What holds of 0 and of the number after each is true up to N.           *)
LEMMA SetInduction ==
  ASSUME NEW S, 0 \in S, NEW N \in Nat,
         \A n \in 1..N : n - 1 \in S => n \in S
  PROVE  0..N \subseteq S
<1> DEFINE T == 0..N \ S
<1> SUFFICES ASSUME T # {} PROVE FALSE
  OBVIOUS
<1>1. PICK x \in T : \A y \in T : x <= y
  <2>1. T \subseteq Nat
    OBVIOUS
  <2> QED BY <2>1, LeastElement
<1>2. x \in 1..N /\ x - 1 \in 0..N
  BY <1>1
<1>3. x - 1 \in S
  BY <1>1, <1>2
<1> QED BY <1>1, <1>2, <1>3

LEMMA FunctionIsSeq ==
  ASSUME NEW n \in Nat, NEW S, NEW f \in [1..n -> S]
  PROVE  f \in Seq(S) /\ Len(f) = n
OBVIOUS

-----------------------------------------------------------------------------
(* The order of the names.                                                 *)

LEMMA BeforeOrders ==
  /\ \A a, b \in Nat \X Nat : Before(a, b) => ~Before(b, a) /\ a # b
  /\ \A a, b \in Nat \X Nat : a = b \/ Before(a, b) \/ Before(b, a)
  /\ \A a, b, c \in Nat \X Nat : Before(a, b) /\ Before(b, c) => Before(a, c)
BY DEF Before

(* Counting the names up to each one puts them in a row.                   *)
LEMMA OrderedExists ==
  ASSUME NEW S, IsFiniteSet(S), S \subseteq Nat \X Nat
  PROVE  \E names \in [1..Cardinality(S) -> S] :
           \A i, j \in 1..Cardinality(S) : i < j => Before(names[i], names[j])
<1> DEFINE N == Cardinality(S)
           UpTo(x) == {y \in S : y = x \/ Before(y, x)}
           rank == [x \in S |-> Cardinality(UpTo(x))]
<1>1. N \in Nat
  BY FS_CardinalityType
<1>2. ASSUME NEW x \in S
      PROVE  IsFiniteSet(UpTo(x)) /\ rank[x] \in 1..N
  <2>1. UpTo(x) \in SUBSET S /\ x \in UpTo(x)
    OBVIOUS
  <2> HIDE DEF UpTo
  <2>2. IsFiniteSet(UpTo(x)) /\ Cardinality(UpTo(x)) <= N
    BY <2>1, FS_Subset
  <2>3. Cardinality(UpTo(x)) # 0 /\ Cardinality(UpTo(x)) \in Nat
    BY <2>1, <2>2, FS_EmptySet, FS_CardinalityType
  <2> QED BY <1>1, <2>2, <2>3
<1>3. ASSUME NEW x \in S, NEW y \in S, Before(x, y)
      PROVE  rank[x] < rank[y]
  <2>1. UpTo(x) \subseteq UpTo(y) /\ y \in UpTo(y)
    BY <1>3, BeforeOrders, Zenon
  <2>2. y \notin UpTo(x)
    BY <1>3, BeforeOrders, Zenon
  <2>3. UpTo(x) # UpTo(y)
    BY <2>1, <2>2
  <2>4. IsFiniteSet(UpTo(y)) /\ rank[x] \in Nat /\ rank[y] \in Nat
    BY <1>1, <1>2
  <2> HIDE DEF UpTo
  <2>5. Cardinality(UpTo(x)) <= Cardinality(UpTo(y))
        /\ Cardinality(UpTo(x)) # Cardinality(UpTo(y))
    BY <2>1, <2>3, <2>4, FS_Subset
  <2> QED BY <2>4, <2>5
<1> HIDE DEF rank, N
<1>4. rank \in [S -> 1..N]
  BY <1>2 DEF rank
<1>5. \A x, y \in S : rank[x] = rank[y] => x = y
  <2> SUFFICES ASSUME NEW x \in S, NEW y \in S, x # y PROVE rank[x] # rank[y]
    OBVIOUS
  <2>1. Before(x, y) \/ Before(y, x)
    BY BeforeOrders
  <2>2. rank[x] \in Nat /\ rank[y] \in Nat
    BY <1>1, <1>4
  <2> QED BY <1>3, <2>1, <2>2
<1>6. rank \in Surjection(S, 1..N)
  <2>1. rank \in Injection(S, 1..N)
    BY <1>4, <1>5 DEF Injection, IsInjective
  <2>2. IsFiniteSet(1..N) /\ Cardinality(1..N) = N
    BY <1>1, FS_Interval
  <2> QED BY <2>1, <2>2, FS_Injection DEF N
<1>7. \A i \in 1..N : \E x \in S : rank[x] = i
  BY <1>6 DEF Surjection
<1> DEFINE g == [i \in 1..N |-> CHOOSE x \in S : rank[x] = i]
<1>8. g \in [1..N -> S] /\ \A i \in 1..N : rank[g[i]] = i
  BY <1>7
<1> HIDE DEF g
<1>9. ASSUME NEW i \in 1..N, NEW j \in 1..N, i < j
      PROVE  Before(g[i], g[j])
  <2>1. g[i] \in S /\ g[j] \in S /\ rank[g[i]] = i /\ rank[g[j]] = j
    BY <1>8
  <2>2. g[i] # g[j] /\ ~Before(g[j], g[i])
    BY <1>3, <1>9, <2>1
  <2> QED BY <2>1, <2>2, BeforeOrders
<1> QED BY <1>8, <1>9 DEF N

(* Every name is in the row.                                               *)
LEMMA OrderedHasAll ==
  ASSUME NEW S, IsFiniteSet(S), S \subseteq Nat \X Nat
  PROVE  /\ Cardinality(S) \in Nat
         /\ Ordered(S) \in Seq(S) /\ Len(Ordered(S)) = Cardinality(S)
         /\ \A x \in S : \E i \in 1..Len(Ordered(S)) : Ordered(S)[i] = x
<1> DEFINE N == Cardinality(S)
           names == Ordered(S)
<1>1. N \in Nat
  BY FS_CardinalityType
<1>2. /\ names \in [1..N -> S]
      /\ \A i, j \in 1..N : i < j => Before(names[i], names[j])
  BY OrderedExists DEF Ordered
<1> HIDE DEF N, names
<1>3. \A i, j \in 1..N : names[i] = names[j] => i = j
  <2> SUFFICES ASSUME NEW i \in 1..N, NEW j \in 1..N, i < j PROVE names[i] # names[j]
    BY <1>1
  <2>1. names[i] \in S /\ names[j] \in S /\ Before(names[i], names[j])
    BY <1>2
  <2> QED BY <2>1, BeforeOrders
<1>4. names \in Surjection(1..N, S)
  <2>1. names \in Injection(1..N, S)
    BY <1>2, <1>3 DEF Injection, IsInjective
  <2>2. Cardinality(1..N) = N
    BY <1>1, FS_Interval
  <2> QED BY <2>1, <2>2, FS_Injection DEF N
<1>5. names \in Seq(S) /\ Len(names) = N
  BY <1>1, <1>2, FunctionIsSeq
<1>6. \A x \in S : \E i \in 1..N : names[i] = x
  BY <1>4 DEF Surjection
<1> QED BY <1>1, <1>5, <1>6 DEF N, names

-----------------------------------------------------------------------------
(* FlattenSeq.                                                             *)

(* The concatenations of the first texts, one after the other.             *)
Flattens(f, seqs) ==
  \A i \in 1..Len(seqs) : f[i] = IF i = 1 THEN seqs[1] ELSE f[i - 1] \o seqs[i]

LEMMA FlattenSteps ==
  ASSUME NEW seqs, Len(seqs) \in Nat \ {0}
  PROVE  \E f : Flattens(f, seqs) /\ FlattenSeq(seqs) = f[Len(seqs)]
<1> DEFINE N == Len(seqs)
           P(f, k) == f = [i \in 1..k |-> IF i = 1 THEN seqs[i] ELSE f[i - 1] \o seqs[i]]
           K == {k \in 0..N : \E f : P(f, k)}
<1>1. 0 \in K
  <2>1. P([i \in 1..0 |-> 0], 0)
    OBVIOUS
  <2>2. 0 \in 0..N
    OBVIOUS
  <2> HIDE DEF P
  <2> QED BY <2>1, <2>2
<1>2. ASSUME NEW k \in 1..N, k - 1 \in K PROVE k \in K
  <2>1. PICK f : P(f, k - 1)
    BY <1>2
  <2> DEFINE new == IF k = 1 THEN seqs[1] ELSE f[k - 1] \o seqs[k]
             g == [i \in 1..k |-> IF i = k THEN new ELSE f[i]]
  <2>2. ASSUME NEW i \in 1..k
        PROVE  g[i] = IF i = 1 THEN seqs[i] ELSE g[i - 1] \o seqs[i]
    <3>1. CASE i = k
      BY <3>1
    <3>2. CASE i # k
      <4>1. i \in 1..(k - 1) /\ (i # 1 => i - 1 \in 1..(k - 1))
        BY <3>2
      <4>2. f[i] = IF i = 1 THEN seqs[i] ELSE f[i - 1] \o seqs[i]
        BY <2>1, <4>1
      <4>3. g[i] = f[i] /\ (i # 1 => g[i - 1] = f[i - 1])
        BY <3>2, <4>1
      <4> QED BY <4>2, <4>3
    <3> QED BY <3>1, <3>2
  <2>3. P(g, k)
    BY <2>2
  <2> HIDE DEF g, P
  <2> QED BY <2>3
<1> HIDE DEF K
<1>3. 0..N \subseteq K
  BY <1>1, <1>2, SetInduction
<1>4. \E f : P(f, N)
  <2>1. N \in K
    BY <1>3
  <2> HIDE DEF P
  <2> QED BY <2>1 DEF K
<1> DEFINE f == CHOOSE g : P(g, N)
<1>5. P(f, N)
  BY <1>4
<1>6. FlattenSeq(seqs) = f[N]
  BY DEF FlattenSeq
<1> HIDE DEF f
<1>7. Flattens(f, seqs)
  BY <1>5 DEF Flattens
<1> QED BY <1>6, <1>7

-----------------------------------------------------------------------------
(* Lines.                                                                  *)

Keys == Texts \cup {Part}
LineSet == {Header(s) : s \in Spaces} \cup {Entry(k, v) : k \in Keys, v \in Keys}

LEMMA LineKinds ==
  ASSUME NEW line \in LineSet
  PROVE  /\ line.kind = "space" => line.key \in Spaces
         /\ line.kind # "space" =>
              /\ line.kind = "entry" /\ line.key \in Keys /\ line.value \in Keys
              /\ line = Entry(line.key, line.value)
         /\ IsEntry(line) => ReadKey(line) \in Keys /\ ReadValue(line) \in Keys
<1>1. 0 \in Keys
  BY ConfAssumption DEF Keys
<1> QED BY <1>1 DEF LineSet, Header, Entry, Line, IsEntry, ReadKey, ReadValue

LEMMA SpaceAtStart ==
  ASSUME NEW lines
  PROVE  SpaceAt(lines, 0) = 0
BY DEF SpaceAt

LEMMA SpaceAtSame ==
  ASSUME NEW i \in Nat, NEW lines, NEW more, \A j \in 1..i : lines[j] = more[j]
  PROVE  SpaceAt(lines, i) = SpaceAt(more, i)
<1>1. {j \in 1..i : lines[j].kind = "space"} = {j \in 1..i : more[j].kind = "space"}
  OBVIOUS
<1>2. \A j \in {k \in 1..i : more[k].kind = "space"} : lines[j] = more[j]
  OBVIOUS
<1> DEFINE headers == {j \in 1..i : more[j].kind = "space"}
<1>3. headers # {} => Max(headers) \in headers
  <2>1. headers \subseteq 1..i
    OBVIOUS
  <2> HIDE DEF headers
  <2> QED BY <2>1, MaxInSet
<1> QED BY <1>1, <1>2, <1>3 DEF SpaceAt

LEMMA SpaceAtHeader ==
  ASSUME NEW i \in Nat \ {0}, NEW lines, lines[i].kind = "space"
  PROVE  SpaceAt(lines, i) = lines[i].key
<1> DEFINE headers == {j \in 1..i : lines[j].kind = "space"}
<1>1. headers \subseteq 1..i /\ i \in headers
  OBVIOUS
<1> HIDE DEF headers
<1>2. Max(headers) \in headers /\ i <= Max(headers)
  BY <1>1, MaxInSet
<1>3. Max(headers) = i
  <2>1. Max(headers) \in 1..i
    BY <1>1, <1>2
  <2> QED BY <1>2, <2>1
<1>4. SpaceAt(lines, i) = IF headers = {} THEN 0 ELSE lines[Max(headers)].key
  BY DEF SpaceAt, headers
<1> QED BY <1>1, <1>3, <1>4

LEMMA SpaceAtEntry ==
  ASSUME NEW i \in Nat \ {0}, NEW lines, lines[i].kind # "space"
  PROVE  SpaceAt(lines, i) = SpaceAt(lines, i - 1)
<1>1. {j \in 1..i : lines[j].kind = "space"} = {j \in 1..(i - 1) : lines[j].kind = "space"}
  OBVIOUS
<1> QED BY <1>1 DEF SpaceAt

LEMMA SpaceAtType ==
  ASSUME NEW lines \in Seq(LineSet), NEW i \in 0..Len(lines)
  PROVE  SpaceAt(lines, i) \in Spaces
<1> DEFINE headers == {j \in 1..i : lines[j].kind = "space"}
<1>1. headers \subseteq 1..i /\ i \in Nat /\ Len(lines) \in Nat
  BY LenProperties
<1>2. \A j \in headers : lines[j].key \in Spaces
  <2> SUFFICES ASSUME NEW j \in headers PROVE lines[j].key \in Spaces
    OBVIOUS
  <2>1. j \in 1..i /\ lines[j].kind = "space"
    OBVIOUS
  <2>2. j \in 1..Len(lines)
    BY <1>1, <2>1
  <2>3. lines[j] \in LineSet
    BY <2>2, ElementOfSeq
  <2> QED BY <2>1, <2>3, LineKinds
<1>3. SpaceAt(lines, i) = IF headers = {} THEN 0 ELSE lines[Max(headers)].key
  BY DEF SpaceAt
<1> HIDE DEF headers
<1>4. headers # {} => Max(headers) \in headers
  BY <1>1, MaxInSet
<1> QED BY <1>2, <1>3, <1>4, ConfAssumption

(* The j-th line is that of the entry of this name.                        *)
Holds(lines, j, name, map) ==
  lines[j] = Entry(name[2], map[name]) /\ SpaceAt(lines, j) = name[1]

(* The entries of the file are those of these names in memory.             *)
Tells(lines, map, names) ==
  /\ lines \in Seq(LineSet)
  /\ \A j \in 1..Len(lines) :
       lines[j].kind # "space" => \E n \in names : Holds(lines, j, n, map)
  /\ \A n \in names : \E j \in 1..Len(lines) : Holds(lines, j, n, map)

(* What is written for one name.                                           *)
Group(space, name, map) ==
  (IF name[1] # space THEN <<Header(name[1])>> ELSE <<>>)
    \o <<Entry(name[2], map[name])>>

With(lines, name, map) == lines \o Group(SpaceAt(lines, Len(lines)), name, map)

(* More lines than there were, of which the last is the entry's, and       *)
(* another one a space.                                                    *)
Adds(more, lines, n, map) ==
  /\ more \in Seq(LineSet) /\ Len(more) > Len(lines)
  /\ \A j \in 1..Len(lines) : more[j] = lines[j]
  /\ more[Len(more)] = Entry(n[2], map[n])
  /\ SpaceAt(more, Len(more)) = n[1]
  /\ \A j \in 1..Len(more) :
       j \in 1..Len(lines) \/ j = Len(more) \/ more[j].kind = "space"

LEMMA GroupAdds ==
  ASSUME NEW map, IsMap(map), NEW n \in DOMAIN map, NEW lines \in Seq(LineSet)
  PROVE  Adds(With(lines, n, map), lines, n, map)
<1> DEFINE space == SpaceAt(lines, Len(lines))
           more == With(lines, n, map)
<1>0. more = lines \o Group(space, n, map)
  BY DEF With
<1> HIDE DEF more, space
<1> DEFINE L == Len(lines)
           entry == Entry(n[2], map[n])
<1>1. n[1] \in Spaces /\ n[2] \in Keys /\ map[n] \in Keys
  BY DEF IsMap, Names, Keys
<1>2. entry \in LineSet /\ Header(n[1]) \in LineSet /\ L \in Nat
  BY <1>1, LenProperties DEF LineSet
<1>3. entry.kind = "entry" /\ Header(n[1]).kind = "space" /\ Header(n[1]).key = n[1]
  BY DEF Entry, Header, Line
<1>4. SpaceAt(more, L) = space \/ \E j \in 1..L : more[j] # lines[j]
  BY <1>2, SpaceAtSame DEF space
<1>5. ASSUME n[1] # space PROVE Adds(more, lines, n, map)
  <2> DEFINE group == <<Header(n[1]), entry>>
  <2>1. group \in Seq(LineSet) /\ Len(group) = 2
        /\ group[1] = Header(n[1]) /\ group[2] = entry
    BY <1>2
  <2>2. more = lines \o group
    BY <1>0, <1>5 DEF Group
  <2> HIDE DEF group, entry
  <2>3. /\ more \in Seq(LineSet) /\ Len(more) = L + 2
        /\ \A j \in 1..(L + 2) : more[j] = IF j <= L THEN lines[j] ELSE group[j - L]
    <3>1. /\ lines \o group \in Seq(LineSet)
          /\ Len(lines \o group) = Len(lines) + Len(group)
          /\ \A j \in 1..(Len(lines) + Len(group)) :
               (lines \o group)[j] = IF j <= Len(lines) THEN lines[j] ELSE group[j - Len(lines)]
      BY <2>1, ConcatProperties, Zenon
    <3> QED BY <2>1, <2>2, <3>1, Zenon
  <2>4. more[L + 1] = Header(n[1]) /\ more[L + 2] = entry
    BY <1>2, <2>1, <2>3
  <2>5. SpaceAt(more, L + 1) = n[1]
    <3>1. L + 1 \in Nat \ {0} /\ more[L + 1].kind = "space"
      BY <1>2, <1>3, <2>4
    <3> QED BY <1>3, <2>4, <3>1, SpaceAtHeader, Zenon
  <2>6. SpaceAt(more, L + 2) = SpaceAt(more, L + 2 - 1)
    <3> DEFINE m == L + 2
    <3>1. m \in Nat \ {0} /\ more[m].kind # "space"
      BY <1>2, <1>3, <2>4
    <3> HIDE DEF m
    <3>2. SpaceAt(more, m) = SpaceAt(more, m - 1)
      BY <3>1, SpaceAtEntry
    <3> QED BY <3>2 DEF m
  <2>7. SpaceAt(more, L + 2) = n[1]
    BY <1>2, <2>5, <2>6
  <2> QED BY <1>2, <1>3, <2>3, <2>4, <2>7 DEF Adds, entry
<1>6. ASSUME n[1] = space PROVE Adds(more, lines, n, map)
  <2> DEFINE group == <<entry>>
  <2>1. group \in Seq(LineSet) /\ Len(group) = 1 /\ group[1] = entry
    BY <1>2
  <2>2. more = lines \o group
    <3>1. <<>> \o group = group
      BY <2>1, ConcatEmptySeq
    <3> QED BY <1>0, <1>6, <3>1 DEF Group
  <2> HIDE DEF group, entry
  <2>3. /\ more \in Seq(LineSet) /\ Len(more) = L + 1
        /\ \A j \in 1..(L + 1) : more[j] = IF j <= L THEN lines[j] ELSE group[j - L]
    <3>1. /\ lines \o group \in Seq(LineSet)
          /\ Len(lines \o group) = Len(lines) + Len(group)
          /\ \A j \in 1..(Len(lines) + Len(group)) :
               (lines \o group)[j] = IF j <= Len(lines) THEN lines[j] ELSE group[j - Len(lines)]
      BY <2>1, ConcatProperties, Zenon
    <3> QED BY <2>1, <2>2, <3>1, Zenon
  <2>4. more[L + 1] = entry /\ \A j \in 1..L : more[j] = lines[j]
    BY <1>2, <2>1, <2>3
  <2>5. SpaceAt(more, L + 1) = SpaceAt(more, L + 1 - 1)
    <3> DEFINE m == L + 1
    <3>1. m \in Nat \ {0} /\ more[m].kind # "space"
      BY <1>2, <1>3, <2>4
    <3> HIDE DEF m
    <3>2. SpaceAt(more, m) = SpaceAt(more, m - 1)
      BY <3>1, SpaceAtEntry
    <3> QED BY <3>2 DEF m
  <2>6. SpaceAt(more, L + 1) = n[1]
    BY <1>2, <1>4, <1>6, <2>4, <2>5
  <2> QED BY <1>2, <2>3, <2>4, <2>6 DEF Adds, entry
<1>7. Adds(more, lines, n, map)
  BY <1>5, <1>6
<1> QED BY <1>7 DEF more

LEMMA TellsMore ==
  ASSUME NEW map, IsMap(map), NEW names, NEW n \in DOMAIN map,
         NEW lines, Tells(lines, map, names)
  PROVE  /\ Tells(With(lines, n, map), map, names \cup {n})
         /\ SpaceAt(With(lines, n, map), Len(With(lines, n, map))) = n[1]
<1> DEFINE more == With(lines, n, map)
<1>a. lines \in Seq(LineSet)
  BY DEF Tells
<1>b. Adds(more, lines, n, map)
  BY <1>a, GroupAdds
<1> HIDE DEF more
<1> DEFINE L == Len(lines)
           k == Len(more)
<1>1. lines \in Seq(LineSet) /\ L \in Nat
  BY <1>a, LenProperties
<1>2. /\ more \in Seq(LineSet) /\ k > L
      /\ \A j \in 1..L : more[j] = lines[j]
      /\ more[k] = Entry(n[2], map[n])
      /\ SpaceAt(more, k) = n[1]
      /\ \A j \in 1..k : j \in 1..L \/ j = k \/ more[j].kind = "space"
  BY <1>b DEF Adds
<1>3. k \in Nat
  BY <1>2, LenProperties
<1>4. Holds(more, k, n, map)
  BY <1>2 DEF Holds
<1> HIDE DEF L, k
<1>5. ASSUME NEW j \in 1..L, NEW m, Holds(lines, j, m, map)
      PROVE  Holds(more, j, m, map)
  <2>1. j \in Nat /\ \A i \in 1..j : lines[i] = more[i]
    <3>1. j \in Nat /\ j <= L
      BY <1>1
    <3>2. \A i \in 1..j : i \in 1..L
      BY <1>1, <3>1
    <3> QED BY <1>2, <3>1, <3>2
  <2>2. SpaceAt(lines, j) = SpaceAt(more, j)
    BY <2>1, SpaceAtSame, Zenon
  <2> QED BY <1>2, <1>5, <2>2 DEF Holds
<1>6. ASSUME NEW j \in 1..k, more[j].kind # "space"
      PROVE  \E m \in names \cup {n} : Holds(more, j, m, map)
  <2>1. CASE j = k
    BY <1>4, <2>1
  <2>2. CASE j \in 1..L
    <3>1. PICK m \in names : Holds(lines, j, m, map)
      BY <1>2, <1>6, <2>2 DEF Tells, L
    <3> QED BY <1>5, <2>2, <3>1
  <2> QED BY <1>2, <1>6, <2>1, <2>2
<1>7. ASSUME NEW m \in names \cup {n}
      PROVE  \E j \in 1..k : Holds(more, j, m, map)
  <2>1. CASE m = n
    BY <1>1, <1>2, <1>3, <1>4, <2>1
  <2>2. CASE m \in names
    <3>1. PICK j \in 1..L : Holds(lines, j, m, map)
      BY <2>2 DEF Tells, L
    <3>2. j \in 1..k
      BY <1>1, <1>2, <1>3
    <3> QED BY <1>5, <3>1, <3>2
  <2> QED BY <2>1, <2>2
<1> QED BY <1>2, <1>6, <1>7 DEF Tells, k, more

LEMMA LinesType ==
  ASSUME NEW map, IsMap(map), NEW n \in DOMAIN map, NEW space
  PROVE  Group(space, n, map) \in Seq(LineSet)
<1>1. n[1] \in Spaces /\ n[2] \in Keys /\ map[n] \in Keys
  BY DEF IsMap, Names, Keys
<1>2. Header(n[1]) \in LineSet /\ Entry(n[2], map[n]) \in LineSet
  BY <1>1 DEF LineSet
<1>3. /\ <<Header(n[1])>> \in Seq(LineSet) /\ <<Entry(n[2], map[n])>> \in Seq(LineSet)
      /\ <<>> \in Seq(LineSet)
  BY <1>2
<1>4. (IF n[1] # space THEN <<Header(n[1])>> ELSE <<>>) \in Seq(LineSet)
  BY <1>3
<1> QED BY <1>3, <1>4, ConcatProperties DEF Group

(* The file that is written tells what is in memory.                       *)
LEMMA LinesTell ==
  ASSUME NEW map, IsMap(map), IsFiniteSet(DOMAIN map)
  PROVE  Tells(Lines(map), map, DOMAIN map)
<1> DEFINE names == Ordered(DOMAIN map)
           N == Len(names)
           groups == [i \in 1..N |-> Group(SpaceBefore(names, i), names[i], map)]
<1>1. DOMAIN map \subseteq Nat \X Nat
  BY ConfAssumption DEF IsMap, Names
<1>2. /\ names \in Seq(DOMAIN map) /\ N \in Nat
      /\ \A n \in DOMAIN map : \E i \in 1..N : names[i] = n
  BY <1>1, OrderedHasAll, LenProperties
<1>3. Lines(map) = FlattenSeq(groups)
  BY DEF Lines, Group
<1> HIDE DEF names, N
<1>4. \A i \in 1..N : names[i] \in DOMAIN map
  BY <1>2, ElementOfSeq DEF N
<1>5. groups \in Seq(Seq(LineSet)) /\ Len(groups) = N
  <2>1. groups \in [1..N -> Seq(LineSet)]
    BY <1>4, LinesType
  <2> HIDE DEF groups
  <2> QED BY <1>2, <2>1, FunctionIsSeq
<1>6. Tells(<<>>, map, {}) /\ SpaceAt(<<>>, Len(<<>>)) = 0
  BY SpaceAtStart, EmptySeq DEF Tells
<1>7. CASE N = 0
  <2>1. DOMAIN map = {}
    <3>1. 1..N = {}
      BY <1>7
    <3>2. \A n \in DOMAIN map : \E i \in 1..N : names[i] = n
      BY <1>2, Zenon
    <3> QED BY <3>1, <3>2, Zenon
  <2>2. FlattenSeq(groups) = groups
    BY <1>5, <1>7 DEF FlattenSeq
  <2>3. groups = <<>>
    BY <1>5, <1>7, EmptySeq
  <2> HIDE DEF groups
  <2> QED BY <1>3, <1>6, <2>1, <2>2, <2>3
<1>8. CASE N # 0
  <2>1. PICK f : Flattens(f, groups) /\ FlattenSeq(groups) = f[N]
    <3>1. Len(groups) \in Nat \ {0}
      BY <1>2, <1>5, <1>8
    <3> HIDE DEF groups
    <3> QED BY <1>5, <3>1, FlattenSteps
  <2> DEFINE Upto(i) == {names[k] : k \in 1..i}
             Good(i) == Tells(f[i], map, Upto(i)) /\ SpaceAt(f[i], Len(f[i])) = names[i][1]
             K == {i \in 0..N : i = 0 \/ Good(i)}
  <2>2. ASSUME NEW i \in 1..N
        PROVE  f[i] = IF i = 1 THEN Group(0, names[1], map)
                      ELSE f[i - 1] \o Group(names[i - 1][1], names[i], map)
    BY <1>5, <2>1 DEF Flattens, SpaceBefore
  <2>3. ASSUME NEW i \in 1..N, NEW before, NEW done, Tells(before, map, done),
               f[i] = With(before, names[i], map), Upto(i) = done \cup {names[i]}
        PROVE  Good(i)
    <3>1. names[i] \in DOMAIN map
      BY <1>4
    <3> HIDE DEF Upto
    <3> DEFINE more == With(before, names[i], map)
    <3>2. Tells(more, map, done \cup {names[i]}) /\ SpaceAt(more, Len(more)) = names[i][1]
      BY <2>3, <3>1, TellsMore
    <3> HIDE DEF more
    <3>3. f[i] = more
      BY <2>3 DEF more
    <3> QED BY <2>3, <3>2, <3>3
  <2>4. Good(1)
    <3>1. f[1] = <<>> \o Group(0, names[1], map)
      <4>1. 1 \in 1..N
        BY <1>2, <1>8
      <4>2. Group(0, names[1], map) \in Seq(LineSet)
        BY <1>4, <4>1, LinesType
      <4> QED BY <2>2, <4>1, <4>2, ConcatEmptySeq
    <3>2. f[1] = With(<<>>, names[1], map)
      BY <1>6, <3>1 DEF With
    <3>3. Upto(1) = {} \cup {names[1]} /\ 1 \in 1..N
      BY <1>2, <1>8
    <3> HIDE DEF Upto, Good
    <3> QED BY <1>6, <2>3, <3>2, <3>3
  <2>5. ASSUME NEW i \in 1..N, i - 1 \in K PROVE i \in K
    <3>1. CASE i = 1
      BY <2>4, <3>1
    <3>2. CASE i # 1
      <4>1. Good(i - 1) /\ i - 1 \in 1..N
        BY <2>5, <3>2
      <4>2. f[i] = With(f[i - 1], names[i], map)
        BY <2>2, <3>2, <4>1 DEF With
      <4>3. Upto(i) = Upto(i - 1) \cup {names[i]}
        <5>1. 1..i = 1..(i - 1) \cup {i}
          OBVIOUS
        <5> QED BY <5>1
      <4>4. Good(i)
        <5> HIDE DEF Upto
        <5> QED BY <2>3, <4>1, <4>2, <4>3
      <4> HIDE DEF Good
      <4> QED BY <4>4
    <3> QED BY <3>1, <3>2
  <2>6. N \in K
    <3>1. 0 \in K
      BY <1>2
    <3> HIDE DEF K
    <3>2. 0..N \subseteq K
      BY <1>2, <2>5, <3>1, SetInduction
    <3> QED BY <1>2, <3>2
  <2>7. Upto(N) = DOMAIN map
    BY <1>2, <1>4
  <2>8. Tells(f[N], map, Upto(N))
    <3> HIDE DEF Upto
    <3> QED BY <1>8, <2>6
  <2> QED BY <1>3, <2>1, <2>7, <2>8
<1> QED BY <1>7, <1>8

-----------------------------------------------------------------------------
(* Reads.                                                                  *)

LEMMA ReadsEntry ==
  ASSUME NEW lines, Len(lines) \in Nat, NEW n \in DOMAIN Reads(lines)
  PROVE  \E j \in 1..Len(lines) :
           /\ IsEntry(lines[j]) /\ NameAt(lines, j) = n
           /\ Reads(lines)[n] = ReadValue(lines[j])
<1> DEFINE at(name) == {i \in 1..Len(lines) : IsEntry(lines[i]) /\ NameAt(lines, i) = name}
           names == {NameAt(lines, i) : i \in {j \in 1..Len(lines) : IsEntry(lines[j])}}
<1>1. Reads(lines) = [name \in names |-> ReadValue(lines[Min(at(name))])]
  BY DEF Reads
<1>2. n \in names
  BY <1>1
<1>3. at(n) # {}
  BY <1>2
<1>4. Reads(lines)[n] = ReadValue(lines[Min(at(n))])
  BY <1>1, <1>2
<1>5. at(n) \subseteq Nat
  OBVIOUS
<1>6. Min(at(n)) \in at(n)
  <2> HIDE DEF at
  <2> QED BY <1>3, <1>5, MinInSet
<1> QED BY <1>4, <1>6

LEMMA ReadsAll ==
  ASSUME NEW lines, NEW j \in 1..Len(lines), IsEntry(lines[j])
  PROVE  NameAt(lines, j) \in DOMAIN Reads(lines)
BY DEF Reads

LEMMA ReadsType ==
  ASSUME NEW lines \in Seq(LineSet)
  PROVE  IsMap(Reads(lines)) /\ IsFiniteSet(DOMAIN Reads(lines))
<1> DEFINE I == {j \in 1..Len(lines) : IsEntry(lines[j])}
           f == [j \in I |-> NameAt(lines, j)]
<1>1. Len(lines) \in Nat
  BY LenProperties
<1>2. ASSUME NEW n \in DOMAIN Reads(lines)
      PROVE  n \in Names /\ Reads(lines)[n] \in Keys
  <2>1. PICK j \in 1..Len(lines) :
           /\ IsEntry(lines[j]) /\ NameAt(lines, j) = n
           /\ Reads(lines)[n] = ReadValue(lines[j])
    BY <1>1, ReadsEntry
  <2>2. lines[j] \in LineSet /\ j \in 0..Len(lines)
    BY <1>1, <2>1, ElementOfSeq
  <2>3. ReadKey(lines[j]) \in Keys /\ ReadValue(lines[j]) \in Keys
    BY <2>1, <2>2, LineKinds
  <2>4. SpaceAt(lines, j) \in Spaces
    BY <2>2, SpaceAtType
  <2> QED BY <2>1, <2>3, <2>4 DEF NameAt, Names, Keys
<1>3. IsMap(Reads(lines))
  BY <1>2 DEF IsMap, Keys
<1>4. DOMAIN Reads(lines) = {NameAt(lines, j) : j \in I}
  BY DEF Reads
<1>5. f \in Surjection(I, DOMAIN Reads(lines))
  <2> HIDE DEF I
  <2> QED BY <1>4 DEF Surjection
<1>6. IsFiniteSet(I)
  <2>1. IsFiniteSet(1..Len(lines))
    BY <1>1, FS_Interval
  <2>2. I \in SUBSET (1..Len(lines))
    OBVIOUS
  <2> HIDE DEF I
  <2> QED BY <2>1, <2>2, FS_Subset
<1>7. IsFiniteSet(DOMAIN Reads(lines))
  <2> HIDE DEF I, f
  <2> QED BY <1>5, <1>6, FS_Surjection
<1> QED BY <1>3, <1>7

(* What an entry of a file that tells what is in memory reads as is in     *)
(* memory, or a shadow.                                                    *)
LEMMA EntryIsTrue ==
  ASSUME NEW map, IsMap(map), NEW lines, Tells(lines, map, DOMAIN map),
         NEW j \in 1..Len(lines), IsEntry(lines[j])
  PROVE  \/ NameAt(lines, j) \in DOMAIN map /\ map[NameAt(lines, j)] = ReadValue(lines[j])
         \/ NameAt(lines, j) \in Shadows(map)
<1>1. lines[j].kind # "space"
  BY DEF IsEntry
<1>2. PICK n \in DOMAIN map : Holds(lines, j, n, map)
  BY <1>1 DEF Tells
<1>3. lines[j].key = n[2] /\ lines[j].value = map[n] /\ SpaceAt(lines, j) = n[1]
  BY <1>2 DEF Holds, Entry, Line
<1>4. n = <<n[1], n[2]>>
  BY DEF IsMap, Names
<1>5. CASE n[2] = 0 /\ map[n] # 0
  <2>1. n \in Odd(map)
    BY <1>5 DEF Odd
  <2>2. NameAt(lines, j) = <<n[1], map[n]>>
    BY <1>3, <1>5 DEF NameAt, ReadKey
  <2> QED BY <2>1, <2>2 DEF Shadows
<1>6. CASE ~(n[2] = 0 /\ map[n] # 0)
  <2>1. NameAt(lines, j) = n /\ ReadValue(lines[j]) = map[n]
    BY <1>3, <1>4, <1>6 DEF NameAt, ReadKey, ReadValue
  <2> QED BY <2>1
<1> QED BY <1>5, <1>6

(* An entry that is not odd can be read.                                   *)
LEMMA EntryIsThere ==
  ASSUME NEW map, IsMap(map), NEW lines, Tells(lines, map, DOMAIN map),
         NEW n \in DOMAIN map \ Odd(map)
  PROVE  n \in DOMAIN Reads(lines)
<1>1. PICK j \in 1..Len(lines) : Holds(lines, j, n, map)
  BY DEF Tells
<1>2. /\ lines[j].kind = "entry" /\ lines[j].key = n[2] /\ lines[j].value = map[n]
      /\ SpaceAt(lines, j) = n[1]
  BY <1>1 DEF Holds, Entry, Line
<1>3. n[2] \notin Commented /\ (n[2] = 0 => map[n] = 0)
  BY DEF Odd
<1>4. n = <<n[1], n[2]>>
  BY DEF IsMap, Names
<1>5. IsEntry(lines[j]) /\ NameAt(lines, j) = n
  BY <1>2, <1>3, <1>4 DEF IsEntry, NameAt, ReadKey
<1> QED BY <1>5, ReadsAll

-----------------------------------------------------------------------------
(* Cuts.                                                                   *)

LEMMA RestsType ==
  ASSUME NEW line \in LineSet, NEW rest \in Rests(line)
  PROVE  rest \in LineSet
<1>1. 0 \in Keys /\ Part \in Keys
  BY ConfAssumption DEF Keys
<1>2. line.kind # "space" => line.key \in Keys
  BY LineKinds
<1> QED BY <1>1, <1>2 DEF Rests, LineSet

(* All lines but the last are whole.                                       *)
Cut(part, lines) ==
  /\ part \in Seq(LineSet)
  /\ \E m \in 0..Len(lines) :
       /\ Len(part) \in {m, m + 1}
       /\ \A j \in 1..m : part[j] = lines[j]

LEMMA CutsAreCut ==
  ASSUME NEW lines \in Seq(LineSet), NEW part \in Cuts(lines)
  PROVE  Cut(part, lines)
<1>1. Len(lines) \in Nat /\ \A j \in 1..Len(lines) : lines[j] \in LineSet
  BY LenProperties, ElementOfSeq
<1>2. ASSUME NEW k \in 0..Len(lines)
      PROVE  /\ SubSeq(lines, 1, k) \in Seq(LineSet) /\ Len(SubSeq(lines, 1, k)) = k
             /\ \A j \in 1..k : SubSeq(lines, 1, k)[j] = lines[j]
  <2>1. k \in Int /\ 1 \in Int /\ \A j \in 1..k : lines[j] \in LineSet
    BY <1>1
  <2>2. /\ SubSeq(lines, 1, k) \in Seq(LineSet)
        /\ Len(SubSeq(lines, 1, k)) = IF 1 <= k THEN k - 1 + 1 ELSE 0
        /\ \A j \in 1..(k - 1 + 1) : SubSeq(lines, 1, k)[j] = lines[1 + j - 1]
    BY <2>1, SubSeqProperties
  <2> QED BY <1>1, <2>2
<1>3. CASE \E k \in 0..Len(lines) : part = SubSeq(lines, 1, k)
  BY <1>2, <1>3 DEF Cut
<1>4. CASE \E k \in 1..Len(lines) : \E rest \in Rests(lines[k]) :
             part = Append(SubSeq(lines, 1, k - 1), rest)
  <2>0. PICK k \in 1..Len(lines) : \E rest \in Rests(lines[k]) :
          part = Append(SubSeq(lines, 1, k - 1), rest)
    BY <1>4
  <2>1. PICK rest \in Rests(lines[k]) : part = Append(SubSeq(lines, 1, k - 1), rest)
    BY <2>0
  <2> DEFINE m == k - 1
             whole == SubSeq(lines, 1, m)
  <2>2. m \in 0..Len(lines) /\ rest \in LineSet
    BY <1>1, <2>1, RestsType
  <2>3. whole \in Seq(LineSet) /\ Len(whole) = m /\ \A j \in 1..m : whole[j] = lines[j]
    BY <1>2, <2>2
  <2>4. part = Append(whole, rest)
    BY <2>1
  <2> HIDE DEF whole, m
  <2>5. /\ part \in Seq(LineSet) /\ Len(part) = m + 1
        /\ \A j \in 1..m : part[j] = whole[j]
    BY <2>2, <2>3, <2>4, AppendProperties
  <2> QED BY <2>2, <2>3, <2>5 DEF Cut
<1> QED BY <1>3, <1>4 DEF Cuts

(* In what is left of a file only the last entry may be wrong.             *)
LEMMA OnlyTheLast ==
  ASSUME NEW map, IsMap(map), NEW lines, Tells(lines, map, DOMAIN map),
         NEW part, Cut(part, lines)
  PROVE  Strange(Reads(part), map) \ Shadows(map) \subseteq {NameAt(part, Len(part))}
<1> SUFFICES ASSUME NEW n \in Strange(Reads(part), map), n \notin Shadows(map)
             PROVE  n = NameAt(part, Len(part))
  OBVIOUS
<1>1. PICK m \in 0..Len(lines) :
        Len(part) \in {m, m + 1} /\ \A j \in 1..m : part[j] = lines[j]
  BY DEF Cut
<1>2. Len(lines) \in Nat /\ Len(part) \in Nat
  BY LenProperties DEF Cut, Tells
<1>3. n \in DOMAIN Reads(part)
  BY DEF Strange
<1>4. PICK j \in 1..Len(part) :
        /\ IsEntry(part[j]) /\ NameAt(part, j) = n
        /\ Reads(part)[n] = ReadValue(part[j])
  BY <1>2, <1>3, ReadsEntry
<1>5. CASE j \in 1..m
  <2>1. j \in Nat /\ j \in 1..Len(lines) /\ \A i \in 1..j : part[i] = lines[i]
    BY <1>1, <1>2, <1>5
  <2>2. SpaceAt(part, j) = SpaceAt(lines, j)
    BY <2>1, SpaceAtSame
  <2>3. part[j] = lines[j]
    BY <1>1, <1>5
  <2>4. NameAt(lines, j) = n /\ IsEntry(lines[j])
    BY <1>4, <2>2, <2>3 DEF NameAt
  <2>5. n \in DOMAIN map /\ map[n] = Reads(part)[n]
    BY <1>4, <2>1, <2>3, <2>4, EntryIsTrue
  <2> QED BY <2>5 DEF Strange
<1>6. CASE j \notin 1..m
  <2>1. j = Len(part)
    BY <1>1, <1>2, <1>6
  <2> QED BY <1>4, <2>1
<1> QED BY <1>5, <1>6

(* In a whole one, none.                                                   *)
LEMMA NoneIsStrange ==
  ASSUME NEW map, IsMap(map), NEW lines, Tells(lines, map, DOMAIN map)
  PROVE  Strange(Reads(lines), map) \subseteq Shadows(map)
<1> SUFFICES ASSUME NEW n \in Strange(Reads(lines), map)
             PROVE  n \in Shadows(map)
  OBVIOUS
<1>1. Len(lines) \in Nat
  BY LenProperties DEF Tells
<1>2. n \in DOMAIN Reads(lines)
  BY DEF Strange
<1>3. PICK j \in 1..Len(lines) :
        /\ IsEntry(lines[j]) /\ NameAt(lines, j) = n
        /\ Reads(lines)[n] = ReadValue(lines[j])
  BY <1>1, <1>2, ReadsEntry
<1> QED BY <1>3, EntryIsTrue DEF Strange

-----------------------------------------------------------------------------
(* The inductive invariant.                                                *)

(* The file is of lines the program or somebody wrote; after an update     *)
(* that says it is done it is what is in memory.                           *)
Inv ==
  /\ IsMap(m_MapFileSet) /\ IsFiniteSet(DOMAIN m_MapFileSet)
  /\ disk = Absent \/ disk \in Seq(LineSet)
  /\ pc \in {"idle", "unlinked", "writing"}
  /\ fds \in 0..MaxFds
  /\ last \in {Done("other"), Done("saved")} \cup {Erased(s) : s \in Spaces}
  /\ last = Done("saved") => pc = "idle" /\ disk = Lines(m_MapFileSet)

LEMMA InvTypes == Inv => TypeOK
BY ReadsType DEF Inv, TypeOK

LEMMA Marks ==
  /\ Done("other") # Done("saved")
  /\ \A s : Erased(s) # Done("saved")
BY DEF Done, Erased

LEMMA EmptyMap == IsMap(<<>>) /\ IsFiniteSet(DOMAIN <<>>)
<1>1. DOMAIN <<>> = {}
  OBVIOUS
<1> QED BY <1>1, FS_EmptySet DEF IsMap

LEMMA InitInv == Init => Inv
<1> SUFFICES ASSUME Init PROVE Inv
  OBVIOUS
<1>1. fds \in 0..MaxFds
  BY ConfAssumption DEF Init
<1>2. CASE disk = Absent
  BY <1>1, <1>2, EmptyMap, Marks DEF Init, Inv
<1>3. CASE disk # Absent
  <2> DEFINE Given == {Header(s) : s \in Spaces} \cup {Entry(k, v) : k \in Texts, v \in Texts}
  <2>1. PICK n \in 0..MaxLines : disk \in [1..n -> Given]
    BY <1>3 DEF Init
  <2>2. Given \subseteq LineSet
    BY DEF LineSet, Keys
  <2> HIDE DEF Given
  <2>3. n \in Nat /\ disk \in [1..n -> LineSet]
    BY <2>1, <2>2, ConfAssumption
  <2>4. disk \in Seq(LineSet)
    BY <2>3, FunctionIsSeq
  <2> QED BY <1>1, <2>4, EmptyMap, Marks DEF Init, Inv
<1> QED BY <1>2, <1>3

LEMMA JoinedType ==
  ASSUME NEW map, IsMap(map), IsFiniteSet(DOMAIN map),
         NEW more, IsMap(more), IsFiniteSet(DOMAIN more)
  PROVE  IsMap(Joined(map, more)) /\ IsFiniteSet(DOMAIN Joined(map, more))
<1>1. DOMAIN Joined(map, more) = DOMAIN map \cup DOMAIN more
  BY DEF Joined
<1>2. IsFiniteSet(DOMAIN map \cup DOMAIN more)
  BY FS_Union
<1> QED BY <1>1, <1>2 DEF Joined, IsMap

LEMMA SingleType ==
  ASSUME NEW s \in Spaces, NEW k \in Texts, NEW v \in Texts
  PROVE  LET map == [name \in {<<s, k>>} |-> v]
         IN IsMap(map) /\ IsFiniteSet(DOMAIN map)
<1>1. IsFiniteSet({<<s, k>>})
  BY FS_Singleton
<1> QED BY <1>1 DEF IsMap, Names

LEMMA WithoutType ==
  ASSUME Inv, NEW names
  PROVE  IsMap(Without(names)) /\ IsFiniteSet(DOMAIN Without(names))
<1>1. DOMAIN Without(names) \in SUBSET DOMAIN m_MapFileSet
  BY DEF Without
<1>2. IsFiniteSet(DOMAIN Without(names))
  BY <1>1, FS_Subset DEF Inv
<1> QED BY <1>2 DEF Without, IsMap, Inv

(* Memory changes to a map of the right kind, and the file is as it was.   *)
LEMMA ChangesInv ==
  ASSUME Inv, NEW map, IsMap(map), IsFiniteSet(DOMAIN map), Changes(map),
         last' = Done("other") \/ \E s \in Spaces : last' = Erased(s)
  PROVE  Inv'
<1>1. last' # Done("saved")
  BY Marks
<1>2. last' \in {Done("other"), Done("saved")} \cup {Erased(s) : s \in Spaces}
  OBVIOUS
<1> QED BY <1>1, <1>2 DEF Changes, Inv

LEMMA LinesTold ==
  ASSUME Inv
  PROVE  Tells(Lines(m_MapFileSet), m_MapFileSet, DOMAIN m_MapFileSet)
BY LinesTell DEF Inv

LEMMA CutsType ==
  ASSUME Inv, NEW part \in Cuts(Lines(m_MapFileSet))
  PROVE  part \in Seq(LineSet)
BY LinesTold, CutsAreCut DEF Tells, Cut

LEMMA NextInv == Inv /\ [Next]_vars => Inv'
<1> SUFFICES ASSUME Inv, [Next]_vars PROVE Inv'
  OBVIOUS
<1>1. CASE LoadConfFile
  <2>1. IsMap(Reads(disk)) /\ IsFiniteSet(DOMAIN Reads(disk))
    BY <1>1, ReadsType DEF LoadConfFile, Inv
  <2>2. LET map == Joined(m_MapFileSet, Reads(disk))
        IN IsMap(map) /\ IsFiniteSet(DOMAIN map)
    BY <2>1, JoinedType DEF Inv
  <2> QED BY <1>1, <2>2, ChangesInv DEF LoadConfFile
<1>2. CASE \E s \in Spaces, k, v \in Texts : SetPrivate(s, k, v)
  <2>1. PICK s \in Spaces, k \in Texts, v \in Texts : SetPrivate(s, k, v)
    BY <1>2
  <2> DEFINE one == [name \in {<<s, k>>} |-> v]
  <2>2. IsMap(one) /\ IsFiniteSet(DOMAIN one)
    BY SingleType
  <2>3. Changes(Joined(one, m_MapFileSet)) /\ last' = Done("other")
    BY <2>1 DEF SetPrivate
  <2> HIDE DEF one
  <2>4. LET map == Joined(one, m_MapFileSet) IN IsMap(map) /\ IsFiniteSet(DOMAIN map)
    BY <2>2, JoinedType DEF Inv
  <2> QED BY <2>3, <2>4, ChangesInv
<1>3. CASE \E s \in Spaces, k \in Texts : ErasePrivate(s, k)
  BY <1>3, WithoutType, ChangesInv DEF ErasePrivate
<1>4. CASE \E s \in Spaces : EraseSpace(s)
  BY <1>4, WithoutType, ChangesInv DEF EraseSpace
<1>5. CASE EraseAll
  BY <1>5, EmptyMap, ChangesInv DEF EraseAll
<1>6. CASE UpdateUnlink
  BY <1>6, Marks DEF UpdateUnlink, Inv
<1>7. CASE UpdateOpen
  <2>1. fds' \in 0..MaxFds
    BY <1>7, ConfAssumption DEF UpdateOpen, Inv
  <2>2. <<>> \in Seq(LineSet)
    BY EmptySeq
  <2> QED BY <1>7, <2>1, <2>2 DEF UpdateOpen, Inv
<1>8. CASE UpdateWrite
  <2>1. disk' \in Seq(LineSet)
    BY <1>8, LinesTold, CutsType DEF UpdateWrite, Tells
  <2>2. last' = Done("saved") => disk' = Lines(m_MapFileSet)
    BY <1>8, Marks DEF UpdateWrite
  <2> QED BY <1>8, <2>1, <2>2 DEF UpdateWrite, Inv
<1>9. CASE Crash
  <2>1. disk' = Absent \/ disk' \in Seq(LineSet)
    BY <1>9, CutsType DEF Crash, Inv
  <2>2. fds' \in 0..MaxFds
    BY <1>9, ConfAssumption DEF Crash
  <2> QED BY <1>9, <2>1, <2>2, EmptyMap, Marks DEF Crash, Inv
<1>10. CASE UNCHANGED vars
  BY <1>10 DEF vars, Inv
<1> QED BY <1>1, <1>2, <1>3, <1>4, <1>5, <1>6, <1>7, <1>8, <1>9, <1>10 DEF Next

-----------------------------------------------------------------------------
(* Theorems.                                                               *)

(* Whatever is loaded, changed, written and cut off, memory and file have  *)
(* the entries of spaces, texts and one piece of a text                    *)
(* (ConfFile.hpp:76-78).                                                   *)
THEOREM ConfFileTypes == Spec => []TypeOK
<1>1. Spec => []Inv
  BY InitInv, NextInv, PTL DEF Spec
<1> QED BY <1>1, InvTypes, PTL

LEMMA InvReadsBack == Inv => SavedReadsBack
<1> SUFFICES ASSUME Inv, last = Done("saved")
             PROVE  /\ Strange(Reads(disk), m_MapFileSet) \subseteq Shadows(m_MapFileSet)
                    /\ DOMAIN m_MapFileSet \ Odd(m_MapFileSet) \subseteq DOMAIN Reads(disk)
  BY DEF SavedReadsBack
<1>1. disk = Lines(m_MapFileSet) /\ IsMap(m_MapFileSet)
  BY DEF Inv
<1>2. Tells(disk, m_MapFileSet, DOMAIN m_MapFileSet)
  BY <1>1, LinesTold
<1> QED BY <1>1, <1>2, NoneIsStrange, EntryIsThere

(* A file that was written to its end reads as what was in memory, but for *)
(* the entries the format cannot say (ConfFile.cpp:80-106, 226-248).       *)
THEOREM SavedAlwaysReadsBack == Spec => []SavedReadsBack
<1>1. Spec => []Inv
  BY InitInv, NextInv, PTL DEF Spec
<1> QED BY <1>1, InvReadsBack, PTL

(* At most one entry of a file is wrong.                                   *)
LEMMA CutIsFew ==
  ASSUME Inv, NEW part, Cut(part, Lines(m_MapFileSet))
  PROVE  Cardinality(Strange(Reads(part), m_MapFileSet) \ Shadows(m_MapFileSet)) <= 1
<1> DEFINE wrong == Strange(Reads(part), m_MapFileSet) \ Shadows(m_MapFileSet)
           it == NameAt(part, Len(part))
<1>1. wrong \in SUBSET {it}
  BY LinesTold, OnlyTheLast DEF Inv
<1>2. IsFiniteSet({it}) /\ Cardinality({it}) = 1
  BY FS_Singleton
<1> HIDE DEF wrong, it
<1>3. Cardinality(wrong) <= 1
  BY <1>1, <1>2, FS_Subset
<1> QED BY <1>3 DEF wrong

LEMMA StepKeepsTheRest ==
  Inv /\ [Next]_vars =>
    [pc = "writing" =>
       Cardinality(Strange(Reads(disk'), m_MapFileSet) \ Shadows(m_MapFileSet)) <= 1]_vars
<1> SUFFICES ASSUME Inv, Next, pc = "writing"
             PROVE  Cardinality(Strange(Reads(disk'), m_MapFileSet)
                                  \ Shadows(m_MapFileSet)) <= 1
  OBVIOUS
<1>1. disk' = Lines(m_MapFileSet) \/ disk' \in Cuts(Lines(m_MapFileSet))
  BY DEF Next, LoadConfFile, SetPrivate, ErasePrivate, EraseSpace, EraseAll, Changes,
         UpdateUnlink, UpdateOpen, UpdateWrite, Crash
<1>2. Lines(m_MapFileSet) \in Seq(LineSet)
  BY LinesTold DEF Tells
<1>3. CASE disk' = Lines(m_MapFileSet)
  <2>1. Cut(disk', Lines(m_MapFileSet))
    BY <1>2, <1>3, LenProperties DEF Cut
  <2> QED BY <2>1, CutIsFew
<1>4. CASE disk' \in Cuts(Lines(m_MapFileSet))
  BY <1>2, <1>4, CutsAreCut, CutIsFew
<1> QED BY <1>1, <1>3, <1>4

(* When the process dies or the disk is full while the file is written, at *)
(* most one entry of it is wrong (ConfFile.cpp:84-106, 229-249).           *)
THEOREM CutAlwaysKeepsTheRest == Spec => CutKeepsTheRest
<1>1. Spec => []Inv
  BY InitInv, NextInv, PTL DEF Spec
<1> QED BY <1>1, StepKeepsTheRest, PTL DEF Spec, CutKeepsTheRest

-----------------------------------------------------------------------------
(* The codecs; the hex is the form of a ciphered file (ConfFile.cpp:65,    *)
(* 261-263).  Texts are bytes.                                             *)
Code == INSTANCE Codec

Bytes == Seq(Nat)

(* u is s with t behind it, n and m are their lengths.                     *)
Behind(u, s, n, t, m) ==
  /\ u \in Bytes /\ Len(u) = n + m
  /\ \A j \in 1..n : u[j] = s[j]
  /\ \A j \in 1..m : u[n + j] = t[j]

LEMMA JoinIs ==
  ASSUME NEW s \in Bytes, NEW t \in Bytes
  PROVE  Behind(s \o t, s, Len(s), t, Len(t))
<1> DEFINE n == Len(s)
           m == Len(t)
           u == s \o t
<1>1. s \in Seq(Nat) /\ t \in Seq(Nat) /\ n \in Nat /\ m \in Nat
  BY DEF Bytes
<1>2. /\ u \in Seq(Nat) /\ Len(u) = n + m
      /\ \A i \in 1..(n + m) : u[i] = IF i <= n THEN s[i] ELSE t[i - n]
  BY <1>1, ConcatProperties
<1> HIDE DEF u, n, m
<1>3. ASSUME NEW j \in 1..m PROVE u[n + j] = t[j]
  <2> DEFINE i == n + j
  <2>1. i \in 1..(n + m) /\ ~(i <= n) /\ i - n = j
    BY <1>1
  <2> HIDE DEF i
  <2>2. u[i] = t[j]
    BY <1>2, <2>1
  <2> QED BY <2>2 DEF i
<1>4. \A j \in 1..n : j \in 1..(n + m) /\ j <= n
  BY <1>1
<1>5. \A j \in 1..n : u[j] = s[j]
  BY <1>2, <1>4
<1>6. Behind(u, s, n, t, m)
  BY <1>2, <1>3, <1>5 DEF Bytes, Behind
<1> QED BY <1>6 DEF u, n, m

(* How many bytes the first texts have.                                    *)
Upto(f, k) == IF k = 0 THEN 0 ELSE Len(f[k])

(* Texts one behind the other: each begins where those before it end.      *)
LaidOut(f, N, seqs) ==
  /\ \A k \in 0..N : Upto(f, k) \in Nat /\ Upto(f, k) <= Upto(f, N)
  /\ \A k \in 1..N : f[k] \in Bytes
  /\ \A k \in 1..N : Upto(f, k) = Upto(f, k - 1) + Len(seqs[k])
  /\ \A k \in 1..N : \A j \in 1..Len(seqs[k]) :
       f[N][Upto(f, k - 1) + j] = seqs[k][j]

LEMMA Places ==
  ASSUME NEW N \in Nat \ {0}, NEW seqs \in [1..N -> Bytes], Len(seqs) = N,
         NEW f, Flattens(f, seqs)
  PROVE  LaidOut(f, N, seqs)
<1>1. \A i \in 1..N : f[i] = IF i = 1 THEN seqs[1] ELSE f[i - 1] \o seqs[i]
  BY DEF Flattens
<1>2. \A k \in 1..N : seqs[k] \in Bytes /\ Len(seqs[k]) \in Nat
  BY DEF Bytes
<1>3. \A k \in 1..N : f[k] \in Bytes
  <2> DEFINE K == {k \in 0..N : k = 0 \/ f[k] \in Bytes}
  <2>1. 0 \in K
    OBVIOUS
  <2>2. ASSUME NEW k \in 1..N, k - 1 \in K PROVE k \in K
    <3>1. CASE k = 1
      BY <1>1, <1>2, <3>1
    <3>2. CASE k # 1
      <4>1. k - 1 \in 1..N /\ f[k - 1] \in Bytes
        BY <2>2, <3>2
      <4>2. f[k - 1] \o seqs[k] \in Bytes
        BY <1>2, <4>1, JoinIs DEF Behind
      <4> QED BY <1>1, <3>2, <4>2
    <3> QED BY <3>1, <3>2
  <2> HIDE DEF K
  <2>3. 0..N \subseteq K
    BY <2>1, <2>2, SetInduction
  <2> QED BY <2>3 DEF K
<1>4. \A k \in 1..N : Len(f[k]) \in Nat
  BY <1>3 DEF Bytes
<1>5. ASSUME NEW k \in 1..N
      PROVE  /\ Upto(f, k) = Upto(f, k - 1) + Len(seqs[k])
             /\ \A j \in 1..Upto(f, k - 1) : f[k][j] = f[k - 1][j]
             /\ \A j \in 1..Len(seqs[k]) : f[k][Upto(f, k - 1) + j] = seqs[k][j]
  <2>1. CASE k = 1
    <3>1. Upto(f, k) = Len(f[k]) /\ Upto(f, k - 1) = 0 /\ f[k] = seqs[k]
      BY <1>1, <2>1 DEF Upto
    <3>2. \A j \in 1..Len(seqs[k]) : 0 + j = j
      BY <1>2
    <3> QED BY <1>2, <3>1, <3>2
  <2>2. CASE k # 1
    <3>1. k - 1 \in 1..N /\ k # 0 /\ k - 1 # 0
      BY <2>2
    <3>2. f[k] = f[k - 1] \o seqs[k]
      BY <1>1, <2>2
    <3>3. Behind(f[k], f[k - 1], Len(f[k - 1]), seqs[k], Len(seqs[k]))
      BY <1>2, <1>3, <3>1, <3>2, JoinIs
    <3>4. Upto(f, k) = Len(f[k]) /\ Upto(f, k - 1) = Len(f[k - 1])
      BY <3>1 DEF Upto
    <3> QED BY <3>3, <3>4 DEF Behind
  <2> QED BY <2>1, <2>2
<1>6. \A k \in 0..N : Upto(f, k) \in Nat
  BY <1>4 DEF Upto
(* What is behind a text does not change it.                               *)
<1> DEFINE D == {d \in 0..N : \A k \in 0..N : k >= N - d =>
                   /\ Upto(f, k) <= Upto(f, N)
                   /\ \A j \in 1..Upto(f, k) : f[N][j] = f[k][j]}
<1>7. 0 \in D
  BY <1>6
<1>8. ASSUME NEW d \in 1..N, d - 1 \in D PROVE d \in D
  <2> SUFFICES ASSUME NEW k \in 0..N, k >= N - d
               PROVE  /\ Upto(f, k) <= Upto(f, N)
                      /\ \A j \in 1..Upto(f, k) : f[N][j] = f[k][j]
    OBVIOUS
  <2>1. CASE k >= N - (d - 1)
    BY <1>8, <2>1
  <2>2. CASE ~(k >= N - (d - 1))
    <3> DEFINE l == k + 1
    <3>1. l \in 1..N /\ l >= N - (d - 1) /\ l - 1 = k
      BY <2>2
    <3>2. l \in 0..N
      BY <3>1
    <3> HIDE DEF l
    <3>3. /\ Upto(f, l) <= Upto(f, N)
          /\ \A j \in 1..Upto(f, l) : f[N][j] = f[l][j]
      BY <1>8, <3>1, <3>2
    <3>4. /\ Upto(f, l) = Upto(f, k) + Len(seqs[l])
          /\ \A j \in 1..Upto(f, k) : f[l][j] = f[k][j]
      BY <1>5, <3>1
    <3>5. Upto(f, k) \in Nat /\ Upto(f, l) \in Nat /\ Len(seqs[l]) \in Nat /\ Upto(f, N) \in Nat
      BY <1>2, <1>6, <3>1, <3>2
    <3>6. \A j \in 1..Upto(f, k) : j \in 1..Upto(f, l)
      BY <3>4, <3>5
    <3> QED BY <3>3, <3>4, <3>5, <3>6
  <2> QED BY <2>1, <2>2
<1> HIDE DEF D
<1>9. 0..N \subseteq D
  BY <1>7, <1>8, SetInduction
<1>10. \A k \in 0..N : /\ Upto(f, k) <= Upto(f, N)
                      /\ \A j \in 1..Upto(f, k) : f[N][j] = f[k][j]
  <2>1. N \in D
    BY <1>9
  <2>2. \A k \in 0..N : k >= N - N
    OBVIOUS
  <2> QED BY <2>1, <2>2 DEF D
<1>11. ASSUME NEW k \in 1..N, NEW j \in 1..Len(seqs[k])
       PROVE  f[N][Upto(f, k - 1) + j] = seqs[k][j]
  <2> DEFINE i == Upto(f, k - 1) + j
  <2>1. k - 1 \in 0..N /\ k \in 0..N
    OBVIOUS
  <2>2. i \in 1..Upto(f, k)
    <3>1. Upto(f, k - 1) \in Nat /\ Len(seqs[k]) \in Nat
      BY <1>2, <1>6, <2>1
    <3>2. Upto(f, k) = Upto(f, k - 1) + Len(seqs[k])
      BY <1>5
    <3> QED BY <3>1, <3>2
  <2>3. f[k][i] = seqs[k][j]
    BY <1>5
  <2> HIDE DEF i
  <2>4. f[N][i] = f[k][i]
    BY <1>10, <2>1, <2>2
  <2> QED BY <2>3, <2>4 DEF i
<1> QED BY <1>3, <1>5, <1>6, <1>10, <1>11 DEF LaidOut

(* u is made of N sequences, each where the one before it ends.            *)
Laid(u, at, N, seqs) ==
  /\ u \in Bytes /\ at[0] = 0 /\ Len(u) = at[N]
  /\ \A k \in 0..N : at[k] \in Nat /\ at[k] <= at[N]
  /\ \A k \in 1..N : at[k] = at[k - 1] + Len(seqs[k])
  /\ \A k \in 1..N : \A j \in 1..Len(seqs[k]) : u[at[k - 1] + j] = seqs[k][j]

LEMMA Laying ==
  ASSUME NEW N \in Nat, NEW seqs \in [1..N -> Bytes], Len(seqs) = N
  PROVE  \E at : Laid(Code!FlattenSeq(seqs), at, N, seqs)
<1>1. Code!FlattenSeq(seqs) = FlattenSeq(seqs)
  BY DEF Code!FlattenSeq, FlattenSeq
<1>2. CASE N = 0
  <2> DEFINE at == [k \in 0..0 |-> 0]
  <2>1. FlattenSeq(seqs) = <<>>
    BY <1>2 DEF FlattenSeq
  <2>2. Laid(<<>>, at, 0, seqs)
    BY DEF Laid, Bytes
  <2> HIDE DEF at
  <2> QED BY <1>1, <1>2, <2>1, <2>2
<1>3. CASE N # 0
  <2>1. PICK f : Flattens(f, seqs) /\ FlattenSeq(seqs) = f[Len(seqs)]
    BY <1>3, FlattenSteps
  <2>2. LaidOut(f, N, seqs)
    BY <1>3, <2>1, Places
  <2> DEFINE at == [k \in 0..N |-> Upto(f, k)]
  <2>3. \A k \in 0..N : at[k] = Upto(f, k)
    OBVIOUS
  <2> HIDE DEF at
  <2>4. /\ f[N] \in Bytes /\ at[0] = 0 /\ Len(f[N]) = at[N]
        /\ \A k \in 0..N : at[k] \in Nat /\ at[k] <= at[N]
    <3>1. N \in 1..N /\ N \in 0..N /\ 0 \in 0..N
      BY <1>3
    <3>2. f[N] \in Bytes
      BY <2>2, <3>1 DEF LaidOut
    <3>3. at[0] = Upto(f, 0) /\ at[N] = Upto(f, N)
      BY <2>3, <3>1
    <3>4. Upto(f, 0) = 0 /\ Upto(f, N) = Len(f[N])
      BY <1>3 DEF Upto
    <3>5. ASSUME NEW k \in 0..N PROVE at[k] \in Nat /\ at[k] <= at[N]
      <4>1. Upto(f, k) \in Nat /\ Upto(f, k) <= Upto(f, N)
        BY <2>2 DEF LaidOut
      <4> QED BY <2>3, <3>3, <4>1
    <3> QED BY <3>2, <3>3, <3>4, <3>5
  <2>5. ASSUME NEW k \in 1..N
        PROVE  /\ at[k] = at[k - 1] + Len(seqs[k])
               /\ \A j \in 1..Len(seqs[k]) : f[N][at[k - 1] + j] = seqs[k][j]
    <3>1. k \in 0..N /\ k - 1 \in 0..N
      OBVIOUS
    <3>2. at[k] = Upto(f, k) /\ at[k - 1] = Upto(f, k - 1)
      BY <2>3, <3>1
    <3> QED BY <2>2, <3>2 DEF LaidOut
  <2>6. Laid(f[N], at, N, seqs)
    BY <2>4, <2>5 DEF Laid
  <2> QED BY <1>1, <2>1, <2>6
<1> QED BY <1>2, <1>3

(* A decoder looks at its text from the place i on, and goes on from       *)
(* next[i]: what it reads there is out[i], or nothing at a mute place.     *)
Step(from, i, L, next, out, mute) ==
  IF i > L THEN <<>>
  ELSE IF i \in mute THEN from[next[i]] ELSE out[i] \o from[next[i]]

Decodes(from, L, next, out, mute) ==
  from = [i \in Nat |-> Step(from, i, L, next, out, mute)]

LEMMA DecoderExists ==
  ASSUME NEW L \in Nat, NEW next, NEW out, NEW mute,
         \A i \in 0..L : next[i] \in Nat /\ next[i] > i
  PROVE  \E from : Decodes(from, L, next, out, mute)
<1> DEFINE P(f, d) == /\ f = [i \in Nat |-> f[i]]
                      /\ \A i \in Nat : i > L - d => f[i] = Step(f, i, L, next, out, mute)
           D == {d \in 0..(L + 1) : \E f : P(f, d)}
<1>1. 0 \in D
  <2> DEFINE f == [i \in Nat |-> <<>>]
  <2>1. f = [i \in Nat |-> f[i]] /\ \A i \in Nat : i > L - 0 => f[i] = Step(f, i, L, next, out, mute)
    BY DEF Step
  <2>2. P(f, 0)
    BY <2>1
  <2> HIDE DEF f, P
  <2> QED BY <2>2
<1>2. ASSUME NEW d \in 1..(L + 1), d - 1 \in D PROVE d \in D
  <2>1. PICK f : P(f, d - 1)
    BY <1>2
  <2> DEFINE e == L - d + 1
  <2>2. e \in 0..L
    OBVIOUS
  <2>3. \A i \in Nat : i > L - d => i = e \/ (i > e /\ i > L - (d - 1))
    OBVIOUS
  <2> HIDE DEF e
  <2> DEFINE g == [i \in Nat |-> IF i = e THEN Step(f, e, L, next, out, mute) ELSE f[i]]
  <2>4. ASSUME NEW i \in Nat, i >= e
        PROVE  Step(g, i, L, next, out, mute) = Step(f, i, L, next, out, mute)
    <3>1. CASE i > L
      BY <3>1 DEF Step
    <3>2. CASE ~(i > L)
      <4>1. i \in 0..L
        BY <3>2
      <4>2. next[i] \in Nat /\ next[i] # e
        BY <2>2, <2>4, <4>1
      <4>3. g[next[i]] = f[next[i]]
        BY <4>2
      <4> HIDE DEF g
      <4> QED BY <4>3 DEF Step
    <3> QED BY <3>1, <3>2
  <2>5. ASSUME NEW i \in Nat, i > L - d PROVE g[i] = Step(g, i, L, next, out, mute)
    <3>1. CASE i = e
      <4>1. g[i] = Step(f, e, L, next, out, mute)
        BY <3>1
      <4>2. e >= e
        BY <2>2
      <4> HIDE DEF g
      <4> QED BY <2>4, <3>1, <4>1, <4>2
    <3>2. CASE i # e
      <4>1. i > e /\ i > L - (d - 1)
        BY <2>3, <2>5, <3>2
      <4>2. f[i] = Step(f, i, L, next, out, mute)
        BY <2>1, <4>1
      <4>3. g[i] = f[i]
        BY <3>2
      <4>4. i >= e
        BY <2>2, <4>1
      <4> HIDE DEF g
      <4> QED BY <2>4, <4>2, <4>3, <4>4
    <3> QED BY <3>1, <3>2
  <2>6. g = [i \in Nat |-> g[i]]
    OBVIOUS
  <2> HIDE DEF g
  <2>7. P(g, d)
    BY <2>5, <2>6
  <2> HIDE DEF P
  <2> QED BY <2>7
<1> HIDE DEF D
<1>3. 0..(L + 1) \subseteq D
  <2>1. L + 1 \in Nat
    OBVIOUS
  <2> QED BY <1>1, <1>2, <2>1, SetInduction
<1>4. PICK f : P(f, L + 1)
  <2>1. L + 1 \in D
    BY <1>3
  <2> HIDE DEF P
  <2> QED BY <2>1 DEF D
<1>5. ASSUME NEW i \in Nat PROVE f[i] = Step(f, i, L, next, out, mute)
  <2>1. i > L - (L + 1)
    OBVIOUS
  <2> QED BY <1>4, <2>1
<1>6. f = [i \in Nat |-> Step(f, i, L, next, out, mute)]
  <2>1. f = [i \in Nat |-> f[i]]
    BY <1>4
  <2> HIDE DEF P
  <2> QED BY <1>5, <2>1
<1>7. Decodes(f, L, next, out, mute)
  BY <1>6 DEF Decodes
<1> QED BY <1>7

(* What is read from begin[k] on is what the data holds from cut[k] on.    *)
Undoing(from, begin, cut, N, data) ==
  /\ cut[0] = 0 /\ cut[N] = Len(data)
  /\ \A k \in 0..N : cut[k] \in Nat /\ cut[k] <= cut[N]
  /\ \A k \in 1..N : cut[k - 1] <= cut[k]
  /\ from[begin[N]] = <<>>
  /\ \A k \in 1..N : from[begin[k - 1]]
                       = SubSeq(data, cut[k - 1] + 1, cut[k]) \o from[begin[k]]

LEMMA Undone ==
  ASSUME NEW data \in Bytes, NEW N \in Nat, NEW from, NEW begin, NEW cut,
         Undoing(from, begin, cut, N, data)
  PROVE  from[begin[0]] = data
<1>1. data \in Seq(Nat) /\ Len(data) \in Nat
  BY DEF Bytes
<1>2. /\ cut[0] = 0 /\ cut[N] = Len(data)
      /\ \A k \in 0..N : cut[k] \in Nat /\ cut[k] <= cut[N]
      /\ \A k \in 1..N : cut[k - 1] <= cut[k]
      /\ from[begin[N]] = <<>>
      /\ \A k \in 1..N : from[begin[k - 1]]
                           = SubSeq(data, cut[k - 1] + 1, cut[k]) \o from[begin[k]]
  BY DEF Undoing
<1> DEFINE D == {d \in 0..N : from[begin[N - d]] = SubSeq(data, cut[N - d] + 1, Len(data))}
<1>3. 0 \in D
  <2>1. SubSeq(data, Len(data) + 1, Len(data)) = <<>>
    <3>1. Len(data) + 1 \in Int /\ Len(data) \in Int /\ Len(data) < Len(data) + 1
      BY <1>1
    <3> QED BY <3>1, SubSeqEmpty
  <2>2. N - 0 = N /\ 0 \in 0..N
    OBVIOUS
  <2> QED BY <1>2, <2>1, <2>2
<1>4. ASSUME NEW d \in 1..N, d - 1 \in D PROVE d \in D
  <2> DEFINE k == N - (d - 1)
  <2>1. k \in 1..N /\ k \in 0..N /\ k - 1 \in 0..N /\ N - d = k - 1
    OBVIOUS
  <2>2. from[begin[k]] = SubSeq(data, cut[k] + 1, Len(data))
    BY <1>4
  <2> HIDE DEF k
  <2>3. SubSeq(data, cut[k - 1] + 1, cut[k]) \o SubSeq(data, cut[k] + 1, Len(data))
          = SubSeq(data, cut[k - 1] + 1, Len(data))
    <3> DEFINE a == cut[k - 1]
               b == cut[k]
               n == Len(data)
    <3>1. a \in Nat /\ b \in Nat /\ n \in Nat /\ a <= b /\ b <= n
      BY <1>1, <1>2, <2>1
    <3> HIDE DEF a, b, n
    <3>2. a + 1 \in 1..(n + 1) /\ b \in ((a + 1) - 1)..n /\ n \in b..n
      BY <3>1
    <3>3. SubSeq(data, a + 1, b) \o SubSeq(data, b + 1, n) = SubSeq(data, a + 1, n)
      BY <1>1, <3>2, ConcatAdjacentSubSeq DEF n
    <3> QED BY <3>3 DEF a, b, n
  <2>4. from[begin[k - 1]] = SubSeq(data, cut[k - 1] + 1, Len(data))
    BY <1>2, <2>1, <2>2, <2>3
  <2> QED BY <2>1, <2>4
<1> HIDE DEF D
<1>5. 0..N \subseteq D
  BY <1>3, <1>4, SetInduction
<1>6. from[begin[0]] = SubSeq(data, 0 + 1, Len(data))
  <2>1. N \in D /\ N - N = 0
    BY <1>5
  <2> QED BY <1>2, <2>1 DEF D
<1>7. SubSeq(data, 1, Len(data)) = data
  BY <1>1, SubSeqFull
<1> QED BY <1>6, <1>7

Octets == Seq(0..255)

LEMMA OctetsAreBytes ==
  ASSUME NEW data \in Octets
  PROVE  /\ data \in Bytes /\ Len(data) \in Nat
         /\ \A i \in 1..Len(data) : data[i] \in 0..255
<1>1. 0..255 \subseteq Nat
  OBVIOUS
<1>2. data \in Bytes
  BY <1>1, SeqMonotonic DEF Bytes, Octets
<1>3. \A i \in 1..Len(data) : data[i] \in 0..255
  BY ElementOfSeq DEF Octets
<1>4. Len(data) \in Nat
  BY LenProperties DEF Octets
<1> QED BY <1>2, <1>3, <1>4

LEMMA SeqsOver ==
  ASSUME NEW N \in Nat, NEW seqs, seqs = [k \in 1..N |-> seqs[k]],
         \A k \in 1..N : seqs[k] \in Bytes
  PROVE  seqs \in [1..N -> Bytes] /\ Len(seqs) = N
<1>1. seqs \in Seq(Bytes) /\ DOMAIN seqs = 1..N
  BY DEF Bytes
<1> QED BY <1>1

(* Pieces of the same length stand at its multiples.                       *)
AllHave(seqs, N, w) == \A k \in 1..N : Len(seqs[k]) = w
Every(at, N, w) == \A k \in 0..N : at[k] = w * k

LEMMA Strides ==
  ASSUME NEW u, NEW at, NEW N \in Nat, NEW seqs, Laid(u, at, N, seqs),
         NEW w \in Nat, AllHave(seqs, N, w)
  PROVE  Every(at, N, w)
<1> DEFINE K == {k \in 0..N : at[k] = w * k}
<1>1. 0 \in K
  <2>1. w * 0 = 0 /\ 0 \in 0..N
    OBVIOUS
  <2> QED BY <2>1 DEF Laid
<1>2. ASSUME NEW k \in 1..N, k - 1 \in K PROVE k \in K
  <2>1. at[k] = at[k - 1] + w /\ at[k - 1] = w * (k - 1)
    BY <1>2 DEF Laid, AllHave
  <2>2. w * (k - 1) + w = w * k
    OBVIOUS
  <2> QED BY <2>1, <2>2
<1> HIDE DEF K
<1>3. 0..N \subseteq K
  BY <1>1, <1>2, SetInduction
<1> QED BY <1>3 DEF K, Every

LEMMA HexDigits ==
  ASSUME NEW n \in 0..15
  PROVE  Code!hex[n] \in Nat /\ Code!hex[n] <= 70 /\ Code!HexDigit(Code!hex[n]) = n
<1>1. CASE n < 10
  <2>1. Code!hex[n] = 48 + n /\ 48 + n \in 48..57
    BY <1>1 DEF Code!hex
  <2>2. Code!HexDigit(48 + n) = n
    BY <2>1 DEF Code!HexDigit, Code!Digit, Code!Upper, Code!Lower
  <2> QED BY <2>1, <2>2
<1>2. CASE ~(n < 10)
  <2>1. Code!hex[n] = 55 + n /\ 55 + n \in 65..70
    BY <1>2 DEF Code!hex
  <2>2. 55 + n \notin 48..57 /\ 55 + n \in 65..90
    BY <2>1
  <2>3. Code!HexDigit(55 + n) = n
    BY <2>2 DEF Code!HexDigit, Code!Digit, Code!Upper, Code!Lower
  <2> QED BY <2>1, <2>3
<1> QED BY <1>1, <1>2

LEMMA HexPairs ==
  ASSUME NEW byte \in 0..255
  PROVE  /\ Code!HexPair(byte) \in Bytes /\ Len(Code!HexPair(byte)) = 2
         /\ Code!HexValue(Code!HexPair(byte)[1], Code!HexPair(byte)[2]) = byte
<1> DEFINE h == byte \div 16
           l == byte % 16
<1>1. h \in 0..15 /\ l \in 0..15 /\ 16 * h + l = byte
  OBVIOUS
<1> HIDE DEF h, l
<1>2. Code!HexPair(byte) = <<Code!hex[h], Code!hex[l]>>
  BY DEF Code!HexPair, h, l
<1>3. Code!HexValue(Code!hex[h], Code!hex[l]) = byte
  BY <1>1, HexDigits DEF Code!HexValue
<1>4. Code!hex[h] \in Nat /\ Code!hex[l] \in Nat
  BY <1>1, HexDigits
<1> QED BY <1>2, <1>3, <1>4 DEF Bytes

LEMMA HexInverts ==
  ASSUME NEW data \in Octets
  PROVE  Code!HexToAscii(Code!AsciiToHex(data)) = data
<1> DEFINE N == Len(data)
           seqs == [k \in 1..N |-> Code!HexPair(data[k])]
           u == Code!AsciiToHex(data)
<1>1. data \in Bytes /\ \A k \in 1..N : data[k] \in 0..255
  BY OctetsAreBytes
<1>2. N \in Nat
  BY OctetsAreBytes
<1>3. u = Code!FlattenSeq(seqs)
  BY DEF Code!AsciiToHex, Code!Each
<1>4. seqs = [k \in 1..N |-> seqs[k]] /\ \A k \in 1..N : seqs[k] = Code!HexPair(data[k])
  OBVIOUS
<1> HIDE DEF N, seqs, u
<1>5. \A k \in 1..N : seqs[k] \in Bytes /\ Len(seqs[k]) = 2
  BY <1>1, <1>4, HexPairs
<1>6. seqs \in [1..N -> Bytes] /\ Len(seqs) = N
  BY <1>2, <1>4, <1>5, SeqsOver
<1>7. PICK at : Laid(u, at, N, seqs)
  BY <1>2, <1>3, <1>6, Laying
<1>8. \A k \in 0..N : at[k] = 2 * k
  <2>1. 2 \in Nat /\ AllHave(seqs, N, 2)
    BY <1>5 DEF AllHave
  <2>2. Every(at, N, 2)
    BY <1>2, <1>7, <2>1, Strides
  <2> QED BY <2>2 DEF Every
<1>9. Len(u) = 2 * N
  BY <1>2, <1>7, <1>8 DEF Laid
<1>10. ASSUME NEW k \in 1..N PROVE Code!HexValue(u[2 * k - 1], u[2 * k]) = data[k]
  <2>1. k - 1 \in 0..N /\ 1 \in 1..Len(seqs[k]) /\ 2 \in 1..Len(seqs[k])
    <3>1. Len(seqs[k]) = 2
      BY <1>5
    <3> QED BY <1>2, <3>1
  <2>2. u[at[k - 1] + 1] = seqs[k][1] /\ u[at[k - 1] + 2] = seqs[k][2]
    BY <1>7, <2>1 DEF Laid
  <2>3. at[k - 1] + 1 = 2 * k - 1 /\ at[k - 1] + 2 = 2 * k
    BY <1>2, <1>8, <2>1
  <2> QED BY <1>1, <1>4, <2>2, <2>3, HexPairs
<1>11. (Len(u) + 1) \div 2 = N
  BY <1>2, <1>9
<1>12. Code!HexToAscii(u) = [k \in 1..N |-> Code!HexValue(u[2 * k - 1], u[2 * k])]
  BY <1>11 DEF Code!HexToAscii
<1>13. data = [k \in 1..N |-> data[k]]
  BY <1>1 DEF Bytes, N
<1>14. Code!HexToAscii(u) = data
  BY <1>10, <1>12, <1>13
<1> QED BY <1>14 DEF u

LEMMA MacInverts ==
  ASSUME NEW data \in Octets, Len(data) = 6
  PROVE  Code!String2Mac(Code!Mac2String(data)) = data
<1> DEFINE seqs == [i \in 1..5 |-> <<58>> \o Code!HexPair(data[i + 1])]
           rest == Code!FlattenSeq(seqs)
           first == Code!HexPair(data[1])
           u == Code!Mac2String(data)
<1>1. data \in Bytes /\ \A k \in 1..6 : data[k] \in 0..255
  BY OctetsAreBytes
<1>2. u = first \o rest
  BY DEF Code!Mac2String
<1>3. seqs = [k \in 1..5 |-> seqs[k]] /\ \A k \in 1..5 : seqs[k] = <<58>> \o Code!HexPair(data[k + 1])
  OBVIOUS
<1>4. first \in Bytes /\ Len(first) = 2 /\ Code!HexValue(first[1], first[2]) = data[1]
  BY <1>1, HexPairs
<1> HIDE DEF seqs, rest, first, u
<1>5. ASSUME NEW k \in 1..5
      PROVE  /\ seqs[k] \in Bytes /\ Len(seqs[k]) = 3
             /\ Code!HexValue(seqs[k][2], seqs[k][3]) = data[k + 1]
  <2> DEFINE pair == Code!HexPair(data[k + 1])
  <2>1. pair \in Bytes /\ Len(pair) = 2 /\ Code!HexValue(pair[1], pair[2]) = data[k + 1]
    <3>1. k + 1 \in 1..6
      OBVIOUS
    <3> QED BY <1>1, <3>1, HexPairs
  <2>2. seqs[k] = <<58>> \o pair
    BY <1>3
  <2> HIDE DEF pair
  <2>3. <<58>> \in Bytes /\ Len(<<58>>) = 1
    BY DEF Bytes
  <2>4. Behind(seqs[k], <<58>>, 1, pair, 2)
    BY <2>1, <2>2, <2>3, JoinIs
  <2>5. seqs[k] \in Bytes /\ Len(seqs[k]) = 1 + 2 /\ seqs[k][1 + 1] = pair[1] /\ seqs[k][1 + 2] = pair[2]
    BY <2>4 DEF Behind
  <2> QED BY <2>1, <2>5
<1>6. seqs \in [1..5 -> Bytes] /\ Len(seqs) = 5
  BY <1>3, <1>5, SeqsOver
<1>7. PICK at : Laid(rest, at, 5, seqs)
  BY <1>6, Laying DEF rest
<1>8. Every(at, 5, 3)
  <2>1. AllHave(seqs, 5, 3)
    BY <1>5 DEF AllHave
  <2> QED BY <1>7, <2>1, Strides
<1>9. Behind(u, first, 2, rest, Len(rest))
  <2>1. rest \in Bytes
    BY <1>7 DEF Laid
  <2> QED BY <1>2, <1>4, <2>1, JoinIs
<1>10. Len(rest) = 15
  <2>1. Len(rest) = at[5] /\ at[5] = 3 * 5
    BY <1>7, <1>8 DEF Laid, Every
  <2> QED BY <2>1
<1>11. ASSUME NEW i \in 1..6 PROVE Code!HexValue(u[3 * i - 2], u[3 * i - 1]) = data[i]
  <2>1. CASE i = 1
    <3>1. u[1] = first[1] /\ u[2] = first[2]
      BY <1>9 DEF Behind
    <3> QED BY <1>4, <2>1, <3>1
  <2>2. CASE i # 1
    <3> DEFINE k == i - 1
    <3>1. k \in 1..5 /\ k - 1 \in 0..5 /\ i = k + 1
      BY <2>2
    <3> HIDE DEF k
    <3>2. at[k - 1] = 3 * (k - 1) /\ Len(seqs[k]) = 3
      BY <1>5, <1>8, <3>1 DEF Every
    <3>3. rest[at[k - 1] + 2] = seqs[k][2] /\ rest[at[k - 1] + 3] = seqs[k][3]
      <4>1. 2 \in 1..Len(seqs[k]) /\ 3 \in 1..Len(seqs[k])
        BY <3>2
      <4> QED BY <1>7, <3>1, <4>1 DEF Laid
    <3> DEFINE p == at[k - 1] + 2
               q == at[k - 1] + 3
    <3>4. p \in 1..15 /\ q \in 1..15 /\ 2 + p = 3 * i - 2 /\ 2 + q = 3 * i - 1
      BY <3>1, <3>2
    <3>5. rest[p] = seqs[k][2] /\ rest[q] = seqs[k][3]
      BY <3>3
    <3> HIDE DEF p, q
    <3>6. u[2 + p] = rest[p] /\ u[2 + q] = rest[q]
      BY <1>9, <1>10, <3>4 DEF Behind
    <3> QED BY <1>5, <3>1, <3>4, <3>5, <3>6
  <2> QED BY <2>1, <2>2
<1>12. Code!String2Mac(u) = [i \in 1..6 |-> data[i]]
  BY <1>11 DEF Code!String2Mac
<1>13. data = [i \in 1..6 |-> data[i]]
  BY <1>1 DEF Bytes
<1> QED BY <1>12, <1>13 DEF u

LEMMA OneByOne ==
  ASSUME NEW data \in Bytes, NEW N, N = Len(data), NEW from, NEW at,
         from[at[N] + 1] = <<>>,
         \A k \in 1..N : from[at[k - 1] + 1] = <<data[k]>> \o from[at[k] + 1]
  PROVE  from[at[0] + 1] = data
<1> DEFINE cut == [k \in 0..N |-> k]
           begin == [k \in 0..N |-> at[k] + 1]
<1>1. N \in Nat /\ data \in Seq(Nat)
  BY DEF Bytes
<1>2. \A k \in 0..N : cut[k] = k /\ begin[k] = at[k] + 1
  OBVIOUS
<1> HIDE DEF cut, begin
<1>3. ASSUME NEW k \in 1..N
      PROVE  from[begin[k - 1]] = SubSeq(data, cut[k - 1] + 1, cut[k]) \o from[begin[k]]
  <2>1. cut[k - 1] + 1 = k /\ cut[k] = k /\ begin[k - 1] = at[k - 1] + 1 /\ begin[k] = at[k] + 1
    BY <1>1, <1>2
  <2>2. SubSeq(data, k, k) = <<data[k]>>
    <3>1. k \in 1..Len(data) /\ k \in k..Len(data) /\ k \in Int /\ k + 1 \in Int /\ k < k + 1
      BY <1>1
    <3>2. SubSeq(data, k, k) = <<data[k]>> \o SubSeq(data, k + 1, k)
      BY <1>1, <3>1, SubSeqRecursiveFirst
    <3>3. SubSeq(data, k + 1, k) = <<>>
      BY <3>1, SubSeqEmpty
    <3>4. <<data[k]>> \in Seq(Nat)
      BY <1>1, <3>1, ElementOfSeq
    <3> QED BY <3>2, <3>3, <3>4, ConcatEmptySeq
  <2> QED BY <2>1, <2>2
<1>4. Undoing(from, begin, cut, N, data)
  <2>1. cut[0] = 0 /\ cut[N] = Len(data)
    BY <1>1, <1>2
  <2>2. \A k \in 0..N : cut[k] \in Nat /\ cut[k] <= cut[N]
    BY <1>1, <1>2
  <2>3. \A k \in 1..N : cut[k - 1] <= cut[k]
    BY <1>1, <1>2
  <2>4. from[begin[N]] = <<>>
    BY <1>1, <1>2
  <2> QED BY <1>3, <2>1, <2>2, <2>3, <2>4 DEF Undoing
<1>5. from[begin[0]] = data
  BY <1>1, <1>4, Undone
<1> QED BY <1>1, <1>2, <1>5

UrlStep(from, u, i) ==
  IF i > Len(u) THEN <<>>
  ELSE CASE u[i] = 43 -> <<32>> \o from[i + 1]
         [] u[i] = 37 -> <<Code!HexValue(u[i + 1], u[i + 2])>> \o from[i + 3]
         [] OTHER -> <<u[i]>> \o from[i + 1]

LEMMA UrlReads ==
  ASSUME NEW u, Len(u) \in Nat
  PROVE  \E from : /\ \A i \in Nat : from[i] = UrlStep(from, u, i)
                   /\ Code!decode_url(u) = from[1]
<1> DEFINE next == [i \in Nat |-> IF u[i] = 37 THEN i + 3 ELSE i + 1]
           out == [i \in Nat |-> IF u[i] = 43 THEN <<32>>
                                 ELSE IF u[i] = 37 THEN <<Code!HexValue(u[i + 1], u[i + 2])>>
                                 ELSE <<u[i]>>]
           P(f) == f = [i \in Nat |-> UrlStep(f, u, i)]
<1>1. \A i \in 0..Len(u) : next[i] \in Nat /\ next[i] > i
  OBVIOUS
<1>2. PICK from : Decodes(from, Len(u), next, out, {})
  <2> HIDE DEF next, out
  <2> QED BY <1>1, DecoderExists
<1>3. \A i \in Nat : Step(from, i, Len(u), next, out, {}) = UrlStep(from, u, i)
  BY DEF Step, UrlStep
<1> HIDE DEF next, out
<1>4. P(from)
  BY <1>2, <1>3 DEF Decodes
<1> DEFINE f == CHOOSE g : P(g)
<1>5. P(f)
  <2> HIDE DEF P
  <2> QED BY <1>4
<1>6. Code!decode_url(u) = f[1]
  BY DEF Code!decode_url, UrlStep
<1> HIDE DEF f
<1>7. \A i \in Nat : f[i] = UrlStep(f, u, i)
  BY <1>5
<1> QED BY <1>6, <1>7

UrlByte(c) == IF c \in Code!Space THEN 32 ELSE c

LEMMA UrlByteType ==
  ASSUME NEW c \in Nat
  PROVE  UrlByte(c) \in Nat
BY DEF UrlByte

(* A byte is written as itself, as a plus or as a percent sign and hex.    *)
UrlPiece(p, c) ==
  /\ p \in Bytes
  /\ \/ Len(p) = 1 /\ p[1] = c /\ c # 43 /\ c # 37 /\ UrlByte(c) = c
     \/ Len(p) = 1 /\ p[1] = 43 /\ UrlByte(c) = 32
     \/ Len(p) = 3 /\ p[1] = 37 /\ Code!HexValue(p[2], p[3]) = c /\ UrlByte(c) = c

LEMMA UrlPieces ==
  ASSUME NEW c \in 0..255
  PROVE  UrlPiece(Code!EncodeUrlByte(c), c)
<1> DEFINE p == Code!EncodeUrlByte(c)
           plain == c \in Code!Upper \cup Code!Lower \cup Code!Digit
           blank == c \in Code!Space
<1>1. CASE plain
  <2>1. p = <<c>>
    BY <1>1 DEF Code!EncodeUrlByte
  <2>2. c # 43 /\ c # 37 /\ UrlByte(c) = c
    BY <1>1 DEF Code!Upper, Code!Lower, Code!Digit, Code!Space, UrlByte
  <2>3. <<c>> \in Bytes /\ Len(<<c>>) = 1 /\ <<c>>[1] = c
    BY DEF Bytes
  <2> HIDE DEF p
  <2>4. UrlPiece(p, c)
    BY <2>1, <2>2, <2>3 DEF UrlPiece
  <2> QED BY <2>4 DEF p
<1>2. CASE ~plain /\ blank
  <2>1. p = <<43>> /\ UrlByte(c) = 32
    BY <1>2 DEF Code!EncodeUrlByte, UrlByte
  <2>2. <<43>> \in Bytes /\ Len(<<43>>) = 1 /\ <<43>>[1] = 43
    BY DEF Bytes
  <2> HIDE DEF p
  <2>3. UrlPiece(p, c)
    BY <2>1, <2>2 DEF UrlPiece
  <2> QED BY <2>3 DEF p
<1>3. CASE ~plain /\ ~blank
  <2> DEFINE pair == Code!HexPair(c)
  <2>1. p = <<37>> \o pair /\ UrlByte(c) = c
    BY <1>3 DEF Code!EncodeUrlByte, UrlByte
  <2>2. pair \in Bytes /\ Len(pair) = 2 /\ Code!HexValue(pair[1], pair[2]) = c
    BY HexPairs
  <2> HIDE DEF p, pair
  <2>3. <<37>> \in Bytes /\ Len(<<37>>) = 1 /\ <<37>>[1] = 37
    BY DEF Bytes
  <2>4. Behind(p, <<37>>, 1, pair, 2)
    BY <2>1, <2>2, <2>3, JoinIs
  <2>5. p \in Bytes /\ Len(p) = 3 /\ p[1] = 37 /\ p[2] = pair[1] /\ p[3] = pair[2]
    <3>1. 1 \in 1..1 /\ 1 \in 1..2 /\ 2 \in 1..2 /\ 1 + 2 = 3 /\ 1 + 1 = 2
      OBVIOUS
    <3> QED BY <2>3, <2>4, <3>1 DEF Behind
  <2>6. UrlPiece(p, c)
    BY <2>1, <2>2, <2>5 DEF UrlPiece
  <2> QED BY <2>6 DEF p
<1> QED BY <1>1, <1>2, <1>3

(* The piece p stands at the place i of the text u.                        *)
StandsAt(p, u, i) ==
  /\ i \in Nat \ {0} /\ Len(u) \in Nat /\ Len(p) \in Nat
  /\ i + Len(p) <= Len(u) + 1
  /\ \A j \in 1..Len(p) : u[i + j - 1] = p[j]

(* It stands there behind n bytes and leaves off behind m.                 *)
Fills(p, u, n, m) == StandsAt(p, u, n + 1) /\ n + 1 + Len(p) = m + 1

LEMMA LaidStands ==
  ASSUME NEW u, NEW at, NEW N \in Nat, NEW seqs, Laid(u, at, N, seqs), NEW k \in 1..N,
         Len(seqs[k]) \in Nat
  PROVE  Fills(seqs[k], u, at[k - 1], at[k])
<1>1. k \in 0..N /\ k - 1 \in 0..N
  OBVIOUS
<1>2. Len(u) = at[N] /\ at[k] <= at[N] /\ at[k] = at[k - 1] + Len(seqs[k])
  BY <1>1 DEF Laid
<1>3. at[k] \in Nat /\ at[k - 1] \in Nat /\ at[N] \in Nat
  BY <1>1 DEF Laid
<1> DEFINE n == at[k - 1]
<1>4. ASSUME NEW j \in 1..Len(seqs[k]) PROVE u[n + 1 + j - 1] = seqs[k][j]
  <2>1. n + 1 + j - 1 = n + j
    BY <1>3
  <2>2. u[n + j] = seqs[k][j]
    BY DEF Laid
  <2> QED BY <2>1, <2>2
<1>5. n + 1 \in Nat \ {0} /\ n + 1 + Len(seqs[k]) <= Len(u) + 1
  BY <1>2, <1>3
<1>6. StandsAt(seqs[k], u, n + 1)
  BY <1>2, <1>3, <1>4, <1>5 DEF StandsAt
<1>7. n + 1 + Len(seqs[k]) = at[k] + 1
  BY <1>2, <1>3
<1> QED BY <1>6, <1>7 DEF Fills

LEMMA UrlReadsPiece ==
  ASSUME NEW c, NEW p, UrlPiece(p, c), NEW u, NEW i,
         StandsAt(p, u, i), NEW from, from[i] = UrlStep(from, u, i)
  PROVE  from[i] = <<UrlByte(c)>> \o from[i + Len(p)]
<1>1. i \in Nat /\ Len(u) \in Nat /\ i + Len(p) <= Len(u) + 1
  BY DEF StandsAt
<1>2. CASE Len(p) = 1
  <2>1. ~(i > Len(u)) /\ u[i] = p[1]
    <3>1. i + 1 - 1 = i /\ 1 \in 1..Len(p) /\ i <= Len(u)
      BY <1>1, <1>2
    <3> QED BY <1>1, <3>1 DEF StandsAt
  <2>2. \/ p[1] = c /\ c # 43 /\ c # 37 /\ UrlByte(c) = c
        \/ p[1] = 43 /\ UrlByte(c) = 32
    BY <1>2 DEF UrlPiece
  <2> QED BY <1>2, <2>1, <2>2 DEF UrlStep
<1>3. CASE Len(p) = 3
  <2>1. /\ ~(i > Len(u)) /\ u[i] = p[1] /\ u[i + 1] = p[2] /\ u[i + 2] = p[3]
    <3>1. /\ i + 1 - 1 = i /\ i + 2 - 1 = i + 1 /\ i + 3 - 1 = i + 2
          /\ 1 \in 1..Len(p) /\ 2 \in 1..Len(p) /\ 3 \in 1..Len(p) /\ i <= Len(u)
      BY <1>1, <1>3
    <3>2. u[i + 1 - 1] = p[1] /\ u[i + 2 - 1] = p[2] /\ u[i + 3 - 1] = p[3]
      BY <3>1 DEF StandsAt
    <3> QED BY <1>1, <3>1, <3>2
  <2>2. p[1] = 37 /\ Code!HexValue(p[2], p[3]) = c /\ UrlByte(c) = c
    BY <1>3 DEF UrlPiece
  <2> QED BY <1>3, <2>1, <2>2 DEF UrlStep
<1> QED BY <1>2, <1>3 DEF UrlPiece

LEMMA UrlInverts ==
  ASSUME NEW data \in Octets
  PROVE  Code!decode_url(Code!encode_url(data)) = Code!Blanks(data)
<1> DEFINE N == Len(data)
           seqs == [k \in 1..N |-> Code!EncodeUrlByte(data[k])]
           u == Code!encode_url(data)
           back == Code!Blanks(data)
<1>1. data \in Bytes /\ \A k \in 1..N : data[k] \in 0..255
  BY OctetsAreBytes
<1>2. N \in Nat
  BY OctetsAreBytes
<1>3. u = Code!FlattenSeq(seqs)
  BY DEF Code!encode_url, Code!Each
<1>4. seqs = [k \in 1..N |-> seqs[k]] /\ \A k \in 1..N : seqs[k] = Code!EncodeUrlByte(data[k])
  OBVIOUS
<1>5. back = [k \in 1..N |-> UrlByte(data[k])]
  BY DEF Code!Blanks, UrlByte
<1>6. back \in Bytes /\ Len(back) = N /\ \A k \in 1..N : back[k] = UrlByte(data[k])
  <2>1. ASSUME NEW k \in 1..N PROVE UrlByte(data[k]) \in Nat
    <3>1. data[k] \in 0..255
      BY <1>1
    <3> HIDE DEF N
    <3>2. data[k] \in Nat
      BY <3>1
    <3> QED BY <3>2, UrlByteType
  <2> HIDE DEF N, back
  <2> QED BY <1>2, <1>5, <2>1 DEF Bytes
<1> HIDE DEF N, seqs, u, back
<1>7. ASSUME NEW k \in 1..N
      PROVE  UrlPiece(seqs[k], data[k]) /\ seqs[k] \in Bytes /\ Len(seqs[k]) \in Nat
  <2>1. UrlPiece(seqs[k], data[k])
    BY <1>1, <1>4, UrlPieces
  <2> QED BY <2>1 DEF UrlPiece
<1>8. seqs \in [1..N -> Bytes] /\ Len(seqs) = N
  BY <1>2, <1>4, <1>7, SeqsOver
<1>9. PICK at : Laid(u, at, N, seqs)
  BY <1>2, <1>3, <1>8, Laying
<1>10. Len(u) = at[N] /\ at[0] = 0 /\ \A k \in 0..N : at[k] \in Nat
  BY <1>9 DEF Laid
<1>11. Len(u) \in Nat
  BY <1>2, <1>10
<1>12. PICK from : /\ \A i \in Nat : from[i] = UrlStep(from, u, i)
                   /\ Code!decode_url(u) = from[1]
  BY <1>11, UrlReads
<1>13. from[at[N] + 1] = <<>>
  <2>1. at[N] + 1 \in Nat /\ at[N] + 1 > Len(u)
    BY <1>10, <1>11
  <2> QED BY <1>12, <2>1 DEF UrlStep
<1>14. ASSUME NEW k \in 1..N PROVE from[at[k - 1] + 1] = <<back[k]>> \o from[at[k] + 1]
  <2>1. Fills(seqs[k], u, at[k - 1], at[k])
    BY <1>2, <1>7, <1>9, LaidStands
  <2> DEFINE i == at[k - 1] + 1
  <2>2. StandsAt(seqs[k], u, i) /\ i + Len(seqs[k]) = at[k] + 1
    BY <2>1 DEF Fills
  <2> HIDE DEF i
  <2>3. from[i] = UrlStep(from, u, i)
    BY <1>12, <2>2 DEF StandsAt
  <2>4. UrlPiece(seqs[k], data[k]) /\ back[k] = UrlByte(data[k])
    BY <1>6, <1>7
  <2>5. from[i] = <<UrlByte(data[k])>> \o from[i + Len(seqs[k])]
    BY <2>2, <2>3, <2>4, UrlReadsPiece
  <2> QED BY <2>2, <2>4, <2>5 DEF i
<1>15. from[at[0] + 1] = back
  BY <1>6, <1>13, <1>14, OneByOne
<1>16. at[0] + 1 = 1
  BY <1>10
<1> QED BY <1>12, <1>15, <1>16 DEF u, back

LEMMA PrefixStands ==
  ASSUME NEW p \in Bytes, NEW u \in Bytes, NEW i, StandsAt(p, u, i)
  PROVE  Code!IsPrefix(p, SubSeq(u, i, Len(u)))
<1> DEFINE n == Len(p)
           L == Len(u)
           rest == SubSeq(u, i, L)
<1>1. p \in Seq(Nat) /\ u \in Seq(Nat)
  BY DEF Bytes
<1>2. n \in Nat /\ L \in Nat /\ i \in Nat \ {0} /\ i + n <= L + 1
  BY DEF StandsAt
<1>3. \A j \in 1..n : u[i + j - 1] = p[j]
  BY DEF StandsAt
<1>4. \A j \in i..L : u[j] \in Nat
  <2>1. \A j \in i..L : j \in 1..Len(u)
    BY <1>2
  <2> QED BY <1>1, <2>1, ElementOfSeq
<1> HIDE DEF n, L
<1>5. /\ Len(rest) = IF i <= L THEN L - i + 1 ELSE 0
      /\ \A j \in 1..(L - i + 1) : rest[j] = u[i + j - 1]
  <2>1. i \in Int /\ L \in Int
    BY <1>2
  <2> QED BY <1>4, <2>1, SubSeqProperties
<1>6. rest \in Seq(Nat)
  <2>1. i \in Int /\ L \in Int
    BY <1>2
  <2> QED BY <1>4, <2>1, SubSeqProperties
<1> HIDE DEF rest
<1>7. n <= Len(rest)
  BY <1>2, <1>5
<1>8. \A j \in 1..n : rest[j] = p[j]
  <2>1. \A j \in 1..n : j \in 1..(L - i + 1)
    BY <1>2
  <2> QED BY <1>3, <1>5, <2>1
<1>9. SubSeq(p, 1, n) = SubSeq(rest, 1, n)
  <2>1. SubSeq(p, 1, n) = [j \in 1..n |-> p[j]]
    BY <1>1, <1>2 DEF n
  <2>2. SubSeq(rest, 1, n) = [j \in 1..n |-> rest[j]]
    BY <1>2, <1>6, <1>7
  <2> QED BY <1>8, <2>1, <2>2
<1> QED BY <1>7, <1>9 DEF Code!IsPrefix, n, rest, L

LEMMA PrefixTells ==
  ASSUME NEW p \in Bytes, NEW u \in Bytes, NEW i \in Nat \ {0},
         Code!IsPrefix(p, SubSeq(u, i, Len(u)))
  PROVE  \A j \in 1..Len(p) : u[i + j - 1] = p[j]
<1> DEFINE n == Len(p)
           L == Len(u)
           rest == SubSeq(u, i, L)
<1>1. p \in Seq(Nat) /\ u \in Seq(Nat) /\ n \in Nat /\ L \in Nat
  BY DEF Bytes
<1>2. \A j \in i..L : u[j] \in Nat
  <2>1. \A j \in i..L : j \in 1..Len(u)
    BY <1>1
  <2> QED BY <1>1, <2>1, ElementOfSeq
<1>3. n <= Len(rest) /\ SubSeq(p, 1, n) = SubSeq(rest, 1, n)
  BY DEF Code!IsPrefix
<1> HIDE DEF L
<1>4. /\ Len(rest) = IF i <= L THEN L - i + 1 ELSE 0
      /\ \A j \in 1..(L - i + 1) : rest[j] = u[i + j - 1]
  <2>1. i \in Int /\ L \in Int
    BY <1>1
  <2> QED BY <1>2, <2>1, SubSeqProperties
<1>5. rest \in Seq(Nat)
  <2>1. i \in Int /\ L \in Int
    BY <1>1
  <2> QED BY <1>2, <2>1, SubSeqProperties
<1> HIDE DEF rest
<1>6. ASSUME NEW j \in 1..n PROVE p[j] = rest[j]
  <2>1. SubSeq(p, 1, n) = [k \in 1..n |-> p[k]]
    BY <1>1
  <2>2. SubSeq(rest, 1, n) = [k \in 1..n |-> rest[k]]
    <3> HIDE DEF n
    <3> QED BY <1>1, <1>3, <1>5
  <2> HIDE DEF n
  <2>3. SubSeq(p, 1, n)[j] = p[j] /\ SubSeq(rest, 1, n)[j] = rest[j]
    BY <2>1, <2>2
  <2> QED BY <1>3, <2>3
<1>7. \A j \in 1..n : j \in 1..(L - i + 1)
  <2> HIDE DEF n
  <2> QED BY <1>1, <1>3, <1>4
<1> HIDE DEF n
<1>8. \A j \in 1..n : u[i + j - 1] = p[j]
  BY <1>4, <1>6, <1>7
<1> QED BY <1>8 DEF n

(* The character whose name has these letters behind the ampersand.        *)
NameOf(x, y) == CASE x = 108 -> 60
                  [] x = 103 -> 62
                  [] x = 113 -> 34
                  [] x = 97 /\ y = 109 -> 38
                  [] x = 97 /\ y = 112 -> 39

EntityPiece(p, c) ==
  /\ p \in Bytes
  /\ \/ /\ c \in Code!SpecialChars /\ p = Code!Entity(c)
        /\ Len(p) \in 4..6 /\ p[1] = 38 /\ NameOf(p[2], p[3]) = c
     \/ c \notin Code!SpecialChars /\ Len(p) = 1 /\ p[1] = c /\ c # 38

LEMMA EntityPieces ==
  ASSUME NEW c \in Nat
  PROVE  EntityPiece(IF c \in Code!SpecialChars THEN Code!Entity(c) ELSE <<c>>, c)
<1>1. CASE c \notin Code!SpecialChars
  <2>1. <<c>> \in Bytes /\ Len(<<c>>) = 1 /\ <<c>>[1] = c /\ c # 38
    BY <1>1 DEF Bytes, Code!SpecialChars
  <2> QED BY <1>1, <2>1 DEF EntityPiece
<1>2. CASE c = 38
  <2>1. Code!Entity(c) = <<38, 97, 109, 112, 59>> /\ c \in Code!SpecialChars
    BY <1>2 DEF Code!Entity, Code!SpecialChars
  <2>2. NameOf(97, 109) = c
    BY <1>2 DEF NameOf
  <2> QED BY <2>1, <2>2 DEF EntityPiece, Bytes
<1>3. CASE c = 60
  <2>1. Code!Entity(c) = <<38, 108, 116, 59>> /\ c \in Code!SpecialChars
    BY <1>3 DEF Code!Entity, Code!SpecialChars
  <2>2. NameOf(108, 116) = c
    BY <1>3 DEF NameOf
  <2> QED BY <2>1, <2>2 DEF EntityPiece, Bytes
<1>4. CASE c = 62
  <2>1. Code!Entity(c) = <<38, 103, 116, 59>> /\ c \in Code!SpecialChars
    BY <1>4 DEF Code!Entity, Code!SpecialChars
  <2>2. NameOf(103, 116) = c
    BY <1>4 DEF NameOf
  <2> QED BY <2>1, <2>2 DEF EntityPiece, Bytes
<1>5. CASE c = 34
  <2>1. Code!Entity(c) = <<38, 113, 117, 111, 116, 59>> /\ c \in Code!SpecialChars
    BY <1>5 DEF Code!Entity, Code!SpecialChars
  <2>2. NameOf(113, 117) = c
    BY <1>5 DEF NameOf
  <2> QED BY <2>1, <2>2 DEF EntityPiece, Bytes
<1>6. CASE c = 39
  <2>1. Code!Entity(c) = <<38, 97, 112, 111, 115, 59>> /\ c \in Code!SpecialChars
    BY <1>6 DEF Code!Entity, Code!SpecialChars
  <2>2. NameOf(97, 112) = c
    BY <1>6 DEF NameOf
  <2> QED BY <2>1, <2>2 DEF EntityPiece, Bytes
<1> QED BY <1>1, <1>2, <1>3, <1>4, <1>5, <1>6 DEF Code!SpecialChars

NamesAt(u, i) ==
  {c \in Code!SpecialChars : Code!IsPrefix(Code!Entity(c), SubSeq(u, i, Len(u)))}

EntityStep(from, u, i) ==
  IF i > Len(u) THEN <<>>
  ELSE IF u[i] # 38 THEN <<u[i]>> \o from[i + 1]
  ELSE IF NamesAt(u, i) = {} THEN from[i + 1]
  ELSE LET c == CHOOSE c \in NamesAt(u, i) : TRUE IN <<c>> \o from[i + Len(Code!Entity(c))]

LEMMA EntityReads ==
  ASSUME NEW u, Len(u) \in Nat
  PROVE  \E from : /\ \A i \in Nat : from[i] = EntityStep(from, u, i)
                   /\ Code!decode_urlspecialchar(u) = from[1]
<1> DEFINE some(i) == CHOOSE c \in NamesAt(u, i) : TRUE
           next == [i \in Nat |-> IF u[i] # 38 \/ NamesAt(u, i) = {} THEN i + 1
                                  ELSE i + Len(Code!Entity(some(i)))]
           out == [i \in Nat |-> IF u[i] # 38 THEN <<u[i]>> ELSE <<some(i)>>]
           mute == {i \in Nat : u[i] = 38 /\ NamesAt(u, i) = {}}
           P(f) == f = [i \in Nat |-> EntityStep(f, u, i)]
<1>1. ASSUME NEW i \in 0..Len(u) PROVE next[i] \in Nat /\ next[i] > i
  <2>1. CASE u[i] # 38 \/ NamesAt(u, i) = {}
    BY <2>1
  <2>2. CASE ~(u[i] # 38 \/ NamesAt(u, i) = {})
    <3>1. some(i) \in Code!SpecialChars
      BY <2>2 DEF NamesAt
    <3> HIDE DEF some
    <3>2. Len(Code!Entity(some(i))) \in 4..6
      <4>1. some(i) \in Nat
        BY <3>1 DEF Code!SpecialChars
      <4>2. EntityPiece(Code!Entity(some(i)), some(i))
        BY <3>1, <4>1, EntityPieces
      <4> QED BY <3>1, <4>2 DEF EntityPiece
    <3> DEFINE m == Len(Code!Entity(some(i)))
    <3>3. next[i] = i + m
      BY <2>2
    <3> HIDE DEF m, next
    <3>4. m \in 4..6
      BY <3>2 DEF m
    <3> QED BY <3>3, <3>4
  <2> QED BY <2>1, <2>2
<1>2. PICK from : Decodes(from, Len(u), next, out, mute)
  <2> HIDE DEF next, out, mute
  <2> QED BY <1>1, DecoderExists
<1>3. \A i \in Nat : Step(from, i, Len(u), next, out, mute) = EntityStep(from, u, i)
  BY DEF Step, EntityStep
<1> HIDE DEF next, out, mute
<1>4. P(from)
  BY <1>2, <1>3 DEF Decodes
<1> DEFINE f == CHOOSE g : P(g)
<1>5. P(f)
  <2> HIDE DEF P
  <2> QED BY <1>4
<1>6. Code!decode_urlspecialchar(u) = f[1]
  BY DEF Code!decode_urlspecialchar, EntityStep, NamesAt
<1> HIDE DEF f
<1>7. \A i \in Nat : f[i] = EntityStep(f, u, i)
  BY <1>5
<1> QED BY <1>6, <1>7

LEMMA EntityReadsPiece ==
  ASSUME NEW c, NEW p, EntityPiece(p, c), NEW u \in Bytes, NEW i,
         StandsAt(p, u, i), NEW from, from[i] = EntityStep(from, u, i)
  PROVE  from[i] = <<c>> \o from[i + Len(p)]
<1>1. i \in Nat \ {0} /\ Len(u) \in Nat /\ i + Len(p) <= Len(u) + 1
  BY DEF StandsAt
<1>2. CASE c \notin Code!SpecialChars
  <2>1. Len(p) = 1 /\ p[1] = c /\ c # 38
    BY <1>2 DEF EntityPiece
  <2>2. ~(i > Len(u)) /\ u[i] = p[1]
    <3>1. i + 1 - 1 = i /\ 1 \in 1..Len(p) /\ i <= Len(u)
      BY <1>1, <2>1
    <3> QED BY <1>1, <3>1 DEF StandsAt
  <2> QED BY <2>1, <2>2 DEF EntityStep
<1>3. CASE c \in Code!SpecialChars
  <2>1. p = Code!Entity(c) /\ p \in Bytes /\ Len(p) \in 4..6 /\ p[1] = 38 /\ NameOf(p[2], p[3]) = c
    BY <1>3 DEF EntityPiece
  <2>2. ~(i > Len(u)) /\ u[i] = p[1] /\ u[i + 2 - 1] = p[2] /\ u[i + 3 - 1] = p[3]
    <3>1. i + 1 - 1 = i /\ 1 \in 1..Len(p) /\ 2 \in 1..Len(p) /\ 3 \in 1..Len(p) /\ i <= Len(u)
      BY <1>1, <2>1
    <3>2. u[i + 1 - 1] = p[1] /\ u[i + 2 - 1] = p[2] /\ u[i + 3 - 1] = p[3]
      BY <3>1 DEF StandsAt
    <3> QED BY <1>1, <3>1, <3>2
  <2>3. c \in NamesAt(u, i)
    BY <1>3, <2>1, PrefixStands DEF NamesAt
  <2>4. ASSUME NEW d \in NamesAt(u, i) PROVE d = c
    <3> DEFINE q == Code!Entity(d)
    <3>1. d \in Code!SpecialChars /\ Code!IsPrefix(q, SubSeq(u, i, Len(u)))
      BY DEF NamesAt
    <3>2. EntityPiece(q, d)
      <4>1. d \in Nat
        BY <3>1 DEF Code!SpecialChars
      <4> QED BY <3>1, <4>1, EntityPieces
    <3> HIDE DEF q
    <3>3. q \in Bytes /\ Len(q) \in 4..6 /\ NameOf(q[2], q[3]) = d
      BY <3>1, <3>2 DEF EntityPiece
    <3>4. \A j \in 1..Len(q) : u[i + j - 1] = q[j]
      BY <1>1, <3>1, <3>3, PrefixTells
    <3>5. 2 \in 1..Len(q) /\ 3 \in 1..Len(q)
      BY <3>3
    <3>6. q[2] = p[2] /\ q[3] = p[3]
      BY <2>2, <3>4, <3>5
    <3> QED BY <2>1, <3>3, <3>6
  <2>5. NamesAt(u, i) # {} /\ (CHOOSE d \in NamesAt(u, i) : TRUE) = c
    BY <2>3, <2>4
  <2> QED BY <2>1, <2>2, <2>5 DEF EntityStep
<1> QED BY <1>2, <1>3

LEMMA EntitiesInvert ==
  ASSUME NEW data \in Octets
  PROVE  Code!decode_urlspecialchar(Code!encode_urlspecialchar(data)) = data
<1> DEFINE N == Len(data)
           seqs == [k \in 1..N |-> IF data[k] \in Code!SpecialChars
                                 THEN Code!Entity(data[k]) ELSE <<data[k]>>]
           u == Code!encode_urlspecialchar(data)
<1>1. data \in Bytes /\ \A k \in 1..N : data[k] \in 0..255
  BY OctetsAreBytes
<1>2. N \in Nat
  BY OctetsAreBytes
<1>3. u = Code!FlattenSeq(seqs)
  BY DEF Code!encode_urlspecialchar, Code!Each
<1>4. /\ seqs = [k \in 1..N |-> seqs[k]]
      /\ \A k \in 1..N : seqs[k] = IF data[k] \in Code!SpecialChars
                                    THEN Code!Entity(data[k]) ELSE <<data[k]>>
  OBVIOUS
<1> HIDE DEF N, seqs, u
<1>5. ASSUME NEW k \in 1..N
      PROVE  EntityPiece(seqs[k], data[k]) /\ seqs[k] \in Bytes /\ Len(seqs[k]) \in Nat
  <2>1. EntityPiece(seqs[k], data[k])
    <3>1. data[k] \in Nat
      BY <1>1
    <3> QED BY <1>4, <3>1, EntityPieces
  <2> QED BY <2>1 DEF EntityPiece
<1>6. seqs \in [1..N -> Bytes] /\ Len(seqs) = N
  BY <1>2, <1>4, <1>5, SeqsOver
<1>7. PICK at : Laid(u, at, N, seqs)
  BY <1>2, <1>3, <1>6, Laying
<1>8. Len(u) = at[N] /\ at[0] = 0 /\ \A k \in 0..N : at[k] \in Nat
  BY <1>7 DEF Laid
<1>9. Len(u) \in Nat
  BY <1>2, <1>8
<1>10. PICK from : /\ \A i \in Nat : from[i] = EntityStep(from, u, i)
                   /\ Code!decode_urlspecialchar(u) = from[1]
  BY <1>9, EntityReads
<1>11. from[at[N] + 1] = <<>>
  <2>1. at[N] + 1 \in Nat /\ at[N] + 1 > Len(u)
    BY <1>8, <1>9
  <2> QED BY <1>10, <2>1 DEF EntityStep
<1>12. ASSUME NEW k \in 1..N PROVE from[at[k - 1] + 1] = <<data[k]>> \o from[at[k] + 1]
  <2>1. Fills(seqs[k], u, at[k - 1], at[k])
    BY <1>2, <1>5, <1>7, LaidStands
  <2> DEFINE i == at[k - 1] + 1
  <2>2. StandsAt(seqs[k], u, i) /\ i + Len(seqs[k]) = at[k] + 1
    BY <2>1 DEF Fills
  <2> HIDE DEF i
  <2>3. from[i] = EntityStep(from, u, i)
    BY <1>10, <2>2 DEF StandsAt
  <2>4. EntityPiece(seqs[k], data[k]) /\ u \in Bytes
    BY <1>5, <1>7 DEF Laid
  <2>5. from[i] = <<data[k]>> \o from[i + Len(seqs[k])]
    BY <2>2, <2>3, <2>4, EntityReadsPiece
  <2> QED BY <2>2, <2>4, <2>5 DEF i
<1>13. from[at[0] + 1] = data
  BY <1>1, <1>11, <1>12, OneByOne DEF N
<1>14. at[0] + 1 = 1
  BY <1>8
<1> QED BY <1>10, <1>13, <1>14 DEF u


(* c is the letter of n.                                                   *)
Letter(n, c) == \/ n < 26 /\ c = n + 65
                \/ 26 <= n /\ n < 52 /\ c = n + 71
                \/ 52 <= n /\ n < 62 /\ c = n - 4
                \/ n = 62 /\ c = 43
                \/ n = 63 /\ c = 47

LEMMA Base64Digits ==
  ASSUME NEW n \in 0..63
  PROVE  /\ Code!encode[n] \in 0..127 /\ Code!encode[n] > 42 /\ Code!encode[n] # Code!Pad
         /\ Code!rstr[Code!encode[n]] = n
<1>1. ASSUME NEW m \in 0..63 PROVE Letter(m, Code!encode[m])
  <2>1. Code!encode[m] = CASE m \in 0..25  -> m + 65
                           [] m \in 26..51 -> m + 71
                           [] m \in 52..61 -> m - 4
                           [] m = 62 -> 43
                           [] m = 63 -> 47
    BY DEF Code!encode
  <2>2. CASE m \in 0..25
    BY <2>1, <2>2 DEF Letter
  <2>3. CASE m \in 26..51
    BY <2>1, <2>3 DEF Letter
  <2>4. CASE m \in 52..61
    BY <2>1, <2>4 DEF Letter
  <2>5. CASE m = 62
    BY <2>1, <2>5 DEF Letter
  <2>6. CASE m = 63
    BY <2>1, <2>6 DEF Letter
  <2> QED BY <2>2, <2>3, <2>4, <2>5, <2>6
<1>2. Code!encode[n] \in 0..127 /\ Code!encode[n] > 42 /\ Code!encode[n] # 61
  BY <1>1 DEF Letter
<1>3. ASSUME NEW m \in 0..63, Code!encode[m] = Code!encode[n] PROVE m = n
  <2> DEFINE c == Code!encode[n]
  <2>1. Letter(m, c) /\ Letter(n, c)
    BY <1>1, <1>3
  <2> HIDE DEF c
  <2> QED BY <2>1 DEF Letter
<1> DEFINE c == Code!encode[n]
<1>4. \E m \in 0..63 : Code!encode[m] = c
  OBVIOUS
<1>5. (CHOOSE m \in 0..63 : Code!encode[m] = c) = n
  BY <1>3
<1>6. c \in 0..127
  BY <1>2
<1> HIDE DEF c
<1>7. Code!rstr[c] = n
  BY <1>4, <1>5, <1>6 DEF Code!rstr
<1> QED BY <1>2, <1>7 DEF c, Code!Pad

(* Three bytes are four digits of six bits.                                *)
LEMMA SixBits ==
  ASSUME NEW a \in Nat, NEW b \in Nat, NEW c \in Nat, a <= 255, b <= 255, c <= 255,
         NEW x, x = a * 65536 + b * 256 + c,
         NEW y, y = x \div 64, NEW z, z = y \div 64,
         NEW r1, r1 = (z \div 64) % 64, NEW r2, r2 = z % 64,
         NEW r3, r3 = y % 64, NEW r4, r4 = x % 64
  PROVE  /\ r1 \in 0..63 /\ r2 \in 0..63 /\ r3 \in 0..63 /\ r4 \in 0..63
         /\ ((r1 * 4) % 256) + ((r2 \div 16) % 4) = a
         /\ ((r2 * 16) % 256) + ((r3 \div 4) % 16) = b
         /\ ((r3 * 64) % 256) + r4 = c
<1>1. x \in Nat /\ x <= 16777215
  BY SMT
<1>2. y \in Nat /\ r4 \in Nat /\ r4 <= 63 /\ x = 64 * y + r4
  BY <1>1, SMT
<1>3. z \in Nat /\ r3 \in Nat /\ r3 <= 63 /\ y = 64 * z + r3
  BY <1>2, SMT
<1> DEFINE w == z \div 64
<1>4. w \in Nat /\ r2 \in Nat /\ r2 <= 63 /\ z = 64 * w + r2
  BY <1>3, SMT
<1> HIDE DEF w
<1>5. w <= 63
  BY <1>1, <1>2, <1>3, <1>4, SMT
<1>6. r1 = w
  <2>1. r1 = w % 64
    BY DEF w
  <2> QED BY <1>4, <1>5, <2>1, SMT
<1> DEFINE d == r2 \div 16
           e == r2 % 16
           f == r3 \div 4
           g == r3 % 4
<1>7. d \in Nat /\ d <= 3 /\ e \in Nat /\ e <= 15 /\ r2 = 16 * d + e
  BY <1>4, SMT
<1>8. f \in Nat /\ f <= 15 /\ g \in Nat /\ g <= 3 /\ r3 = 4 * f + g
  BY <1>3, SMT
<1>9. (r2 \div 16) % 4 = d /\ (r3 \div 4) % 16 = f
  <2>1. d % 4 = d /\ f % 16 = f
    <3> HIDE DEF d, f
    <3> QED BY <1>7, <1>8, SMT
  <2> QED BY <2>1
<1> HIDE DEF d, e, f, g
<1>10. (r1 * 4) % 256 = 4 * w /\ (r2 * 16) % 256 = 16 * e /\ (r3 * 64) % 256 = 64 * g
  <2>1. (r1 * 4) % 256 = 4 * w
    BY <1>4, <1>5, <1>6, SMT
  <2>2. (r2 * 16) % 256 = 16 * e
    BY <1>7, SMT
  <2>3. (r3 * 64) % 256 = 64 * g
    BY <1>8, SMT
  <2> QED BY <2>1, <2>2, <2>3
<1>11. a * 65536 + b * 256 + c = 65536 * (4 * w + d) + 256 * (16 * e + f) + (64 * g + r4)
  BY <1>2, <1>3, <1>4, <1>7, <1>8, SMT
<1> DEFINE p == 4 * w + d
           q == 16 * e + f
           s == 64 * g + r4
<1>12. p \in Nat /\ p <= 255 /\ q \in Nat /\ q <= 255 /\ s \in Nat /\ s <= 255
  BY <1>2, <1>4, <1>5, <1>7, <1>8, SMT
<1>13. a * 65536 + b * 256 + c = 65536 * p + 256 * q + s
  BY <1>11
<1> HIDE DEF p, q, s
<1>14. a = p /\ b = q /\ c = s
  BY <1>12, <1>13, SMT
<1>15. r1 \in 0..63 /\ r2 \in 0..63 /\ r3 \in 0..63 /\ r4 \in 0..63
  BY <1>2, <1>3, <1>4, <1>5, <1>6
<1> QED BY <1>9, <1>10, <1>14, <1>15 DEF p, q, s

LEMMA Tuples ==
  ASSUME NEW a \in Nat, NEW b \in Nat, NEW c \in Nat
  PROVE  /\ <<a>> \o <<>> = <<a>> /\ <<a, b>> \o <<>> = <<a, b>>
         /\ <<a>> \o <<b>> = <<a, b>> /\ <<a, b>> \o <<c>> = <<a, b, c>>
<1>1. <<a>> \in Seq(Nat) /\ <<a, b>> \in Seq(Nat) /\ <<b>> \in Seq(Nat) /\ <<c>> \in Seq(Nat)
  OBVIOUS
<1>2. <<a>> \o <<>> = <<a>> /\ <<a, b>> \o <<>> = <<a, b>>
  BY <1>1, ConcatEmptySeq
<1>3. <<a>> \o <<b>> = <<a, b>>
  <2> DEFINE s == <<a>>
             t == <<b>>
             u == s \o t
  <2>1. Behind(u, s, 1, t, 1)
    BY <1>1, JoinIs DEF Bytes
  <2>2. u \in Seq(Nat) /\ Len(u) = 2 /\ u[1] = a /\ u[1 + 1] = b
    BY <2>1 DEF Behind, Bytes
  <2> HIDE DEF u
  <2>3. u = <<a, b>>
    BY <2>2
  <2> QED BY <2>3 DEF u
<1>4. <<a, b>> \o <<c>> = <<a, b, c>>
  <2> DEFINE s == <<a, b>>
             t == <<c>>
             u == s \o t
  <2>1. Behind(u, s, 2, t, 1)
    BY <1>1, JoinIs DEF Bytes
  <2>2. u \in Seq(Nat) /\ Len(u) = 3 /\ u[1] = a /\ u[2] = b /\ u[2 + 1] = c
    BY <2>1 DEF Behind, Bytes
  <2> HIDE DEF u
  <2>3. u = <<a, b, c>>
    BY <2>2
  <2> QED BY <2>3 DEF u
<1> QED BY <1>2, <1>3, <1>4

(* The four letters of one to three bytes, and what they are read as.      *)
GroupPiece(p, b) ==
  /\ p = [j \in 1..4 |-> p[j]] /\ \A j \in 1..4 : p[j] \in Nat
  /\ p[1] # 10 /\ p[1] # 13 /\ Code!DecodeGroup(p) = b

LEMMA Groups ==
  ASSUME NEW b \in Octets, Len(b) \in 1..3
  PROVE  GroupPiece(Code!EncodeGroup(b), b)
<1> DEFINE a1 == Code!At0(b, 1)
           a2 == Code!At0(b, 2)
           a3 == Code!At0(b, 3)
           x == a1 * 65536 + a2 * 256 + a3
           y == x \div 64
           z == y \div 64
           r1 == (z \div 64) % 64
           r2 == z % 64
           r3 == y % 64
           r4 == x % 64
           p == Code!EncodeGroup(b)
           L == Len(b)
           digits == <<r1, r2, r3, r4>>
<1>1. b \in Bytes /\ \A i \in 1..L : b[i] \in 0..255
  BY OctetsAreBytes
<1>2. /\ a1 = b[1] /\ a2 = (IF 2 <= L THEN b[2] ELSE 0) /\ a3 = (IF 3 <= L THEN b[3] ELSE 0)
  BY DEF Code!At0
<1>3. a1 \in 0..255 /\ a2 \in 0..255 /\ a3 \in 0..255
  <2> HIDE DEF L, a1, a2, a3
  <2>1. L \in 1..3
    BY DEF L
  <2>2. 1 \in 1..L /\ (2 <= L => 2 \in 1..L) /\ (3 <= L => 3 \in 1..L)
    BY <2>1
  <2>3. b[1] \in 0..255 /\ (2 <= L => b[2] \in 0..255) /\ (3 <= L => b[3] \in 0..255)
    BY <1>1, <2>2
  <2> QED BY <1>2, <2>3
<1>4. a1 \in Nat /\ a2 \in Nat /\ a3 \in Nat /\ a1 <= 255 /\ a2 <= 255 /\ a3 <= 255
  <2> HIDE DEF a1, a2, a3
  <2> QED BY <1>3
<1>5. p = [j \in 1..4 |-> IF 8 * L >= 6 * (j - 1) THEN Code!encode[digits[j]] ELSE Code!Pad]
  BY DEF Code!EncodeGroup
<1> HIDE DEF a1, a2, a3
<1>6. /\ r1 \in 0..63 /\ r2 \in 0..63 /\ r3 \in 0..63 /\ r4 \in 0..63
      /\ ((r1 * 4) % 256) + ((r2 \div 16) % 4) = a1
      /\ ((r2 * 16) % 256) + ((r3 \div 4) % 16) = a2
      /\ ((r3 * 64) % 256) + r4 = a3
  <2> HIDE DEF x, y, z, r1, r2, r3, r4
  <2>1. /\ x = a1 * 65536 + a2 * 256 + a3 /\ y = x \div 64 /\ z = y \div 64
        /\ r1 = (z \div 64) % 64 /\ r2 = z % 64 /\ r3 = y % 64 /\ r4 = x % 64
    BY DEF x, y, z, r1, r2, r3, r4
  <2> QED BY <1>4, <2>1, SixBits
<1> HIDE DEF x, y, z, r1, r2, r3, r4, p, L
<1>7. L \in 1..3 /\ b = [i \in 1..L |-> b[i]]
  BY <1>1 DEF L, Bytes
<1> DEFINE e1 == Code!encode[r1]
           e2 == Code!encode[r2]
           e3 == Code!encode[r3]
           e4 == Code!encode[r4]
<1>8. /\ e1 \in 0..127 /\ e1 > 42 /\ Code!rstr[e1] = r1
      /\ e2 \in 0..127 /\ Code!rstr[e2] = r2
      /\ e3 \in 0..127 /\ e3 # Code!Pad /\ Code!rstr[e3] = r3
      /\ e4 \in 0..127 /\ e4 # Code!Pad /\ Code!rstr[e4] = r4
  BY <1>6, Base64Digits
<1>9. /\ p[1] = e1 /\ p[2] = e2
      /\ p[3] = (IF L >= 2 THEN e3 ELSE Code!Pad)
      /\ p[4] = (IF L >= 3 THEN e4 ELSE Code!Pad)
  <2>1. digits[1] = r1 /\ digits[2] = r2 /\ digits[3] = r3 /\ digits[4] = r4
    OBVIOUS
  <2> HIDE DEF digits
  <2>2. /\ 8 * L >= 6 * (1 - 1) /\ 8 * L >= 6 * (2 - 1)
        /\ (8 * L >= 6 * (3 - 1) <=> L >= 2)
        /\ (8 * L >= 6 * (4 - 1) <=> L >= 3)
    BY <1>7
  <2>3. 1 \in 1..4 /\ 2 \in 1..4 /\ 3 \in 1..4 /\ 4 \in 1..4
    OBVIOUS
  <2> QED BY <1>5, <2>1, <2>2, <2>3
<1> HIDE DEF e1, e2, e3, e4, digits
<1>10. p = [j \in 1..4 |-> p[j]]
  BY <1>5
<1>11. \A j \in 1..4 : p[j] \in Nat
  <2>1. p[1] \in Nat /\ p[2] \in Nat /\ p[3] \in Nat /\ p[4] \in Nat
    BY <1>8, <1>9 DEF Code!Pad
  <2> QED BY <2>1
<1>12. Code!DecodeGroup(p)
         = <<a1>> \o (IF L >= 2 THEN <<a2>> ELSE <<>>) \o (IF L >= 3 THEN <<a3>> ELSE <<>>)
  <2> DEFINE r == [k \in 1..4 |-> Code!rstr[p[k]]]
  <2>1. Code!DecodeGroup(p)
          = <<((r[1] * 4) % 256) + ((r[2] \div 16) % 4)>>
            \o (IF p[3] = Code!Pad THEN <<>> ELSE <<((r[2] * 16) % 256) + ((r[3] \div 4) % 16)>>)
            \o (IF p[4] = Code!Pad THEN <<>> ELSE <<((r[3] * 64) % 256) + r[4]>>)
    BY DEF Code!DecodeGroup
  <2>2. r[1] = r1 /\ r[2] = r2
    BY <1>8, <1>9
  <2>3. L >= 2 => p[3] = e3 /\ p[3] # Code!Pad /\ r[3] = r3
    BY <1>8, <1>9
  <2>4. L >= 3 => p[4] = e4 /\ p[4] # Code!Pad /\ r[4] = r4
    BY <1>8, <1>9
  <2>5. (~(L >= 2) => p[3] = Code!Pad) /\ (~(L >= 3) => p[4] = Code!Pad)
    BY <1>9
  <2> HIDE DEF r
  <2>6. L >= 3 => L >= 2
    BY <1>7
  <2> QED BY <1>6, <2>1, <2>2, <2>3, <2>4, <2>5, <2>6, Zenon
<1>13. b = <<a1>> \o (IF L >= 2 THEN <<a2>> ELSE <<>>) \o (IF L >= 3 THEN <<a3>> ELSE <<>>)
  <2>1. b \in Seq(Nat) /\ Len(b) = L
    BY <1>1 DEF Bytes, L
  <2>2. CASE L = 1
    <3>1. b[1] = a1
      BY <1>2
    <3>2. b = <<a1>>
      BY <2>1, <2>2, <3>1, <1>4
    <3>3. ~(L >= 2) /\ ~(L >= 3)
      BY <2>2
    <3> QED BY <1>4, <3>2, <3>3, Tuples, Zenon
  <2>3. CASE L = 2
    <3>1. b[1] = a1 /\ b[2] = a2
      BY <1>2, <2>3
    <3>2. b = <<a1, a2>>
      BY <2>1, <2>3, <3>1, <1>4
    <3>3. L >= 2 /\ ~(L >= 3)
      BY <2>3
    <3> QED BY <1>4, <3>2, <3>3, Tuples, Zenon
  <2>4. CASE L = 3
    <3>1. b[1] = a1 /\ b[2] = a2 /\ b[3] = a3
      BY <1>2, <2>4
    <3>2. b = <<a1, a2, a3>>
      BY <2>1, <2>4, <3>1, <1>4
    <3>3. L >= 2 /\ L >= 3
      BY <2>4
    <3> QED BY <1>4, <3>2, <3>3, Tuples, Zenon
  <2>5. L = 1 \/ L = 2 \/ L = 3
    BY <1>7
  <2> QED BY <2>2, <2>3, <2>4, <2>5
<1>14. p[1] # 10 /\ p[1] # 13
  BY <1>8, <1>9
<1>15. GroupPiece(p, b)
  BY <1>10, <1>11, <1>12, <1>13, <1>14 DEF GroupPiece
<1> QED BY <1>15 DEF p

Base64Step(from, u, i) ==
  IF i > Len(u) THEN <<>>
  ELSE IF u[i] \in {10, 13} THEN from[i + 1]
  ELSE Code!DecodeGroup([k \in 1..4 |-> Code!At0(u, i + k - 1)]) \o from[i + 4]

LEMMA Base64Reads ==
  ASSUME NEW u, Len(u) \in Nat
  PROVE  \E from : /\ \A i \in Nat : from[i] = Base64Step(from, u, i)
                   /\ Code!Base64Decode(u) = from[1]
<1> DEFINE next == [i \in Nat |-> IF u[i] \in {10, 13} THEN i + 1 ELSE i + 4]
           out == [i \in Nat |-> Code!DecodeGroup([k \in 1..4 |-> Code!At0(u, i + k - 1)])]
           mute == {i \in Nat : u[i] \in {10, 13}}
           P(f) == f = [i \in Nat |-> Base64Step(f, u, i)]
<1>1. \A i \in 0..Len(u) : next[i] \in Nat /\ next[i] > i
  OBVIOUS
<1>2. PICK from : Decodes(from, Len(u), next, out, mute)
  <2> HIDE DEF next, out, mute
  <2> QED BY <1>1, DecoderExists
<1>3. ASSUME NEW i \in Nat
      PROVE  Step(from, i, Len(u), next, out, mute) = Base64Step(from, u, i)
  <2>1. /\ next[i] = IF u[i] \in {10, 13} THEN i + 1 ELSE i + 4
        /\ out[i] = Code!DecodeGroup([k \in 1..4 |-> Code!At0(u, i + k - 1)])
        /\ i \in mute <=> u[i] \in {10, 13}
    OBVIOUS
  <2> HIDE DEF next, out, mute
  <2> QED BY <2>1, Zenon DEF Step, Base64Step
<1> HIDE DEF next, out, mute
<1>4. P(from)
  BY <1>2, <1>3 DEF Decodes
<1> DEFINE f == CHOOSE g : P(g)
<1>5. P(f)
  <2> HIDE DEF P
  <2> QED BY <1>4
<1>6. Code!Base64Decode(u) = f[1]
  BY Zenon DEF Code!Base64Decode, Base64Step
<1> HIDE DEF f
<1>7. \A i \in Nat : f[i] = Base64Step(f, u, i)
  BY <1>5
<1> QED BY <1>6, <1>7

LEMMA GroupReads ==
  ASSUME NEW p, NEW b, GroupPiece(p, b), Len(p) = 4, NEW u, NEW i, StandsAt(p, u, i),
         NEW from, from[i] = Base64Step(from, u, i)
  PROVE  from[i] = b \o from[i + 4]
<1>1. i \in Nat /\ Len(u) \in Nat /\ i + 4 <= Len(u) + 1
  BY DEF StandsAt
<1> DEFINE d == [k \in 1..4 |-> Code!At0(u, i + k - 1)]
<1>2. ASSUME NEW k \in 1..4 PROVE d[k] = p[k]
  <2> DEFINE j == i + k - 1
  <2>1. j <= Len(u)
    BY <1>1
  <2>2. u[j] = p[k]
    BY DEF StandsAt
  <2> HIDE DEF j
  <2>3. Code!At0(u, j) = p[k]
    BY <2>1, <2>2 DEF Code!At0
  <2> QED BY <2>3 DEF j
<1>3. d = p
  <2>1. d = [k \in 1..4 |-> d[k]] /\ p = [k \in 1..4 |-> p[k]]
    BY DEF GroupPiece
  <2> HIDE DEF d
  <2> QED BY <1>2, <2>1
<1>4. ~(i > Len(u)) /\ u[i] \notin {10, 13}
  <2>1. i <= Len(u) /\ i + 1 - 1 = i /\ 1 \in 1..4
    BY <1>1
  <2>2. u[i + 1 - 1] = p[1]
    BY <2>1 DEF StandsAt
  <2> QED BY <1>1, <2>1, <2>2 DEF GroupPiece
<1>5. Base64Step(from, u, i) = Code!DecodeGroup(d) \o from[i + 4]
  BY <1>4, Zenon DEF Base64Step
<1> QED BY <1>3, <1>5 DEF GroupPiece

(* The bytes of the k-th group.                                            *)
Triple(data, k) == SubSeq(data, 3 * k - 2, IF 3 * k < Len(data) THEN 3 * k ELSE Len(data))

LEMMA GroupsUndone ==
  ASSUME NEW data \in Bytes, NEW K, K = (Len(data) + 2) \div 3, NEW from, NEW at,
         from[at[K] + 1] = <<>>,
         \A k \in 1..K : from[at[k - 1] + 1] = Triple(data, k) \o from[at[k] + 1]
  PROVE  from[at[0] + 1] = data
<1> DEFINE N == Len(data)
           cut == [k \in 0..K |-> IF 3 * k < N THEN 3 * k ELSE N]
           begin == [k \in 0..K |-> at[k] + 1]
<1>1. N \in Nat /\ data \in Seq(Nat)
  BY DEF Bytes
<1>2. K \in Nat /\ 3 * K >= N /\ 3 * K <= N + 2
  <2> HIDE DEF N
  <2>1. K = (N + 2) \div 3
    BY DEF N
  <2> QED BY <1>1, <2>1
<1>3. \A k \in 0..K : cut[k] = (IF 3 * k < N THEN 3 * k ELSE N) /\ begin[k] = at[k] + 1
  OBVIOUS
<1> HIDE DEF cut, begin
<1>4. ASSUME NEW k \in 1..K
      PROVE  from[begin[k - 1]] = SubSeq(data, cut[k - 1] + 1, cut[k]) \o from[begin[k]]
  <2>1. k \in 0..K /\ k - 1 \in 0..K
    BY <1>2
  <2>2. cut[k - 1] + 1 = 3 * k - 2
    <3>1. 3 * (k - 1) < N
      BY <1>1, <1>2
    <3>2. cut[k - 1] = 3 * (k - 1)
      BY <1>3, <2>1, <3>1
    <3> QED BY <3>2
  <2>3. cut[k] = IF 3 * k < Len(data) THEN 3 * k ELSE Len(data)
    BY <1>3, <2>1
  <2>4. SubSeq(data, cut[k - 1] + 1, cut[k]) = Triple(data, k)
    BY <2>2, <2>3 DEF Triple
  <2>5. begin[k - 1] = at[k - 1] + 1 /\ begin[k] = at[k] + 1
    BY <1>3, <2>1
  <2> QED BY <2>4, <2>5
<1>5. Undoing(from, begin, cut, K, data)
  <2> HIDE DEF N
  <2>1. cut[0] = 0 /\ cut[K] = N
    BY <1>1, <1>2, <1>3
  <2>2. \A k \in 0..K : cut[k] \in Nat /\ cut[k] <= cut[K]
    BY <1>1, <1>2, <1>3, <2>1
  <2>3. ASSUME NEW k \in 1..K PROVE cut[k - 1] <= cut[k]
    <3>1. k \in 0..K /\ k - 1 \in 0..K
      BY <1>2
    <3>2. /\ cut[k] = (IF 3 * k < N THEN 3 * k ELSE N)
          /\ cut[k - 1] = (IF 3 * (k - 1) < N THEN 3 * (k - 1) ELSE N)
      BY <1>3, <3>1
    <3> QED BY <1>1, <3>1, <3>2
  <2>4. from[begin[K]] = <<>>
    BY <1>2, <1>3
  <2> QED BY <1>4, <2>1, <2>2, <2>3, <2>4 DEF Undoing, N
<1>6. from[begin[0]] = data
  BY <1>2, <1>5, Undone
<1> QED BY <1>2, <1>3, <1>6

LEMMA GroupIs ==
  ASSUME NEW data \in Octets, NEW k \in 1..((Len(data) + 2) \div 3)
  PROVE  Triple(data, k) \in Octets /\ Len(Triple(data, k)) \in 1..3
<1> DEFINE N == Len(data)
           m == 3 * k - 2
           n == IF 3 * k < N THEN 3 * k ELSE N
<1>1. N \in Nat
  BY OctetsAreBytes
<1>2. k \in Nat /\ k >= 1 /\ 3 * k <= N + 2
  <2> HIDE DEF N
  <2>1. k \in 1..((N + 2) \div 3)
    BY DEF N
  <2> QED BY <1>1, <2>1
<1>3. m \in 1..N /\ n \in Int /\ m <= n /\ n - m + 1 \in 1..3 /\ n <= N
  <2> HIDE DEF N
  <2> QED BY <1>1, <1>2
<1>4. Triple(data, k) = SubSeq(data, m, n)
  BY DEF Triple
<1> HIDE DEF N, m, n
<1>5. \A j \in m..n : data[j] \in 0..255
  <2>1. \A j \in m..n : j \in 1..N
    BY <1>1, <1>3
  <2> QED BY <2>1, OctetsAreBytes DEF N
<1>6. m \in Int /\ n \in Int
  BY <1>1, <1>3
<1>7. /\ SubSeq(data, m, n) \in Seq(0..255)
      /\ Len(SubSeq(data, m, n)) = IF m <= n THEN n - m + 1 ELSE 0
  BY <1>5, <1>6, SubSeqProperties
<1> QED BY <1>3, <1>4, <1>7 DEF Octets

LEMMA GroupIsBytes ==
  ASSUME NEW p, NEW b, GroupPiece(p, b)
  PROVE  p \in Bytes /\ Len(p) = 4
<1>1. p = [j \in 1..4 |-> p[j]] /\ \A j \in 1..4 : p[j] \in Nat
  BY DEF GroupPiece
<1> QED BY <1>1 DEF Bytes

(* A group and the end of a line behind it.                                *)
Ended(p) == p \o <<13, 10>>

LEMMA LineIs ==
  ASSUME NEW p \in Bytes, Len(p) = 4
  PROVE  Behind(Ended(p), p, 4, <<13, 10>>, 2)
<1>1. <<13, 10>> \in Bytes /\ Len(<<13, 10>>) = 2
  BY DEF Bytes
<1> QED BY <1>1, JoinIs DEF Ended

LEMMA LineReads ==
  ASSUME NEW p, NEW b, GroupPiece(p, b), NEW u, NEW i, StandsAt(Ended(p), u, i),
         NEW from, \A j \in Nat : from[j] = Base64Step(from, u, j)
  PROVE  from[i] = b \o from[i + 6]
<1>1. p \in Bytes /\ Len(p) = 4
  BY GroupIsBytes
<1> DEFINE q == Ended(p)
<1>2. Behind(q, p, 4, <<13, 10>>, 2)
  BY <1>1, LineIs
<1> HIDE DEF q
<1>3. /\ Len(q) = 6 /\ \A j \in 1..4 : q[j] = p[j]
      /\ q[4 + 1] = 13 /\ q[4 + 2] = 10
  BY <1>2 DEF Behind
<1>4. /\ i \in Nat \ {0} /\ Len(u) \in Nat /\ i + 6 <= Len(u) + 1
      /\ \A j \in 1..6 : u[i + j - 1] = q[j]
  BY <1>3 DEF StandsAt, q
<1>5. StandsAt(p, u, i)
  <2>1. \A j \in 1..4 : j \in 1..6
    OBVIOUS
  <2>2. \A j \in 1..4 : u[i + j - 1] = p[j]
    BY <1>3, <1>4, <2>1
  <2>3. i + 4 <= Len(u) + 1
    BY <1>4
  <2> QED BY <1>1, <1>4, <2>2, <2>3 DEF StandsAt
<1>6. from[i] = b \o from[i + 4]
  <2>1. from[i] = Base64Step(from, u, i)
    BY <1>4
  <2> QED BY <1>1, <1>5, <2>1, GroupReads
<1>7. from[i + 4] = from[i + 5]
  <2>1. i + 5 - 1 = i + 4 /\ 5 \in 1..6 /\ i + 4 \in Nat /\ ~(i + 4 > Len(u)) /\ i + 4 + 1 = i + 5
    BY <1>4
  <2>2. u[i + 4] = 13
    BY <1>3, <1>4, <2>1
  <2>3. from[i + 4] = Base64Step(from, u, i + 4)
    BY <2>1
  <2> QED BY <2>1, <2>2, <2>3 DEF Base64Step
<1>8. from[i + 5] = from[i + 6]
  <2>1. i + 6 - 1 = i + 5 /\ 6 \in 1..6 /\ i + 5 \in Nat /\ ~(i + 5 > Len(u)) /\ i + 5 + 1 = i + 6
    BY <1>4
  <2>2. u[i + 5] = 10
    BY <1>3, <1>4, <2>1
  <2>3. from[i + 5] = Base64Step(from, u, i + 5)
    BY <2>1
  <2> QED BY <2>1, <2>2, <2>3 DEF Base64Step
<1> QED BY <1>6, <1>7, <1>8

LEMMA Base64Inverts ==
  ASSUME NEW data \in Octets
  PROVE  /\ Code!Base64Decode(Code!Base64Encode(data)) = data
         /\ Code!Base64Decode(Code!Broken(Code!Base64Encode(data))) = data
<1> DEFINE N == Len(data)
           K == (N + 2) \div 3
           seqs == [k \in 1..K |-> Code!EncodeGroup(Triple(data, k))]
           u == Code!Base64Encode(data)
           lines == [k \in 1..K |-> Ended(seqs[k])]
           v == Code!Broken(u)
<1>1. data \in Bytes /\ K \in Nat
  <2>1. data \in Bytes /\ N \in Nat
    BY OctetsAreBytes
  <2> HIDE DEF N
  <2> QED BY <2>1
<1>2. u = Code!FlattenSeq(seqs)
  BY DEF Code!Base64Encode, Triple
<1>3. ASSUME NEW k \in 1..K PROVE GroupPiece(seqs[k], Triple(data, k))
  <2>1. seqs[k] = Code!EncodeGroup(Triple(data, k))
    OBVIOUS
  <2> HIDE DEF seqs
  <2> QED BY <2>1, GroupIs, Groups
<1>4. /\ seqs = [k \in 1..K |-> seqs[k]] /\ lines = [k \in 1..K |-> lines[k]]
      /\ \A k \in 1..K : lines[k] = Ended(seqs[k])
  OBVIOUS
<1>5. v = Code!FlattenSeq([k \in 1..(Len(u) \div 4) |-> SubSeq(u, 4 * k - 3, 4 * k) \o <<13, 10>>])
  BY DEF Code!Broken
<1>6. K = (Len(data) + 2) \div 3
  OBVIOUS
<1> HIDE DEF N, K, seqs, u, lines, v
<1>7. \A k \in 1..K : seqs[k] \in Bytes /\ Len(seqs[k]) = 4
  BY <1>3, GroupIsBytes
<1>8. seqs \in [1..K -> Bytes] /\ Len(seqs) = K
  BY <1>1, <1>4, <1>7, SeqsOver
<1>9. PICK at : Laid(u, at, K, seqs)
  BY <1>1, <1>2, <1>8, Laying
<1>10. Len(u) = at[K] /\ at[0] = 0 /\ \A k \in 0..K : at[k] \in Nat
  BY <1>9 DEF Laid
(* In one line.                                                            *)
<1>11. Code!Base64Decode(u) = data
  <2>1. Len(u) \in Nat
    BY <1>1, <1>10
  <2>2. PICK from : /\ \A i \in Nat : from[i] = Base64Step(from, u, i)
                    /\ Code!Base64Decode(u) = from[1]
    BY <2>1, Base64Reads
  <2>3. from[at[K] + 1] = <<>>
    <3>1. at[K] + 1 \in Nat /\ at[K] + 1 > Len(u)
      BY <1>10, <2>1
    <3> QED BY <2>2, <3>1 DEF Base64Step
  <2>4. ASSUME NEW k \in 1..K PROVE from[at[k - 1] + 1] = Triple(data, k) \o from[at[k] + 1]
    <3> DEFINE i == at[k - 1] + 1
    <3>1. Fills(seqs[k], u, at[k - 1], at[k])
      <4>1. Len(seqs[k]) \in Nat
        BY <1>7
      <4> QED BY <1>1, <1>9, <4>1, LaidStands
    <3>2. StandsAt(seqs[k], u, i) /\ i + 4 = at[k] + 1
      BY <1>7, <3>1 DEF Fills
    <3> HIDE DEF i
    <3>3. from[i] = Base64Step(from, u, i)
      BY <2>2, <3>2 DEF StandsAt
    <3>4. from[i] = Triple(data, k) \o from[i + 4]
      BY <1>3, <1>7, <3>2, <3>3, GroupReads
    <3> QED BY <3>2, <3>4 DEF i
  <2>5. from[at[0] + 1] = data
    BY <1>1, <1>6, <2>3, <2>4, GroupsUndone
  <2>6. at[0] + 1 = 1
    BY <1>10
  <2> QED BY <2>2, <2>5, <2>6
(* In lines.                                                               *)
<1>12. v = Code!FlattenSeq(lines)
  <2>1. Every(at, K, 4)
    <3>1. AllHave(seqs, K, 4) /\ 4 \in Nat
      BY <1>7 DEF AllHave
    <3> QED BY <1>1, <1>9, <3>1, Strides
  <2>2. Len(u) = 4 * K
    BY <1>1, <1>10, <2>1 DEF Every
  <2>3. Len(u) \div 4 = K
    BY <1>1, <2>2
  <2>4. ASSUME NEW k \in 1..K PROVE SubSeq(u, 4 * k - 3, 4 * k) = seqs[k]
    <3> DEFINE m == 4 * k - 3
               n == 4 * k
               s == SubSeq(u, m, n)
    <3>1. m \in Int /\ n \in Int /\ m <= n /\ n - m + 1 = 4 /\ k - 1 \in 0..K
      BY <1>1
    <3>2. \A j \in m..n : u[j] \in Nat
      <4>1. \A j \in m..n : j \in 1..Len(u)
        BY <1>1, <2>2
      <4>2. u \in Seq(Nat)
        BY <1>9 DEF Laid, Bytes
      <4> HIDE DEF m, n
      <4> QED BY <4>1, <4>2, ElementOfSeq
    <3>3. /\ s \in Seq(Nat)
          /\ Len(s) = IF m <= n THEN n - m + 1 ELSE 0
          /\ \A j \in 1..(n - m + 1) : s[j] = u[m + j - 1]
      <4> HIDE DEF m, n
      <4> QED BY <3>1, <3>2, SubSeqProperties
    <3>4. ASSUME NEW j \in 1..4 PROVE s[j] = seqs[k][j]
      <4>1. at[k - 1] + j = m + j - 1
        <5>1. at[k - 1] = 4 * (k - 1)
          BY <2>1, <3>1 DEF Every
        <5> QED BY <5>1
      <4> HIDE DEF s, m, n
      <4>2. s[j] = u[m + j - 1]
        BY <3>1, <3>3
      <4>3. j \in 1..Len(seqs[k])
        BY <1>7
      <4>4. u[at[k - 1] + j] = seqs[k][j]
        BY <1>9, <4>3 DEF Laid
      <4> QED BY <4>1, <4>2, <4>4
    <3> HIDE DEF s, m, n
    <3>5. s \in Seq(Nat) /\ Len(s) = 4
      BY <3>1, <3>3
    <3>6. seqs[k] \in Seq(Nat) /\ Len(seqs[k]) = 4
      BY <1>7 DEF Bytes
    <3>7. s = seqs[k]
      BY <3>4, <3>5, <3>6, SeqEqual
    <3> QED BY <3>7 DEF s, m, n
  <2>5. [k \in 1..K |-> SubSeq(u, 4 * k - 3, 4 * k) \o <<13, 10>>] = lines
    <3>1. \A k \in 1..K : lines[k] = SubSeq(u, 4 * k - 3, 4 * k) \o <<13, 10>>
      BY <1>4, <2>4 DEF Ended
    <3> QED BY <1>4, <3>1
  <2> QED BY <1>5, <2>3, <2>5
<1>13. \A k \in 1..K : lines[k] \in Bytes /\ Len(lines[k]) = 6
  <2>1. ASSUME NEW k \in 1..K PROVE lines[k] \in Bytes /\ Len(lines[k]) = 4 + 2
    <3>1. Behind(Ended(seqs[k]), seqs[k], 4, <<13, 10>>, 2)
      BY <1>7, LineIs
    <3> QED BY <1>4, <3>1 DEF Behind
  <2> QED BY <2>1
<1>14. lines \in [1..K -> Bytes] /\ Len(lines) = K
  BY <1>1, <1>4, <1>13, SeqsOver
<1>15. PICK to : Laid(v, to, K, lines)
  BY <1>1, <1>12, <1>14, Laying
<1>16. Len(v) = to[K] /\ to[0] = 0 /\ \A k \in 0..K : to[k] \in Nat
  BY <1>15 DEF Laid
<1>17. Code!Base64Decode(v) = data
  <2>1. Len(v) \in Nat
    BY <1>1, <1>16
  <2>2. PICK from : /\ \A i \in Nat : from[i] = Base64Step(from, v, i)
                    /\ Code!Base64Decode(v) = from[1]
    BY <2>1, Base64Reads
  <2>3. from[to[K] + 1] = <<>>
    <3>1. to[K] + 1 \in Nat /\ to[K] + 1 > Len(v)
      BY <1>16, <2>1
    <3> QED BY <2>2, <3>1 DEF Base64Step
  <2>4. ASSUME NEW k \in 1..K PROVE from[to[k - 1] + 1] = Triple(data, k) \o from[to[k] + 1]
    <3> DEFINE i == to[k - 1] + 1
    <3>1. Fills(lines[k], v, to[k - 1], to[k])
      <4>1. Len(lines[k]) \in Nat
        BY <1>13
      <4> QED BY <1>1, <1>15, <4>1, LaidStands
    <3>2. StandsAt(Ended(seqs[k]), v, i) /\ i + 6 = to[k] + 1
      BY <1>4, <1>13, <3>1 DEF Fills
    <3> HIDE DEF i
    <3>3. from[i] = Triple(data, k) \o from[i + 6]
      BY <1>3, <2>2, <3>2, LineReads
    <3> QED BY <3>2, <3>3 DEF i
  <2>5. from[to[0] + 1] = data
    BY <1>1, <1>6, <2>3, <2>4, GroupsUndone
  <2>6. to[0] + 1 = 1
    BY <1>16
  <2> QED BY <2>2, <2>5, <2>6
<1> QED BY <1>11, <1>17 DEF u, v

(* Every decoder takes back what its encoder made of any text of bytes:    *)
(* Base64 in one line or with line ends between its groups, hex, the       *)
(* entities, MAC addresses of six bytes, and the URL form, where a white   *)
(* space comes back as a blank (Arithmetic.cpp:81-543).                    *)
THEOREM CodecsInvert ==
  ASSUME NEW data \in Seq(0..255)
  PROVE  Code!TextCodecsInvert(data)
<1>1. data \in Octets
  BY DEF Octets
<1>2. /\ Code!Base64Decode(Code!Base64Encode(data)) = data
      /\ Code!Base64Decode(Code!Broken(Code!Base64Encode(data))) = data
  BY <1>1, Base64Inverts
<1>3. Code!HexToAscii(Code!AsciiToHex(data)) = data
  BY <1>1, HexInverts
<1>4. Code!decode_url(Code!encode_url(data)) = Code!Blanks(data)
  BY <1>1, UrlInverts
<1>5. Code!decode_urlspecialchar(Code!encode_urlspecialchar(data)) = data
  BY <1>1, EntitiesInvert
<1>6. Len(data) = 6 => Code!String2Mac(Code!Mac2String(data)) = data
  BY <1>1, MacInverts
<1> QED BY <1>2, <1>3, <1>4, <1>5, <1>6 DEF Code!TextCodecsInvert
=============================================================================
