---------------------------- MODULE FileCtrlProof -----------------------------
(* Lemmas about the functions of CFileCtrl, for records and memory blocks  *)
(* of any size and files of any length.                                    *)
EXTENDS FileCtrl, SequenceTheorems, WellFoundedInduction, TLAPS

-----------------------------------------------------------------------------
(* Recursion over 0..N.                                                    *)

(* Induction, for a set: the library's theorem on well-founded relations,  *)
(* for < on Nat.                                                           *)
LEMMA SetInduction ==
  ASSUME NEW S, 0 \in S, NEW N \in Nat,
         \A n \in 1..N : n - 1 \in S => n \in S
  PROVE  0..N \subseteq S
<1> DEFINE T == 0..N \ S
           L == OpToRel(<, Nat)
<1> SUFFICES ASSUME T # {} PROVE FALSE
  OBVIOUS
<1>1. IsWellFoundedOn(L, Nat)
  BY NatLessThanWellFounded
<1>2. \A m, n \in Nat : m < n => <<m, n>> \in L
  BY DEF OpToRel
<1>3. T \subseteq Nat
  OBVIOUS
<1> HIDE DEF L
<1>4. PICK x \in T : \A y \in T : ~(<<y, x>> \in L)
  BY <1>1, <1>3, WFMin
<1>5. x \in 1..N
  BY <1>4
<1>6. x - 1 \in Nat /\ x - 1 < x /\ x \in Nat
  BY <1>5
<1>7. x - 1 \in T
  BY <1>4, <1>5
<1> QED BY <1>2, <1>4, <1>6, <1>7

(* f begins with a and goes on by the steps.                               *)
Follows(f, S, a, N, step) ==
  f \in [0..N -> S] /\ f[0] = a /\ \A n \in 1..N : f[n] = step[n][f[n - 1]]

LEMMA RecursionExists ==
  ASSUME NEW S, NEW a \in S, NEW N \in Nat, NEW step \in [1..N -> [S -> S]]
  PROVE  \E f : Follows(f, S, a, N, step)
<1> DEFINE Good(f, k) == /\ f \in [0..k -> S] /\ f[0] = a
                         /\ \A n \in 1..k : f[n] = step[n][f[n - 1]]
           K == {k \in 0..N : \E f : Good(f, k)}
<1>1. 0 \in K
  <2>1. Good([n \in 0..0 |-> a], 0)
    OBVIOUS
  <2> HIDE DEF Good
  <2> QED BY <2>1
<1>2. ASSUME NEW k \in 1..N, k - 1 \in K PROVE k \in K
  <2>1. PICK f : Good(f, k - 1)
    BY <1>2
  <2> DEFINE new == step[k][f[k - 1]]
             g == [n \in 0..k |-> IF n = k THEN new ELSE f[n]]
  <2>2. new \in S
    BY <2>1
  <2> HIDE DEF new
  <2>3. g \in [0..k -> S] /\ g[0] = a
    BY <2>1, <2>2
  <2>4. ASSUME NEW n \in 1..k PROVE g[n] = step[n][g[n - 1]]
    <3>1. g[n - 1] = f[n - 1]
      OBVIOUS
    <3>2. CASE n = k
      BY <3>1, <3>2 DEF new
    <3>3. CASE n # k
      <4>1. n \in 1..(k - 1)
        BY <3>3
      <4>2. f[n] = step[n][f[n - 1]]
        BY <2>1, <4>1
      <4> QED BY <3>1, <3>3, <4>2
    <3> QED BY <3>2, <3>3
  <2> HIDE DEF g
  <2>5. Good(g, k)
    BY <2>3, <2>4
  <2> QED BY <2>5
<1> HIDE DEF K
<1>3. 0..N \subseteq K
  BY <1>1, <1>2, SetInduction
<1>4. N \in K
  BY <1>3
<1> QED BY <1>4 DEF K, Follows

LEMMA RecursionUnique ==
  ASSUME NEW N \in Nat, NEW f, NEW g, f[0] = g[0],
         \A n \in 1..N : f[n - 1] = g[n - 1] => f[n] = g[n]
  PROVE  \A n \in 0..N : f[n] = g[n]
<1> DEFINE S == {n \in 0..N : f[n] = g[n]}
<1>1. 0 \in S /\ \A n \in 1..N : n - 1 \in S => n \in S
  OBVIOUS
<1> HIDE DEF S
<1>2. 0..N \subseteq S
  BY <1>1, SetInduction
<1> QED BY <1>2 DEF S

-----------------------------------------------------------------------------
(* Concatenation, as a fact without a set to find.                         *)
Associative(R) == \A s, t, u \in Seq(R) : (s \o t) \o u = s \o (t \o u)

LEMMA ConcatIsAssociative ==
  ASSUME NEW R
  PROVE  Associative(R)
BY ConcatAssociative DEF Associative

-----------------------------------------------------------------------------
(* Size.                                                                   *)

Sized(R) == \A r \in R : r.len \in 1..RecordLen

(* The sums of the lengths up to each record.                              *)
Sums(s, f) ==
  /\ f \in [0..Len(s) -> Nat] /\ f[0] = 0
  /\ \A n \in 1..Len(s) : f[n] = f[n - 1] + s[n].len

LEMMA SizeSums ==
  ASSUME NEW R, Sized(R), NEW s \in Seq(R)
  PROVE  \E f : Sums(s, f) /\ Size(s) = f[Len(s)]
<1> DEFINE N == Len(s)
           P(f) == f = [n \in 0..N |-> IF n = 0 THEN 0 ELSE f[n - 1] + s[n].len]
           step == [n \in 1..N |-> [x \in Nat |-> x + s[n].len]]
<1>1. N \in Nat /\ \A n \in 1..N : s[n].len \in Nat
  BY LenProperties, ElementOfSeq, FileAssumption DEF Sized
<1>2. step \in [1..N -> [Nat -> Nat]]
  BY <1>1
<1>3. PICK f : Follows(f, Nat, 0, N, step)
  <2>1. 0 \in Nat
    OBVIOUS
  <2> HIDE DEF step, N
  <2> QED BY <1>1, <1>2, <2>1, RecursionExists
<1>4. \A n \in 1..N : f[n] = f[n - 1] + s[n].len
  <2> SUFFICES ASSUME NEW n \in 1..N PROVE f[n] = f[n - 1] + s[n].len
    OBVIOUS
  <2> HIDE DEF step
  <2>1. f[n] = step[n][f[n - 1]] /\ f[n - 1] \in Nat
    BY <1>3, <1>1 DEF Follows
  <2>2. step[n] = [x \in Nat |-> x + s[n].len]
    BY DEF step
  <2> QED BY <2>1, <2>2
<1>5. P(f)
  <2>1. f \in [0..N -> Nat] /\ f[0] = 0
    BY <1>3 DEF Follows
  <2> QED BY <1>4, <2>1
<1>6. P(CHOOSE g : P(g))
  BY <1>5
<1> DEFINE g == CHOOSE g : P(g)
<1>7. Size(s) = g[N]
  BY DEF Size
<1>8. g = [n \in 0..N |-> IF n = 0 THEN 0 ELSE g[n - 1] + s[n].len]
  BY <1>6
<1> HIDE DEF g
<1>9. g[0] = 0 /\ \A n \in 1..N : g[n] = g[n - 1] + s[n].len
  BY <1>1, <1>8
<1>10. \A n \in 0..N : f[n] = g[n]
  <2>1. f[0] = g[0] /\ \A n \in 1..N : f[n - 1] = g[n - 1] => f[n] = g[n]
    BY <1>3, <1>4, <1>9 DEF Follows
  <2> HIDE DEF N
  <2> QED BY <1>1, <2>1, RecursionUnique
<1>11. Sums(s, f)
  BY <1>3, <1>4 DEF Sums, Follows
<1>12. f[N] = g[N]
  BY <1>1, <1>10
<1> QED BY <1>7, <1>11, <1>12

LEMMA SizeNat ==
  ASSUME NEW R, Sized(R), NEW s \in Seq(R)
  PROVE  Size(s) \in Nat
BY SizeSums, LenProperties DEF Sums

LEMMA SizeEmpty == Size(<<>>) = 0
<1>1. Sized({})
  BY DEF Sized
<1>2. <<>> \in Seq({}) /\ Len(<<>>) = 0
  BY EmptySeq
<1> QED BY <1>1, <1>2, SizeSums DEF Sums

LEMMA SizeAppend ==
  ASSUME NEW R, Sized(R), NEW s \in Seq(R), NEW r \in R
  PROVE  Size(Append(s, r)) = Size(s) + r.len
<1> DEFINE t == Append(s, r)
<1>1. t \in Seq(R) /\ Len(t) = Len(s) + 1 /\ Len(s) \in Nat
  BY AppendProperties, LenProperties
<1>2. \A n \in 1..Len(s) : t[n] = s[n]
  BY AppendProperties
<1>3. t[Len(s) + 1] = r
  BY AppendProperties
<1> HIDE DEF t
<1>4. PICK f : Sums(s, f) /\ Size(s) = f[Len(s)]
  BY SizeSums
<1>5. PICK g : Sums(t, g) /\ Size(t) = g[Len(t)]
  BY <1>1, SizeSums
<1>6. \A n \in 0..Len(s) : f[n] = g[n]
  <2>1. f[0] = g[0]
    BY <1>4, <1>5 DEF Sums
  <2>2. \A n \in 1..Len(s) : f[n - 1] = g[n - 1] => f[n] = g[n]
    BY <1>1, <1>2, <1>4, <1>5 DEF Sums
  <2> QED BY <1>1, <2>1, <2>2, RecursionUnique
<1>7. g[Len(s) + 1] = g[Len(s)] + r.len
  BY <1>1, <1>3, <1>5 DEF Sums
<1> QED BY <1>1, <1>4, <1>5, <1>6, <1>7 DEF t

LEMMA SizeConcat ==
  ASSUME NEW R, Sized(R), NEW s \in Seq(R), NEW t \in Seq(R)
  PROVE  Size(s \o t) = Size(s) + Size(t)
<1> DEFINE u == s \o t
<1>1. /\ u \in Seq(R) /\ Len(u) = Len(s) + Len(t)
      /\ Len(s) \in Nat /\ Len(t) \in Nat
  BY ConcatProperties, LenProperties
<1>2. \A n \in 1..Len(s) : u[n] = s[n]
  BY ConcatProperties
<1>3. \A n \in 1..Len(t) : u[Len(s) + n] = t[n]
  BY ConcatProperties, LenProperties
<1> HIDE DEF u
<1>4. PICK f : Sums(s, f) /\ Size(s) = f[Len(s)]
  BY SizeSums
<1>5. PICK g : Sums(t, g) /\ Size(t) = g[Len(t)]
  BY SizeSums
<1>6. PICK h : Sums(u, h) /\ Size(u) = h[Len(u)]
  BY <1>1, SizeSums
<1>7. \A n \in 0..Len(s) : f[n] = h[n]
  <2>1. f[0] = h[0]
    BY <1>4, <1>6 DEF Sums
  <2>2. \A n \in 1..Len(s) : f[n - 1] = h[n - 1] => f[n] = h[n]
    <3> SUFFICES ASSUME NEW n \in 1..Len(s), f[n - 1] = h[n - 1]
                 PROVE  f[n] = h[n]
      OBVIOUS
    <3>1. f[n] = f[n - 1] + s[n].len
      BY <1>4 DEF Sums
    <3>2. n \in 1..Len(u)
      BY <1>1
    <3>3. h[n] = h[n - 1] + u[n].len
      BY <1>6, <3>2 DEF Sums
    <3> QED BY <1>2, <3>1, <3>3
  <2> QED BY <1>1, <2>1, <2>2, RecursionUnique
<1> DEFINE a == [n \in 0..Len(t) |-> f[Len(s)] + g[n]]
           b == [n \in 0..Len(t) |-> h[Len(s) + n]]
<1>8. a[0] = b[0]
  <2>1. g[0] = 0 /\ f[Len(s)] \in Nat /\ f[Len(s)] = h[Len(s)]
    BY <1>1, <1>4, <1>5, <1>7 DEF Sums
  <2>2. a[0] = f[Len(s)] + g[0] /\ b[0] = h[Len(s) + 0] /\ Len(s) + 0 = Len(s)
    BY <1>1
  <2> QED BY <2>1, <2>2
<1>9. ASSUME NEW n \in 1..Len(t), a[n - 1] = b[n - 1] PROVE a[n] = b[n]
  <2>1. Len(s) + n \in 1..Len(u) /\ (Len(s) + n) - 1 = Len(s) + (n - 1)
    BY <1>1
  <2>2. h[Len(s) + n] = h[Len(s) + (n - 1)] + u[Len(s) + n].len
    BY <1>6, <2>1 DEF Sums
  <2>3. h[Len(s) + n] = h[Len(s) + (n - 1)] + t[n].len
    BY <1>3, <2>2
  <2>4. g[n] = g[n - 1] + t[n].len /\ n - 1 \in 0..Len(t) /\ n \in 0..Len(t)
    BY <1>1, <1>5 DEF Sums
  <2>5. g[n - 1] \in Nat /\ f[Len(s)] \in Nat /\ g[n] \in Nat
    <3>1. Len(s) \in 0..Len(s)
      BY <1>1
    <3>2. f \in [0..Len(s) -> Nat] /\ g \in [0..Len(t) -> Nat]
      BY <1>4, <1>5 DEF Sums
    <3> QED BY <2>4, <3>1, <3>2
  <2>6. a[n - 1] = f[Len(s)] + g[n - 1] /\ b[n - 1] = h[Len(s) + (n - 1)]
    BY <2>4
  <2>7. t[n].len \in Nat
    BY ElementOfSeq, <1>1, FileAssumption DEF Sized
  <2> QED BY <1>9, <2>3, <2>4, <2>5, <2>6, <2>7
<1>10. \A n \in 0..Len(t) : a[n] = b[n]
  <2> HIDE DEF a, b
  <2> QED BY <1>1, <1>8, <1>9, RecursionUnique
<1>11. f[Len(s)] + g[Len(t)] = h[Len(s) + Len(t)]
  BY <1>1, <1>10
<1> QED BY <1>1, <1>4, <1>5, <1>6, <1>11 DEF u

-----------------------------------------------------------------------------
(* Kept.                                                                   *)

(* The files are sequences over R.                                         *)
FilesOver(c, R) == \A s \in DOMAIN c.files : c.files[s] \in Seq(R)

LEMMA FileOfType ==
  ASSUME NEW R, NEW c, FilesOver(c, R), NEW s
  PROVE  FileOf(c, s) \in Seq(R)
BY EmptySeq DEF FileOf, FilesOver

(* The records of the files before each second.                            *)
Joins(c, R, N, f) ==
  /\ f \in [0..N -> Seq(R)] /\ f[0] = <<>>
  /\ \A n \in 1..N : f[n] = f[n - 1] \o FileOf(c, n - 1)

LEMMA KeptJoins ==
  ASSUME NEW R, NEW c, FilesOver(c, R), NEW N \in Nat
  PROVE  \E f : Joins(c, R, N, f) /\ Kept(c, N - 1) = f[N]
<1> DEFINE P(f) == f = [n \in 0..N |-> IF n = 0 THEN <<>>
                                       ELSE f[n - 1] \o FileOf(c, n - 1)]
           file == [n \in 1..N |-> FileOf(c, n - 1)]
           step == [n \in 1..N |-> [x \in Seq(R) |-> x \o file[n]]]
<1>1. \A n \in 1..N : file[n] = FileOf(c, n - 1) /\ file[n] \in Seq(R)
  BY FileOfType
<1> HIDE DEF file
<1>2. step \in [1..N -> [Seq(R) -> Seq(R)]]
  BY <1>1, ConcatProperties
<1>3. PICK f : Follows(f, Seq(R), <<>>, N, step)
  <2>1. <<>> \in Seq(R)
    BY EmptySeq
  <2> HIDE DEF step
  <2> QED BY <1>2, <2>1, RecursionExists
<1>4. \A n \in 1..N : f[n] = f[n - 1] \o FileOf(c, n - 1)
  <2> SUFFICES ASSUME NEW n \in 1..N PROVE f[n] = f[n - 1] \o FileOf(c, n - 1)
    OBVIOUS
  <2> HIDE DEF step
  <2>1. f[n] = step[n][f[n - 1]] /\ f[n - 1] \in Seq(R)
    BY <1>3 DEF Follows
  <2>2. step[n] = [x \in Seq(R) |-> x \o file[n]]
    BY DEF step
  <2> QED BY <1>1, <2>1, <2>2
<1>5. P(f)
  <2>1. f \in [0..N -> Seq(R)] /\ f[0] = <<>>
    BY <1>3 DEF Follows
  <2> QED BY <1>4, <2>1
<1>6. P(CHOOSE g : P(g))
  BY <1>5
<1> DEFINE g == CHOOSE g : P(g)
<1>7. Kept(c, N - 1) = g[N]
  <2>1. (N - 1) + 1 = N
    OBVIOUS
  <2> QED BY <2>1 DEF Kept
<1>8. g = [n \in 0..N |-> IF n = 0 THEN <<>> ELSE g[n - 1] \o FileOf(c, n - 1)]
  BY <1>6
<1> HIDE DEF g
<1>9. g[0] = <<>> /\ \A n \in 1..N : g[n] = g[n - 1] \o FileOf(c, n - 1)
  <2>1. 0 \in 0..N /\ \A n \in 1..N : n \in 0..N /\ n # 0
    OBVIOUS
  <2> QED BY <1>8, <2>1, Zenon
<1>10. \A n \in 0..N : f[n] = g[n]
  <2>1. f[0] = g[0] /\ \A n \in 1..N : f[n - 1] = g[n - 1] => f[n] = g[n]
    BY <1>3, <1>4, <1>9 DEF Follows
  <2> QED BY <2>1, RecursionUnique
<1>11. Joins(c, R, N, f)
  BY <1>3, <1>4 DEF Joins, Follows
<1>12. f[N] = g[N]
  BY <1>10
<1> QED BY <1>7, <1>11, <1>12

LEMMA KeptType ==
  ASSUME NEW R, NEW c, FilesOver(c, R), NEW n \in Nat
  PROVE  Kept(c, n) \in Seq(R)
<1>1. PICK f : Joins(c, R, n + 1, f) /\ Kept(c, (n + 1) - 1) = f[n + 1]
  BY KeptJoins
<1> QED BY <1>1 DEF Joins

LEMMA KeptAgree ==
  ASSUME NEW R, NEW c, NEW d, FilesOver(c, R), FilesOver(d, R), NEW N \in Nat,
         \A s \in 0..(N - 1) : FileOf(c, s) = FileOf(d, s)
  PROVE  Kept(c, N - 1) = Kept(d, N - 1)
<1>1. PICK f : Joins(c, R, N, f) /\ Kept(c, N - 1) = f[N]
  BY KeptJoins
<1>2. PICK g : Joins(d, R, N, g) /\ Kept(d, N - 1) = g[N]
  BY KeptJoins
<1>3. f[0] = g[0]
  BY <1>1, <1>2 DEF Joins
<1>4. ASSUME NEW n \in 1..N, f[n - 1] = g[n - 1] PROVE f[n] = g[n]
  <2>1. f[n] = f[n - 1] \o FileOf(c, n - 1)
    BY <1>1 DEF Joins
  <2>2. g[n] = g[n - 1] \o FileOf(d, n - 1)
    BY <1>2 DEF Joins
  <2>3. FileOf(c, n - 1) = FileOf(d, n - 1)
    OBVIOUS
  <2> QED BY <1>4, <2>1, <2>2, <2>3
<1>5. \A n \in 0..N : f[n] = g[n]
  BY <1>3, <1>4, RecursionUnique
<1> QED BY <1>1, <1>2, <1>5

LEMMA KeptSame ==
  ASSUME NEW R, NEW c, NEW d, FilesOver(c, R), FilesOver(d, R), NEW now \in Nat,
         \A s : FileOf(c, s) = FileOf(d, s)
  PROVE  Kept(c, now) = Kept(d, now)
<1> DEFINE N == now + 1
<1>1. N \in Nat /\ N - 1 = now
  OBVIOUS
<1>2. \A s \in 0..(N - 1) : FileOf(c, s) = FileOf(d, s)
  OBVIOUS
<1> HIDE DEF N
<1>3. Kept(c, N - 1) = Kept(d, N - 1)
  BY <1>1, <1>2, KeptAgree
<1> QED BY <1>1, <1>3

LEMMA KeptStep ==
  ASSUME NEW R, NEW c, FilesOver(c, R), NEW n \in Nat
  PROVE  /\ Kept(c, n) = Kept(c, n - 1) \o FileOf(c, n)
         /\ Kept(c, n - 1) \in Seq(R)
<1>1. PICK f : Joins(c, R, n, f) /\ Kept(c, n - 1) = f[n]
  BY KeptJoins
<1>2. PICK g : Joins(c, R, n + 1, g) /\ Kept(c, (n + 1) - 1) = g[n + 1]
  BY KeptJoins
<1>3. f[0] = g[0]
  BY <1>1, <1>2 DEF Joins
<1>4. \A m \in 1..n : f[m - 1] = g[m - 1] => f[m] = g[m]
  <2> SUFFICES ASSUME NEW m \in 1..n, f[m - 1] = g[m - 1] PROVE f[m] = g[m]
    OBVIOUS
  <2>1. m \in 1..(n + 1)
    OBVIOUS
  <2>2. f[m] = f[m - 1] \o FileOf(c, m - 1)
    BY <1>1, Zenon DEF Joins
  <2>3. g[m] = g[m - 1] \o FileOf(c, m - 1)
    BY <1>2, <2>1, Zenon DEF Joins
  <2> QED BY <2>2, <2>3
<1>5. f[n] = g[n]
  BY <1>3, <1>4, RecursionUnique
<1>6. g[n + 1] = g[(n + 1) - 1] \o FileOf(c, (n + 1) - 1)
  <2>1. n + 1 \in 1..(n + 1)
    OBVIOUS
  <2> QED BY <1>2, <2>1, Zenon DEF Joins
<1>7. (n + 1) - 1 = n
  OBVIOUS
<1>8. Kept(c, n - 1) \in Seq(R)
  BY <1>1 DEF Joins
<1> QED BY <1>1, <1>2, <1>5, <1>6, <1>7, <1>8

(* Seconds without a file add nothing.                                     *)
LEMMA KeptBeyond ==
  ASSUME NEW R, NEW c, FilesOver(c, R), NEW m \in Nat, NEW n \in Nat, m <= n,
         \A s \in (m + 1)..n : FileOf(c, s) = <<>>
  PROVE  Kept(c, n) = Kept(c, m)
<1> DEFINE S == {k \in 0..(n - m) : Kept(c, m + k) = Kept(c, m)}
<1>1. n - m \in Nat /\ 0 \in S
  OBVIOUS
<1>2. ASSUME NEW k \in 1..(n - m), k - 1 \in S PROVE k \in S
  <2>1. Kept(c, m + (k - 1)) = Kept(c, m)
    BY <1>2
  <2>2. m + k \in Nat /\ (m + k) - 1 = m + (k - 1) /\ m + k \in (m + 1)..n
    OBVIOUS
  <2>3. /\ Kept(c, m + k) = Kept(c, m + (k - 1)) \o FileOf(c, m + k)
        /\ Kept(c, m + (k - 1)) \in Seq(R)
    BY <2>2, KeptStep
  <2>4. FileOf(c, m + k) = <<>>
    BY <2>2
  <2>5. Kept(c, m + k) = Kept(c, m + (k - 1))
    BY <2>3, <2>4, ConcatEmptySeq
  <2> QED BY <2>1, <2>5
<1> HIDE DEF S
<1>3. 0..(n - m) \subseteq S
  BY <1>1, <1>2, SetInduction
<1>4. n - m \in S
  BY <1>1, <1>3
<1>5. m + (n - m) = n
  OBVIOUS
<1> QED BY <1>4, <1>5 DEF S

-----------------------------------------------------------------------------
(* Controllers.                                                            *)

(* Each size of a block is none or room for a record and more.             *)
Fits(M) == M \subseteq Nat /\ \A n \in M : n = 0 \/ n > RecordLen

(* The shape of a controller with records in R and blocks in M.            *)
Shape(c, R, M) ==
  /\ c = [there |-> c.there, log |-> c.log, mem |-> c.mem,
          buffer |-> c.buffer, use |-> c.use, len |-> c.len, files |-> c.files]
  /\ c.there \in BOOLEAN
  /\ c.log \in {Closed} \cup DOMAIN c.files
  /\ c.mem \in M \cup {0} /\ c.use \in Nat /\ c.len \in Nat
  /\ c.buffer \in Seq(R)
  /\ DOMAIN c.files \subseteq Nat
  /\ c.files \in [DOMAIN c.files -> Seq(R)]

(* What is counted: the block, and the file in use.                        *)
Counted(c) ==
  /\ c.use = Size(c.buffer) /\ c.use <= c.mem
  /\ c.use = 0 => c.buffer = <<>>
  /\ c.log = Closed => c.use = 0
  /\ c.log # Closed => c.there /\ c.len = Size(c.files[c.log]) + c.use

(* The file in use, with the block, is shorter than bound; the others are  *)
(* too long by less than a record.                                         *)
Bounded(c, bound) ==
  /\ c.log # Closed => c.len < bound
  /\ \A s \in DOMAIN c.files :
       s # c.log => Size(c.files[s]) < MaxFileLength + RecordLen

Whole(c, R, M, bound) == Shape(c, R, M) /\ Counted(c) /\ Bounded(c, bound)

(* From c to d the file in use has got more records, from the block and    *)
(* from the new ones, in that order; the rest of them is in the block.     *)
Extended(c, d, R, new) ==
  \E t \in Seq(R) :
    /\ t \o d.buffer = c.buffer \o new
    /\ c.log = Closed => t = <<>> /\ d.files = c.files
    /\ c.log # Closed => d.files = [c.files EXCEPT ![c.log] = @ \o t]

LEMMA AbsentWhole ==
  ASSUME NEW R, NEW M, NEW c, NEW bound \in Nat, Whole(c, R, M, bound), Sized(R),
         bound <= MaxFileLength + RecordLen
  PROVE  Whole(Absent(c.files), R, M, MaxFileLength)
<1> DEFINE d == Absent(c.files)
<1>1. /\ d.there = FALSE /\ d.log = Closed /\ d.mem = 0 /\ d.buffer = <<>>
      /\ d.use = 0 /\ d.len = 0 /\ d.files = c.files
      /\ d = [there |-> d.there, log |-> d.log, mem |-> d.mem,
              buffer |-> d.buffer, use |-> d.use, len |-> d.len, files |-> d.files]
  BY DEF Absent
<1> HIDE DEF d
<1>2. Shape(d, R, M)
  <2>1. /\ DOMAIN c.files \subseteq Nat /\ c.files \in [DOMAIN c.files -> Seq(R)]
    BY DEF Shape, Whole
  <2>2. d.there \in BOOLEAN
    BY <1>1
  <2>3. /\ d.log \in {Closed} \cup DOMAIN d.files /\ d.mem \in M \cup {0}
        /\ d.use \in Nat /\ d.len \in Nat /\ d.buffer \in Seq(R)
    BY <1>1, EmptySeq
  <2>4. DOMAIN d.files \subseteq Nat /\ d.files \in [DOMAIN d.files -> Seq(R)]
    BY <1>1, <2>1
  <2> QED BY <1>1, <2>2, <2>3, <2>4 DEF Shape
<1>3. Counted(d)
  BY <1>1, SizeEmpty DEF Counted
<1>4. ASSUME NEW s \in DOMAIN c.files PROVE Size(c.files[s]) < MaxFileLength + RecordLen
  <2>1. CASE s # c.log
    BY <2>1 DEF Whole, Bounded
  <2>2. CASE s = c.log
    <3>1. s \in Nat /\ Closed \notin Nat /\ c.files[s] \in Seq(R) /\ c.use \in Nat
      BY DEF Whole, Shape, Closed
    <3>2. c.len < bound /\ c.len = Size(c.files[s]) + c.use
      BY <2>2, <3>1 DEF Whole, Bounded, Counted
    <3>3. Size(c.files[s]) \in Nat
      BY <3>1, SizeNat
    <3> QED BY <3>1, <3>2, <3>3, FileAssumption
  <2> QED BY <2>1, <2>2
<1>5. Bounded(d, MaxFileLength)
  BY <1>1, <1>4 DEF Bounded
<1> QED BY <1>2, <1>3, <1>5 DEF Whole, d

LEMMA ExtendedSame ==
  ASSUME NEW R, NEW M, NEW c, Shape(c, R, M)
  PROVE  Extended(c, c, R, <<>>)
<1>1. <<>> \in Seq(R) /\ <<>> \o c.buffer = c.buffer \o <<>>
  BY EmptySeq, ConcatEmptySeq DEF Shape
<1>2. c.log # Closed => c.files = [c.files EXCEPT ![c.log] = @ \o <<>>]
  <2> SUFFICES ASSUME c.log # Closed
               PROVE  c.files = [c.files EXCEPT ![c.log] = @ \o <<>>]
    OBVIOUS
  <2>1. c.log \in DOMAIN c.files /\ c.files \in [DOMAIN c.files -> Seq(R)]
    BY DEF Shape
  <2>2. c.files[c.log] \o <<>> = c.files[c.log]
    BY <2>1, ConcatEmptySeq
  <2> QED BY <2>1, <2>2
<1> QED BY <1>1, <1>2 DEF Extended

LEMMA Mem2FileWhole ==
  ASSUME NEW R, NEW M, NEW c, NEW bound, Whole(c, R, M, bound), Sized(R), Fits(M)
  PROVE  /\ Whole(Mem2File(c), R, M, bound)
         /\ Mem2File(c).buffer = <<>> /\ Mem2File(c).use = 0
         /\ Mem2File(c).log = c.log /\ Mem2File(c).there = c.there
         /\ Mem2File(c).mem = c.mem /\ Mem2File(c).len = c.len
         /\ Extended(c, Mem2File(c), R, <<>>)
<1> DEFINE d == Mem2File(c)
<1>1. Shape(c, R, M) /\ Counted(c) /\ Bounded(c, bound)
  BY DEF Whole
<1>2. CASE c.log # Closed /\ c.mem > 0 /\ c.use > 0
  <2>1. d = [c EXCEPT !.files[c.log] = @ \o c.buffer, !.buffer = <<>>, !.use = 0]
    BY <1>2 DEF Mem2File
  <2>2. d = [there |-> c.there, log |-> c.log, mem |-> c.mem, buffer |-> <<>>,
             use |-> 0, len |-> c.len,
             files |-> [c.files EXCEPT ![c.log] = @ \o c.buffer]]
    BY <1>1, <2>1 DEF Shape
  <2>3. /\ d.there = c.there /\ d.log = c.log /\ d.mem = c.mem /\ d.buffer = <<>>
        /\ d.use = 0 /\ d.len = c.len
        /\ d.files = [c.files EXCEPT ![c.log] = @ \o c.buffer]
        /\ d = [there |-> d.there, log |-> d.log, mem |-> d.mem,
                buffer |-> d.buffer, use |-> d.use, len |-> d.len, files |-> d.files]
    BY <2>2
  <2> HIDE DEF d
  <2>4. c.log \in DOMAIN c.files /\ c.files[c.log] \in Seq(R) /\ c.buffer \in Seq(R)
    BY <1>1, <1>2 DEF Shape
  <2>5. c.files[c.log] \o c.buffer \in Seq(R)
    BY <2>4, ConcatProperties
  <2>6. /\ DOMAIN d.files = DOMAIN c.files
        /\ d.files[c.log] = c.files[c.log] \o c.buffer
        /\ \A s \in DOMAIN c.files : s # c.log => d.files[s] = c.files[s]
    BY <2>3, <2>4
  <2>7. d.files \in [DOMAIN d.files -> Seq(R)]
    <3>1. c.files \in [DOMAIN c.files -> Seq(R)]
      BY <1>1 DEF Shape
    <3> QED BY <2>3, <2>5, <3>1
  <2>8. Shape(d, R, M)
    BY <1>1, <2>3, <2>6, <2>7, EmptySeq DEF Shape
  <2>9. Size(d.files[d.log]) = Size(c.files[c.log]) + c.use
    BY <1>1, <2>3, <2>4, <2>6, SizeConcat DEF Counted
  <2>10. Counted(d)
    <3>1. c.len \in Nat /\ Size(c.files[c.log]) \in Nat /\ c.use \in Nat /\ c.mem \in Nat
      BY <1>1, <1>2, <2>4, SizeNat DEF Shape, Fits
    <3> QED BY <1>1, <1>2, <2>3, <2>9, <3>1, SizeEmpty DEF Counted
  <2>11. Bounded(d, bound)
    BY <1>1, <1>2, <2>3, <2>6 DEF Bounded
  <2>12. Extended(c, d, R, <<>>)
    <3>1. c.buffer \o d.buffer = c.buffer \o <<>>
      BY <2>3
    <3> QED BY <1>2, <2>3, <2>4, <3>1 DEF Extended
  <2> QED BY <2>3, <2>8, <2>10, <2>11, <2>12 DEF d, Whole
<1>3. CASE ~(c.log # Closed /\ c.mem > 0 /\ c.use > 0)
  <2>1. d = c
    BY <1>3 DEF Mem2File
  <2>2. c.use = 0
    BY <1>1, <1>3 DEF Counted, Shape, Fits
  <2>3. c.buffer = <<>>
    BY <1>1, <2>2 DEF Counted
  <2>4. Extended(c, c, R, <<>>)
    BY <1>1, ExtendedSame
  <2> QED BY <2>1, <2>2, <2>3, <2>4
<1> QED BY <1>2, <1>3

LEMMA CreateLogWhole ==
  ASSUME NEW R, NEW M, NEW c, NEW bound \in Nat, Whole(c, R, M, bound), Sized(R),
         bound <= MaxFileLength + RecordLen, c.there, c.buffer = <<>>, c.use = 0,
         NEW now \in Nat, NEW opens \in BOOLEAN
  PROVE  LET d == CreateLog(c, now, opens)
         IN /\ Whole(d, R, M, MaxFileLength)
            /\ d.there /\ d.buffer = <<>> /\ d.log = IF opens THEN now ELSE Closed
            /\ opens => DOMAIN d.files = DOMAIN c.files \cup {now} /\ d.files[now] = <<>>
            /\ ~opens => DOMAIN d.files = DOMAIN c.files
            /\ \A s \in DOMAIN c.files : s # now => d.files[s] = c.files[s]
            /\ ~opens => d.files = c.files
<1> DEFINE d == CreateLog(c, now, opens)
<1>1. Shape(c, R, M) /\ Counted(c) /\ Bounded(c, bound)
  BY DEF Whole
<1>2. ASSUME NEW s \in DOMAIN c.files PROVE Size(c.files[s]) < MaxFileLength + RecordLen
  <2>1. CASE s # c.log
    BY <1>1, <2>1 DEF Bounded
  <2>2. CASE s = c.log
    <3>1. s \in Nat /\ Closed \notin Nat /\ c.files[s] \in Seq(R) /\ c.use \in Nat
      BY <1>1 DEF Shape, Closed
    <3>2. c.len < bound /\ c.len = Size(c.files[s]) + c.use
      BY <1>1, <2>2, <3>1 DEF Bounded, Counted
    <3>3. Size(c.files[s]) \in Nat
      BY <3>1, SizeNat
    <3> QED BY <3>1, <3>2, <3>3, FileAssumption
  <2> QED BY <2>1, <2>2
<1>3. CASE opens
  <2>1. d = [c EXCEPT !.log = now, !.len = 0, !.files = Emptied(@, now)]
    BY <1>3 DEF CreateLog
  <2>2. d = [there |-> c.there, log |-> now, mem |-> c.mem, buffer |-> c.buffer,
             use |-> c.use, len |-> 0, files |-> Emptied(c.files, now)]
    BY <1>1, <2>1 DEF Shape
  <2>3. /\ d.there = c.there /\ d.log = now /\ d.mem = c.mem /\ d.buffer = <<>>
        /\ d.use = 0 /\ d.len = 0 /\ d.files = Emptied(c.files, now)
        /\ d = [there |-> d.there, log |-> d.log, mem |-> d.mem,
                buffer |-> d.buffer, use |-> d.use, len |-> d.len, files |-> d.files]
    BY <2>2
  <2> HIDE DEF d
  <2>4. /\ DOMAIN d.files = DOMAIN c.files \cup {now}
        /\ d.files[now] = <<>>
        /\ \A s \in DOMAIN c.files : s # now => d.files[s] = c.files[s]
        /\ d.files = [s \in DOMAIN d.files |-> d.files[s]]
    BY <2>3 DEF Emptied
  <2>5. DOMAIN c.files \subseteq Nat /\ c.files \in [DOMAIN c.files -> Seq(R)]
    BY <1>1 DEF Shape
  <2>6. d.files \in [DOMAIN d.files -> Seq(R)]
    <3>1. ASSUME NEW s \in DOMAIN d.files PROVE d.files[s] \in Seq(R)
      <4>1. CASE s = now
        BY <2>4, <4>1, EmptySeq
      <4>2. CASE s # now
        BY <2>4, <2>5, <4>2
      <4> QED BY <4>1, <4>2
    <3> QED BY <2>4, <3>1
  <2>7. Shape(d, R, M)
    BY <1>1, <2>3, <2>4, <2>5, <2>6, EmptySeq DEF Shape
  <2>8. Counted(d)
    <3>1. now # Closed /\ 0 <= c.mem
      BY <1>1 DEF Closed, Counted
    <3> QED BY <2>3, <2>4, <3>1, SizeEmpty DEF Counted
  <2>9. Bounded(d, MaxFileLength)
    BY <1>2, <2>3, <2>4, FileAssumption DEF Bounded
  <2> QED BY <1>3, <2>3, <2>4, <2>7, <2>8, <2>9 DEF d, Whole
<1>4. CASE ~opens
  <2>1. d = [c EXCEPT !.log = Closed, !.len = IF c.log = Closed THEN @ ELSE 0]
    BY <1>4 DEF CreateLog
  <2>2. d = [there |-> c.there, log |-> Closed, mem |-> c.mem, buffer |-> c.buffer,
             use |-> c.use, len |-> IF c.log = Closed THEN c.len ELSE 0,
             files |-> c.files]
    BY <1>1, <2>1 DEF Shape
  <2>3. /\ d.there = c.there /\ d.log = Closed /\ d.mem = c.mem /\ d.buffer = <<>>
        /\ d.use = 0 /\ d.len \in Nat /\ d.files = c.files
        /\ d = [there |-> d.there, log |-> d.log, mem |-> d.mem,
                buffer |-> d.buffer, use |-> d.use, len |-> d.len, files |-> d.files]
    BY <1>1, <2>2 DEF Shape
  <2> HIDE DEF d
  <2>4. Shape(d, R, M)
    BY <1>1, <2>3, EmptySeq DEF Shape
  <2>5. Counted(d)
    BY <1>1, <2>3, SizeEmpty DEF Counted
  <2>6. Bounded(d, MaxFileLength)
    BY <1>2, <2>3 DEF Bounded
  <2> QED BY <1>4, <2>3, <2>4, <2>5, <2>6 DEF d, Whole
<1> QED BY <1>3, <1>4

LEMMA ExtendedTwice ==
  ASSUME NEW R, NEW M, NEW c, NEW d, NEW e, NEW a \in Seq(R), NEW b \in Seq(R),
         Shape(c, R, M), Shape(d, R, M), Shape(e, R, M), d.log = c.log,
         Extended(c, d, R, a), Extended(d, e, R, b)
  PROVE  Extended(c, e, R, a \o b)
<1>1. PICK t \in Seq(R) :
        /\ t \o d.buffer = c.buffer \o a
        /\ c.log = Closed => t = <<>> /\ d.files = c.files
        /\ c.log # Closed => d.files = [c.files EXCEPT ![c.log] = @ \o t]
  BY DEF Extended
<1>2. PICK u \in Seq(R) :
        /\ u \o e.buffer = d.buffer \o b
        /\ c.log = Closed => u = <<>> /\ e.files = d.files
        /\ c.log # Closed => e.files = [d.files EXCEPT ![c.log] = @ \o u]
  BY DEF Extended
<1>3. c.buffer \in Seq(R) /\ d.buffer \in Seq(R) /\ e.buffer \in Seq(R)
  BY DEF Shape
<1>4. t \o u \in Seq(R)
  BY ConcatProperties
<1>5. Associative(R)
  BY ConcatIsAssociative
<1>6. (t \o u) \o e.buffer = c.buffer \o (a \o b)
  <2>1. (t \o u) \o e.buffer = t \o (u \o e.buffer)
    BY <1>3, <1>5, Zenon DEF Associative
  <2>2. (t \o d.buffer) \o b = t \o (d.buffer \o b)
    BY <1>3, <1>5, Zenon DEF Associative
  <2>3. (c.buffer \o a) \o b = c.buffer \o (a \o b)
    <3>1. \A s \in Seq(R) : (s \o a) \o b = s \o (a \o b)
      BY <1>5 DEF Associative
    <3> QED BY <1>3, <3>1
  <2> QED BY <1>1, <1>2, <2>1, <2>2, <2>3
<1>7. c.log = Closed => t \o u = <<>> /\ e.files = c.files
  BY <1>1, <1>2, EmptySeq, ConcatEmptySeq
<1>8. c.log # Closed => e.files = [c.files EXCEPT ![c.log] = @ \o (t \o u)]
  <2> SUFFICES ASSUME c.log # Closed
               PROVE  e.files = [c.files EXCEPT ![c.log] = @ \o (t \o u)]
    OBVIOUS
  <2>1. c.log \in DOMAIN c.files /\ c.files \in [DOMAIN c.files -> Seq(R)]
    BY DEF Shape
  <2>2. (c.files[c.log] \o t) \o u = c.files[c.log] \o (t \o u)
    <3>1. c.files[c.log] \in Seq(R)
      BY <2>1
    <3> QED BY <1>5, <3>1 DEF Associative
  <2>3. d.files[c.log] = c.files[c.log] \o t
    BY <1>1, <2>1
  <2>4. e.files = [c.files EXCEPT ![c.log] = d.files[c.log] \o u]
    BY <1>1, <1>2, <2>1
  <2> QED BY <2>2, <2>3, <2>4
<1> QED BY <1>4, <1>6, <1>7, <1>8 DEF Extended

LEMMA StoreWhole ==
  ASSUME NEW R, NEW M, NEW c, Whole(c, R, M, MaxFileLength), Sized(R), Fits(M),
         c.log # Closed, NEW r \in R
  PROVE  /\ Whole(Store(c, r), R, M, MaxFileLength + RecordLen)
         /\ Store(c, r).len = c.len + r.len
         /\ Store(c, r).log = c.log /\ Store(c, r).there = c.there
         /\ Extended(c, Store(c, r), R, <<r>>)
<1> DEFINE d == Store(c, r)
           room == IF c.use + r.len >= c.mem THEN Mem2File(c) ELSE c
<1>1. Shape(c, R, M) /\ Counted(c) /\ Bounded(c, MaxFileLength)
  BY DEF Whole
<1>2. r.len \in 1..RecordLen /\ RecordLen \in Nat /\ MaxFileLength \in Nat
  BY FileAssumption DEF Sized
<1>3. <<r>> \in Seq(R)
  OBVIOUS
<1>4. /\ c.mem \in Nat /\ c.use \in Nat /\ c.len \in Nat
      /\ c.mem = 0 \/ c.mem > RecordLen
  BY <1>1 DEF Shape, Fits
<1>5. CASE c.mem = 0
  <2>1. d = [c EXCEPT !.files[c.log] = Append(@, r), !.len = @ + r.len]
    BY <1>5 DEF Store
  <2>2. d = [there |-> c.there, log |-> c.log, mem |-> c.mem, buffer |-> c.buffer,
             use |-> c.use, len |-> c.len + r.len,
             files |-> [c.files EXCEPT ![c.log] = Append(@, r)]]
    BY <1>1, <2>1 DEF Shape
  <2>3. /\ d.there = c.there /\ d.log = c.log /\ d.mem = c.mem /\ d.buffer = c.buffer
        /\ d.use = c.use /\ d.len = c.len + r.len
        /\ d.files = [c.files EXCEPT ![c.log] = Append(@, r)]
        /\ d = [there |-> d.there, log |-> d.log, mem |-> d.mem,
                buffer |-> d.buffer, use |-> d.use, len |-> d.len, files |-> d.files]
    BY <2>2
  <2> HIDE DEF d
  <2>4. c.log \in DOMAIN c.files /\ c.files[c.log] \in Seq(R)
    BY <1>1 DEF Shape
  <2>5. /\ Append(c.files[c.log], r) \in Seq(R)
        /\ Append(c.files[c.log], r) = c.files[c.log] \o <<r>>
    BY <2>4, AppendProperties, AppendIsConcat
  <2>6. /\ DOMAIN d.files = DOMAIN c.files
        /\ d.files[c.log] = Append(c.files[c.log], r)
        /\ \A s \in DOMAIN c.files : s # c.log => d.files[s] = c.files[s]
    BY <2>3, <2>4
  <2>7. d.files \in [DOMAIN d.files -> Seq(R)]
    <3>1. c.files \in [DOMAIN c.files -> Seq(R)]
      BY <1>1 DEF Shape
    <3> QED BY <2>3, <2>5, <3>1
  <2>8. d.len \in Nat
    BY <1>2, <1>4, <2>3
  <2>9. Shape(d, R, M)
    BY <1>1, <2>3, <2>6, <2>7, <2>8 DEF Shape
  <2>10. Size(d.files[d.log]) = Size(c.files[c.log]) + r.len /\ Size(c.files[c.log]) \in Nat
    BY <2>3, <2>4, <2>6, SizeAppend, SizeNat
  <2>11. Counted(d)
    BY <1>1, <1>2, <1>4, <2>3, <2>10 DEF Counted
  <2>12. d.len < MaxFileLength + RecordLen
    BY <1>1, <1>2, <1>4, <2>3 DEF Bounded
  <2>13. Bounded(d, MaxFileLength + RecordLen)
    BY <1>1, <2>3, <2>6, <2>12 DEF Bounded
  <2>14. c.buffer = <<>>
    BY <1>1, <1>4, <1>5 DEF Counted
  <2>15. <<r>> \o d.buffer = c.buffer \o <<r>>
    BY <1>3, <2>3, <2>14, ConcatEmptySeq
  <2>16. d.files = [c.files EXCEPT ![c.log] = @ \o <<r>>]
    BY <2>3, <2>5
  <2>17. Extended(c, d, R, <<r>>)
    BY <1>3, <2>15, <2>16 DEF Extended
  <2> QED BY <2>3, <2>9, <2>11, <2>13, <2>17 DEF d, Whole
<1>6. CASE c.mem # 0
  <2>1. /\ Whole(room, R, M, MaxFileLength) /\ Extended(c, room, R, <<>>)
        /\ room.log = c.log /\ room.there = c.there /\ room.mem = c.mem
        /\ room.len = c.len /\ room.use + r.len <= room.mem
    <3>1. CASE c.use + r.len >= c.mem
      <4>1. room = Mem2File(c)
        BY <3>1
      <4> DEFINE e == Mem2File(c)
      <4>2. /\ Whole(e, R, M, MaxFileLength) /\ e.use = 0 /\ Extended(c, e, R, <<>>)
            /\ e.log = c.log /\ e.there = c.there /\ e.mem = c.mem /\ e.len = c.len
        BY Mem2FileWhole
      <4> HIDE DEF e
      <4>3. e.use + r.len <= e.mem
        BY <1>2, <1>4, <1>6, <4>2
      <4>4. room = e
        BY <4>1 DEF e
      <4> HIDE DEF room
      <4> QED BY <4>2, <4>3, <4>4
    <3>2. CASE ~(c.use + r.len >= c.mem)
      <4>1. room = c
        BY <3>2
      <4> QED BY <1>1, <1>2, <1>4, <3>2, <4>1, ExtendedSame
    <3> QED BY <3>1, <3>2
  <2>2. d = [room EXCEPT !.buffer = Append(@, r), !.use = @ + r.len, !.len = @ + r.len]
    BY <1>6 DEF Store
  <2> HIDE DEF room
  <2>3. Shape(room, R, M) /\ Counted(room) /\ Bounded(room, MaxFileLength)
    BY <2>1 DEF Whole
  <2>4. d = [there |-> room.there, log |-> room.log, mem |-> room.mem,
             buffer |-> Append(room.buffer, r), use |-> room.use + r.len,
             len |-> room.len + r.len, files |-> room.files]
    BY <2>2, <2>3 DEF Shape
  <2>5. /\ d.there = room.there /\ d.log = room.log /\ d.mem = room.mem
        /\ d.buffer = Append(room.buffer, r) /\ d.use = room.use + r.len
        /\ d.len = room.len + r.len /\ d.files = room.files
        /\ d = [there |-> d.there, log |-> d.log, mem |-> d.mem,
                buffer |-> d.buffer, use |-> d.use, len |-> d.len, files |-> d.files]
    BY <2>4
  <2> HIDE DEF d
  <2>6. room.buffer \in Seq(R) /\ room.use \in Nat /\ room.len \in Nat
    BY <2>3 DEF Shape
  <2>7. /\ d.buffer \in Seq(R) /\ d.buffer = room.buffer \o <<r>>
        /\ Size(d.buffer) = Size(room.buffer) + r.len
    BY <2>5, <2>6, AppendProperties, AppendIsConcat, SizeAppend
  <2>8. Shape(d, R, M)
    BY <1>2, <2>3, <2>5, <2>6, <2>7 DEF Shape
  <2>9. Counted(d)
    <3>1. room.log # Closed /\ room.files[room.log] \in Seq(R)
      BY <2>1, <2>3 DEF Shape
    <3>2. Size(room.files[room.log]) \in Nat
      BY <3>1, SizeNat
    <3>3. d.use <= d.mem /\ d.use # 0
      BY <1>2, <2>1, <2>5, <2>6
    <3>4. d.use = Size(d.buffer)
      BY <2>3, <2>5, <2>7 DEF Counted
    <3>5. d.len = Size(d.files[d.log]) + d.use /\ d.there
      BY <1>2, <2>3, <2>5, <2>6, <3>1, <3>2 DEF Counted
    <3> QED BY <2>5, <3>1, <3>3, <3>4, <3>5 DEF Counted
  <2>10. Bounded(d, MaxFileLength + RecordLen)
    <3>1. d.log # Closed => d.len < MaxFileLength + RecordLen
      BY <1>2, <2>3, <2>5, <2>6 DEF Bounded
    <3> QED BY <2>3, <2>5, <3>1 DEF Bounded
  <2>11. Extended(room, d, R, <<r>>)
    <3>1. <<>> \in Seq(R) /\ <<>> \o d.buffer = room.buffer \o <<r>>
      BY <2>7, EmptySeq, ConcatEmptySeq
    <3>2. d.files = [room.files EXCEPT ![room.log] = @ \o <<>>]
      <4>1. room.log \in DOMAIN room.files /\ room.files \in [DOMAIN room.files -> Seq(R)]
        BY <2>1, <2>3 DEF Shape
      <4>2. room.files[room.log] \o <<>> = room.files[room.log]
        BY <4>1, ConcatEmptySeq
      <4> QED BY <2>5, <4>1, <4>2
    <3> QED BY <2>1, <2>5, <3>1, <3>2 DEF Extended
  <2>12. Extended(c, d, R, <<>> \o <<r>>)
    BY <1>1, <1>3, <2>1, <2>3, <2>8, <2>11, EmptySeq, ExtendedTwice
  <2>13. <<>> \o <<r>> = <<r>>
    BY <1>3, ConcatEmptySeq
  <2> QED BY <2>1, <2>5, <2>8, <2>9, <2>10, <2>12, <2>13 DEF d, Whole
<1> QED BY <1>5, <1>6

LEMMA SetFlushBufferWhole ==
  ASSUME NEW R, NEW M, NEW c, NEW bound, Whole(c, R, M, bound), Sized(R), Fits(M),
         NEW iLen \in M
  PROVE  /\ Whole(SetFlushBuffer(c, iLen), R, M, bound)
         /\ SetFlushBuffer(c, iLen).log = c.log
         /\ SetFlushBuffer(c, iLen).there = c.there
         /\ Extended(c, SetFlushBuffer(c, iLen), R, <<>>)
<1> DEFINE m == Mem2File(c)
           d == SetFlushBuffer(c, iLen)
<1>1. /\ Shape(m, R, M) /\ Counted(m) /\ Bounded(m, bound)
      /\ m.buffer = <<>> /\ m.use = 0 /\ m.log = c.log /\ m.there = c.there
      /\ Extended(c, m, R, <<>>)
  BY Mem2FileWhole DEF Whole
<1>2. d = [m EXCEPT !.mem = iLen, !.buffer = <<>>]
  BY DEF SetFlushBuffer
<1> HIDE DEF m
<1>3. d = [there |-> m.there, log |-> m.log, mem |-> iLen, buffer |-> <<>>,
           use |-> m.use, len |-> m.len, files |-> m.files]
  BY <1>1, <1>2 DEF Shape
<1>4. /\ d.there = m.there /\ d.log = m.log /\ d.mem = iLen /\ d.buffer = <<>>
      /\ d.use = 0 /\ d.len = m.len /\ d.files = m.files
      /\ d = [there |-> d.there, log |-> d.log, mem |-> d.mem,
              buffer |-> d.buffer, use |-> d.use, len |-> d.len, files |-> d.files]
  BY <1>1, <1>3
<1> HIDE DEF d
<1>5. iLen \in Nat
  BY DEF Fits
<1>6. Shape(d, R, M)
  BY <1>1, <1>4, EmptySeq DEF Shape
<1>7. Counted(d)
  BY <1>1, <1>4, <1>5, SizeEmpty DEF Counted
<1>8. Bounded(d, bound)
  BY <1>1, <1>4 DEF Bounded
<1>9. Extended(c, d, R, <<>>)
  <2>1. d.buffer = m.buffer /\ d.files = m.files
    BY <1>1, <1>4
  <2> QED BY <1>1, <2>1 DEF Extended
<1> QED BY <1>1, <1>4, <1>6, <1>7, <1>8, <1>9 DEF d, Whole

(* What opening a file leaves of a directory.                              *)
Created(before, after, now, opens) ==
  after = IF opens THEN Emptied(before, now) ELSE before

LEMMA OpenWhole ==
  ASSUME NEW R, NEW M, NEW c, Whole(c, R, M, MaxFileLength), Sized(R), Fits(M),
         NEW iMemSize \in M \cup {0}, NEW now \in Nat, NEW opens \in BOOLEAN
  PROVE  LET d == CreateLog(Initialize(c, iMemSize), now, opens)
         IN /\ Whole(d, R, M, MaxFileLength)
            /\ d.there /\ d.buffer = <<>>
            /\ d.log = IF opens THEN now ELSE Closed
            /\ Created(c.files, d.files, now, opens)
<1> DEFINE a == Absent(c.files)
           i == Initialize(c, iMemSize)
           d == CreateLog(i, now, opens)
<1>1. MaxFileLength \in Nat /\ MaxFileLength <= MaxFileLength + RecordLen
  BY FileAssumption
<1>2. Shape(a, R, M) /\ Counted(a) /\ Bounded(a, MaxFileLength)
  BY <1>1, AbsentWhole DEF Whole
<1>3. /\ a.log = Closed /\ a.buffer = <<>> /\ a.use = 0 /\ a.files = c.files
      /\ i = [a EXCEPT !.there = TRUE, !.mem = iMemSize]
  BY DEF Absent, Initialize
<1> HIDE DEF a
<1>4. i = [there |-> TRUE, log |-> a.log, mem |-> iMemSize, buffer |-> a.buffer,
           use |-> a.use, len |-> a.len, files |-> a.files]
  BY <1>2, <1>3 DEF Shape
<1>5. /\ i.there = TRUE /\ i.log = Closed /\ i.mem = iMemSize /\ i.buffer = <<>>
      /\ i.use = 0 /\ i.len = a.len /\ i.files = c.files /\ i.files = a.files
      /\ i = [there |-> i.there, log |-> i.log, mem |-> i.mem,
              buffer |-> i.buffer, use |-> i.use, len |-> i.len, files |-> i.files]
  BY <1>3, <1>4
<1> HIDE DEF i
<1>6. iMemSize \in Nat
  BY DEF Fits
<1>7. Shape(i, R, M)
  <2>1. i.there \in BOOLEAN
    BY <1>5
  <2>2. /\ i.log \in {Closed} \cup DOMAIN i.files /\ i.mem \in M \cup {0}
        /\ i.use \in Nat /\ i.len \in Nat /\ i.buffer \in Seq(R)
    BY <1>2, <1>5, EmptySeq DEF Shape
  <2>3. DOMAIN i.files \subseteq Nat /\ i.files \in [DOMAIN i.files -> Seq(R)]
    BY <1>2, <1>5 DEF Shape
  <2> QED BY <1>5, <2>1, <2>2, <2>3 DEF Shape
<1>8. Counted(i)
  BY <1>5, <1>6, SizeEmpty DEF Counted
<1>9. Bounded(i, MaxFileLength)
  BY <1>2, <1>3, <1>5 DEF Bounded
<1>10. /\ Whole(d, R, M, MaxFileLength)
       /\ d.there /\ d.buffer = <<>> /\ d.log = IF opens THEN now ELSE Closed
  BY <1>1, <1>5, <1>7, <1>8, <1>9, CreateLogWhole DEF Whole
<1>11. Created(c.files, d.files, now, opens)
  <2>1. d = IF opens
              THEN [i EXCEPT !.log = now, !.len = 0, !.files = Emptied(@, now)]
              ELSE [i EXCEPT !.log = Closed, !.len = IF i.log = Closed THEN @ ELSE 0]
    BY DEF CreateLog
  <2>2. d.files = IF opens THEN Emptied(i.files, now) ELSE i.files
    BY <1>5, <2>1
  <2> QED BY <1>5, <2>2 DEF Created
<1> QED BY <1>10, <1>11 DEF i

(* From c to d the file in use has got all records, and another one has    *)
(* been opened if that was possible.                                       *)
Replaced(c, d, R, M, new, now) ==
  \E opens \in BOOLEAN : \E e :
    /\ Whole(e, R, M, MaxFileLength + RecordLen)
    /\ Extended(c, e, R, new)
    /\ e.buffer = <<>> /\ e.log = c.log
    /\ d.buffer = <<>>
    /\ d.log = IF opens THEN now ELSE Closed
    /\ Created(e.files, d.files, now, opens)

LEMMA LogMsgWhole ==
  ASSUME NEW R, NEW M, NEW c, Whole(c, R, M, MaxFileLength), Sized(R), Fits(M),
         NEW r \in R, NEW now \in Nat, NEW opens \in BOOLEAN,
         NEW d, d = LogMsg(c, r, now, opens)
  PROVE  /\ Whole(d, R, M, MaxFileLength)
         /\ d.there = c.there
         /\ c.log = Closed => d = c
         /\ c.log # Closed /\ ~Rotates(c, r) =>
              d.log = c.log /\ Extended(c, d, R, <<r>>)
         /\ c.log # Closed /\ Rotates(c, r) => Replaced(c, d, R, M, <<r>>, now)
<1> DEFINE s == Store(c, r)
           e == Mem2File(s)
           bound == MaxFileLength + RecordLen
<1>1. CASE c.log = Closed
  BY <1>1 DEF LogMsg
<1>2. CASE c.log # Closed
  <2>1. /\ Whole(s, R, M, bound) /\ s.log = c.log
        /\ s.there = c.there /\ Extended(c, s, R, <<r>>)
    BY <1>2, StoreWhole
  <2>2. CASE ~Rotates(c, r)
    <3>1. d = s
      BY <1>2, <2>2 DEF LogMsg
    <3>2. s.len < MaxFileLength
      BY <1>2, <2>1, <2>2, FileAssumption DEF Rotates, Whole, Shape
    <3> HIDE DEF s
    <3>3. Whole(s, R, M, MaxFileLength)
      BY <2>1, <3>2 DEF Whole, Bounded
    <3> QED BY <1>2, <2>1, <2>2, <3>1, <3>3
  <2>3. CASE Rotates(c, r)
    <3>1. d = CreateLog(e, now, opens)
      BY <1>2, <2>3 DEF LogMsg
    <3> HIDE DEF s
    <3>2. /\ Whole(e, R, M, bound) /\ e.buffer = <<>> /\ e.use = 0
          /\ e.log = c.log /\ e.there = c.there /\ Extended(s, e, R, <<>>)
      BY <2>1, Mem2FileWhole
    <3> HIDE DEF e
    <3>3. Shape(c, R, M) /\ Shape(s, R, M) /\ Shape(e, R, M)
      BY <2>1, <3>2 DEF Whole
    <3>4. <<r>> \in Seq(R) /\ <<>> \in Seq(R) /\ <<r>> \o <<>> = <<r>>
      BY EmptySeq, ConcatEmptySeq
    <3>5. Extended(c, e, R, <<r>> \o <<>>)
      BY <2>1, <3>2, <3>3, <3>4, ExtendedTwice
    <3>6. e.there
      BY <1>2, <3>2 DEF Whole, Counted
    <3>7. bound \in Nat /\ bound <= bound
      BY FileAssumption
    <3>8. /\ Whole(d, R, M, MaxFileLength) /\ d.there /\ d.buffer = <<>>
          /\ d.log = IF opens THEN now ELSE Closed
      BY <3>1, <3>2, <3>6, <3>7, CreateLogWhole
    <3>9. Created(e.files, d.files, now, opens)
      <4>1. d = IF opens
                  THEN [e EXCEPT !.log = now, !.len = 0, !.files = Emptied(@, now)]
                  ELSE [e EXCEPT !.log = Closed, !.len = IF e.log = Closed THEN @ ELSE 0]
        BY <3>1 DEF CreateLog
      <4>2. e = [there |-> e.there, log |-> e.log, mem |-> e.mem,
                 buffer |-> e.buffer, use |-> e.use, len |-> e.len, files |-> e.files]
        BY <3>3 DEF Shape
      <4>3. d.files = IF opens THEN Emptied(e.files, now) ELSE e.files
        BY <4>1, <4>2
      <4> QED BY <4>3 DEF Created
    <3>10. d.there = c.there
      BY <1>2, <3>2, <3>6, <3>8 DEF Whole, Shape
    <3>11. Extended(c, e, R, <<r>>)
      BY <3>4, <3>5
    <3>12. Replaced(c, d, R, M, <<r>>, now)
      BY <3>2, <3>8, <3>9, <3>11 DEF Replaced
    <3> QED BY <1>2, <2>3, <3>8, <3>10, <3>12
  <2> QED BY <2>2, <2>3
<1> QED BY <1>1, <1>2

-----------------------------------------------------------------------------
(* What becomes of the records kept.                                       *)

(* The file in use is the last one.                                        *)
Latest(c, now) ==
  /\ \A s \in DOMAIN c.files : s <= now
  /\ c.log # Closed => \A s \in DOMAIN c.files : s <= c.log

(* One sequence of records goes on where another one ends.                 *)
GoesOn(longer, shorter, R) == \E t \in Seq(R) : longer = shorter \o t

(* All the records, and what they are with new ones.                       *)
AllOf(c, now) == Kept(c, now) \o c.buffer
AllWith(c, now, new) == AllOf(c, now) \o new

(* Some of the records in the block and of the new ones have been kept.    *)
Moved(c, d, R, now, new) ==
  \E t \in Seq(R) : /\ Kept(d, now) = Kept(c, now) \o t
                     /\ t \o d.buffer = c.buffer \o new

LEMMA ShapeFiles ==
  ASSUME NEW R, NEW M, NEW c, Shape(c, R, M)
  PROVE  FilesOver(c, R)
BY DEF Shape, FilesOver

LEMMA ExtendedFiles ==
  ASSUME NEW R, NEW M, NEW c, NEW d, NEW new, Shape(c, R, M), Extended(c, d, R, new)
  PROVE  /\ DOMAIN d.files = DOMAIN c.files
         /\ \A s \in DOMAIN c.files :
              /\ s # c.log => d.files[s] = c.files[s]
              /\ \E t \in Seq(R) : d.files[s] = c.files[s] \o t
<1>1. PICK t \in Seq(R) :
        /\ c.log = Closed => t = <<>> /\ d.files = c.files
        /\ c.log # Closed => d.files = [c.files EXCEPT ![c.log] = @ \o t]
  BY DEF Extended
<1>2. /\ c.files \in [DOMAIN c.files -> Seq(R)]
      /\ c.log # Closed => c.log \in DOMAIN c.files
  BY DEF Shape
<1>3. /\ DOMAIN d.files = DOMAIN c.files
      /\ \A s \in DOMAIN c.files : s # c.log => d.files[s] = c.files[s]
  BY <1>1, <1>2
<1>4. ASSUME NEW s \in DOMAIN c.files
      PROVE  \E u \in Seq(R) : d.files[s] = c.files[s] \o u
  <2>1. c.files[s] \in Seq(R) /\ <<>> \in Seq(R)
    BY <1>2, EmptySeq
  <2>2. c.files[s] \o <<>> = c.files[s]
    BY <2>1, ConcatEmptySeq
  <2>3. CASE c.log = Closed \/ s # c.log
    <3>1. d.files[s] = c.files[s]
      BY <1>1, <1>3, <2>3
    <3> QED BY <2>1, <2>2, <3>1
  <2>4. CASE ~(c.log = Closed \/ s # c.log)
    <3>1. d.files[s] = c.files[s] \o t
      BY <1>1, <1>2, <2>4
    <3> QED BY <3>1
  <2> QED BY <2>3, <2>4
<1> QED BY <1>3, <1>4

(* A controller whose last file is the one in use, after one of its files  *)
(* has grown.                                                              *)
LEMMA ExtendedLatest ==
  ASSUME NEW R, NEW M, NEW c, NEW d, NEW new, NEW now, Shape(c, R, M),
         Extended(c, d, R, new), d.log = c.log, Latest(c, now)
  PROVE  Latest(d, now)
BY ExtendedFiles DEF Latest

LEMMA CreatedLatest ==
  ASSUME NEW c, NEW d, NEW now \in Nat, NEW opens \in BOOLEAN,
         Created(c.files, d.files, now, opens), Latest(c, now),
         d.log = IF opens THEN now ELSE Closed
  PROVE  Latest(d, now)
<1>1. CASE opens
  <2>1. DOMAIN d.files = DOMAIN c.files \cup {now} /\ d.log = now
    BY <1>1 DEF Created, Emptied
  <2> QED BY <2>1 DEF Latest
<1>2. CASE ~opens
  BY <1>2 DEF Created, Latest
<1> QED BY <1>1, <1>2

LEMMA ReplacedLatest ==
  ASSUME NEW R, NEW M, NEW c, NEW d, NEW new, NEW now \in Nat, Shape(c, R, M),
         Replaced(c, d, R, M, new, now), Latest(c, now)
  PROVE  Latest(d, now)
<1>1. PICK opens \in BOOLEAN :
        \E e : /\ Extended(c, e, R, new) /\ e.log = c.log
               /\ d.log = IF opens THEN now ELSE Closed
               /\ Created(e.files, d.files, now, opens)
  BY Zenon DEF Replaced
<1>2. PICK e : /\ Extended(c, e, R, new) /\ e.log = c.log
               /\ d.log = IF opens THEN now ELSE Closed
               /\ Created(e.files, d.files, now, opens)
  BY <1>1
<1>3. Latest(e, now)
  BY <1>2, ExtendedLatest
<1> QED BY <1>2, <1>3, CreatedLatest

LEMMA ExtendedKept ==
  ASSUME NEW R, NEW M, NEW c, NEW d, NEW new \in Seq(R), NEW now \in Nat,
         Shape(c, R, M), Shape(d, R, M), Extended(c, d, R, new), Latest(c, now)
  PROVE  Moved(c, d, R, now, new)
<1>1. PICK t \in Seq(R) :
        /\ t \o d.buffer = c.buffer \o new
        /\ c.log = Closed => t = <<>> /\ d.files = c.files
        /\ c.log # Closed => d.files = [c.files EXCEPT ![c.log] = @ \o t]
  BY DEF Extended
<1>2. FilesOver(c, R) /\ FilesOver(d, R)
  BY ShapeFiles
<1>3. Kept(c, now) \in Seq(R)
  BY <1>2, KeptType
<1>4. CASE c.log = Closed
  <2>1. \A s : FileOf(c, s) = FileOf(d, s)
    BY <1>1, <1>4 DEF FileOf
  <2>2. Kept(c, now) = Kept(d, now)
    BY <1>2, <2>1, KeptSame
  <2>3. Kept(c, now) \o <<>> = Kept(c, now)
    BY <1>3, ConcatEmptySeq
  <2> QED BY <1>1, <1>4, <2>2, <2>3 DEF Moved
<1>5. CASE c.log # Closed
  <2> DEFINE L == c.log
  <2>1. /\ L \in DOMAIN c.files /\ L \in Nat /\ L <= now
        /\ c.files \in [DOMAIN c.files -> Seq(R)]
        /\ DOMAIN c.files \subseteq Nat /\ \A s \in DOMAIN c.files : s <= L
    BY <1>5 DEF Shape, Latest
  <2>2. d.files = [c.files EXCEPT ![L] = @ \o t]
    BY <1>1, <1>5
  <2> HIDE DEF L
  <2>3. /\ DOMAIN d.files = DOMAIN c.files
        /\ d.files[L] = c.files[L] \o t
        /\ \A s \in DOMAIN c.files : s # L => d.files[s] = c.files[s]
    BY <2>1, <2>2
  <2>4. \A s \in (L + 1)..now : FileOf(c, s) = <<>> /\ FileOf(d, s) = <<>>
    <3> SUFFICES ASSUME NEW s \in (L + 1)..now PROVE s \notin DOMAIN c.files
      BY <2>3 DEF FileOf
    <3> QED BY <2>1
  <2>5. Kept(c, now) = Kept(c, L) /\ Kept(d, now) = Kept(d, L)
    BY <1>2, <2>1, <2>4, KeptBeyond
  <2>6. \A s \in 0..(L - 1) : FileOf(c, s) = FileOf(d, s)
    <3> SUFFICES ASSUME NEW s \in 0..(L - 1) PROVE FileOf(c, s) = FileOf(d, s)
      OBVIOUS
    <3>1. s # L
      BY <2>1
    <3> QED BY <2>3, <3>1 DEF FileOf
  <2>7. Kept(c, L - 1) = Kept(d, L - 1)
    BY <1>2, <2>1, <2>6, KeptAgree
  <2>8. /\ Kept(c, L) = Kept(c, L - 1) \o FileOf(c, L)
        /\ Kept(c, L - 1) \in Seq(R)
        /\ Kept(d, L) = Kept(d, L - 1) \o FileOf(d, L)
    BY <1>2, <2>1, KeptStep
  <2>9. FileOf(c, L) = c.files[L] /\ FileOf(d, L) = c.files[L] \o t /\ c.files[L] \in Seq(R)
    BY <2>1, <2>3 DEF FileOf
  <2>10. (Kept(c, L - 1) \o c.files[L]) \o t = Kept(c, L - 1) \o (c.files[L] \o t)
    <3>1. Associative(R)
      BY ConcatIsAssociative
    <3>2. \A a, b \in Seq(R) : (a \o b) \o t = a \o (b \o t)
      BY <3>1 DEF Associative
    <3> QED BY <2>8, <2>9, <3>2
  <2>11. Kept(d, now) = Kept(c, now) \o t
    BY <2>5, <2>7, <2>8, <2>9, <2>10
  <2> QED BY <1>1, <2>11 DEF Moved
<1> QED BY <1>4, <1>5

(* Records that were in the block have become kept ones, with new ones.    *)
LEMMA ExtendedMoves ==
  ASSUME NEW R, NEW M, NEW c, NEW d, NEW new \in Seq(R), NEW now \in Nat,
         Shape(c, R, M), Shape(d, R, M), Extended(c, d, R, new), Latest(c, now)
  PROVE  /\ AllOf(d, now) = AllWith(c, now, new)
         /\ Len(Kept(d, now)) >= Len(Kept(c, now))
<1>1. Moved(c, d, R, now, new)
  BY ExtendedKept
<1>2. PICK t \in Seq(R) : /\ Kept(d, now) = Kept(c, now) \o t
                          /\ t \o d.buffer = c.buffer \o new
  BY <1>1 DEF Moved
<1> DEFINE k == Kept(c, now)  b == c.buffer  x == d.buffer
<1>3. k \in Seq(R) /\ b \in Seq(R) /\ x \in Seq(R)
  BY ShapeFiles, KeptType DEF Shape
<1>4. (k \o t) \o x = k \o (t \o x)
  <2> HIDE DEF k, b, x
  <2>1. Associative(R)
    BY ConcatIsAssociative
  <2> QED BY <1>3, <2>1, Zenon DEF Associative
<1>5. k \o (b \o new) = (k \o b) \o new
  <2> HIDE DEF k, b, x
  <2>1. Associative(R) /\ new \in Seq(R)
    BY ConcatIsAssociative
  <2> QED BY <1>3, <2>1, Zenon DEF Associative
<1>6. Len(k \o t) = Len(k) + Len(t) /\ Len(k) \in Nat /\ Len(t) \in Nat
  BY <1>3, ConcatProperties, LenProperties
<1>7. Len(k \o t) >= Len(k)
  BY <1>6
<1> QED BY <1>2, <1>4, <1>5, <1>7, Zenon DEF AllOf, AllWith

(* When this second's file is empty, what is left is a beginning.          *)
LEMMA EmptiedKept ==
  ASSUME NEW R, NEW c, NEW d, NEW now \in Nat, FilesOver(c, R), FilesOver(d, R),
         \A s \in 0..(now - 1) : FileOf(c, s) = FileOf(d, s), FileOf(d, now) = <<>>
  PROVE  GoesOn(Kept(c, now), Kept(d, now), R)
<1>1. Kept(c, now - 1) = Kept(d, now - 1)
  BY KeptAgree
<1>2. /\ Kept(c, now) = Kept(c, now - 1) \o FileOf(c, now)
      /\ Kept(c, now - 1) \in Seq(R)
      /\ Kept(d, now) = Kept(d, now - 1) \o FileOf(d, now)
  BY KeptStep
<1>3. Kept(d, now) = Kept(c, now - 1)
  BY <1>1, <1>2, ConcatEmptySeq
<1>4. FileOf(c, now) \in Seq(R)
  BY FileOfType
<1> QED BY <1>2, <1>3, <1>4 DEF GoesOn

LEMMA CreatedFiles ==
  ASSUME NEW c, NEW d, NEW now \in Nat, NEW opens \in BOOLEAN,
         Created(c.files, d.files, now, opens)
  PROVE  /\ \A s \in 0..(now - 1) : FileOf(c, s) = FileOf(d, s)
         /\ opens => FileOf(d, now) = <<>>
         /\ ~opens \/ now \notin DOMAIN c.files => \A s : FileOf(c, s) = FileOf(d, s)
<1>1. CASE ~opens
  BY <1>1 DEF FileOf, Created
<1>2. CASE opens
  <2>1. d.files = Emptied(c.files, now)
    BY <1>2 DEF Created
  <2>2. /\ DOMAIN d.files = DOMAIN c.files \cup {now} /\ d.files[now] = <<>>
        /\ \A s \in DOMAIN c.files : s # now => d.files[s] = c.files[s]
    BY <2>1 DEF Emptied
  <2>3. \A s \in 0..(now - 1) : s # now
    OBVIOUS
  <2> QED BY <1>2, <2>2, <2>3 DEF FileOf
<1> QED BY <1>1, <1>2

(* A new file of this second changes nothing; a second one loses what the  *)
(* first one of this second had.                                           *)
LEMMA CreatedKept ==
  ASSUME NEW R, NEW c, NEW d, NEW now \in Nat, NEW opens \in BOOLEAN,
         FilesOver(c, R), FilesOver(d, R), Created(c.files, d.files, now, opens)
  PROVE  \/ Kept(d, now) = Kept(c, now)
         \/ now \in DOMAIN c.files /\ GoesOn(Kept(c, now), Kept(d, now), R)
<1>1. CASE ~opens \/ now \notin DOMAIN c.files
  <2>1. \A s : FileOf(c, s) = FileOf(d, s)
    BY <1>1, CreatedFiles, ZenonT(30)
  <2> QED BY <2>1, KeptSame
<1>2. CASE opens /\ now \in DOMAIN c.files
  <2>1. (\A s \in 0..(now - 1) : FileOf(c, s) = FileOf(d, s)) /\ FileOf(d, now) = <<>>
    BY <1>2, CreatedFiles
  <2> QED BY <1>2, <2>1, EmptiedKept
<1> QED BY <1>1, <1>2

(* A record that makes a file too long, and then another file: all is in   *)
(* the files, or the file was of this second and what is left is a         *)
(* beginning of what was kept before.                                      *)
LEMMA ReplacedKept ==
  ASSUME NEW R, NEW M, NEW c, NEW d, NEW new \in Seq(R), NEW now \in Nat,
         Shape(c, R, M), Shape(d, R, M), c.log # Closed, Latest(c, now),
         Replaced(c, d, R, M, new, now)
  PROVE  \/ Kept(d, now) = AllWith(c, now, new) /\ Len(Kept(d, now)) >= Len(Kept(c, now))
         \/ now \in DOMAIN c.files /\ GoesOn(Kept(c, now), Kept(d, now), R)
<1>1. PICK opens \in BOOLEAN :
        \E e : /\ Whole(e, R, M, MaxFileLength + RecordLen)
               /\ Extended(c, e, R, new) /\ e.buffer = <<>>
               /\ Created(e.files, d.files, now, opens)
  BY Zenon DEF Replaced
<1>2. PICK e : /\ Whole(e, R, M, MaxFileLength + RecordLen)
               /\ Extended(c, e, R, new) /\ e.buffer = <<>>
               /\ Created(e.files, d.files, now, opens)
  BY <1>1
<1>3. Shape(e, R, M)
  BY <1>2 DEF Whole
<1>4. FilesOver(c, R) /\ FilesOver(e, R) /\ FilesOver(d, R)
  BY <1>3, ShapeFiles
<1>5. /\ DOMAIN e.files = DOMAIN c.files
      /\ \A s \in DOMAIN c.files : s # c.log => e.files[s] = c.files[s]
  BY <1>2, ExtendedFiles
<1>6. CASE ~opens \/ now \notin DOMAIN c.files
  <2>1. Kept(d, now) = Kept(e, now)
    <3>1. ~opens \/ now \notin DOMAIN e.files
      BY <1>5, <1>6
    <3>2. \A s : FileOf(e, s) = FileOf(d, s)
      BY <1>2, <3>1, CreatedFiles, ZenonT(30)
    <3> QED BY <1>4, <3>2, KeptSame
  <2>2. AllOf(e, now) = AllWith(c, now, new) /\ Len(Kept(e, now)) >= Len(Kept(c, now))
    BY <1>2, <1>3, ExtendedMoves
  <2>3. AllOf(e, now) = Kept(e, now)
    <3>1. Kept(e, now) \in Seq(R)
      BY <1>4, KeptType
    <3> QED BY <1>2, <3>1, ConcatEmptySeq DEF AllOf
  <2> QED BY <2>1, <2>2, <2>3
<1>7. CASE opens /\ now \in DOMAIN c.files
  <2>1. c.log = now
    <3>1. c.log \in DOMAIN c.files /\ DOMAIN c.files \subseteq Nat
      BY DEF Shape
    <3>2. now <= c.log /\ c.log <= now /\ c.log \in Nat
      BY <1>7, <3>1 DEF Latest
    <3> QED BY <3>2
  <2>2. \A s \in 0..(now - 1) : FileOf(c, s) = FileOf(d, s)
    <3> SUFFICES ASSUME NEW s \in 0..(now - 1) PROVE FileOf(c, s) = FileOf(d, s)
      OBVIOUS
    <3>1. FileOf(e, s) = FileOf(d, s)
      BY <1>2, CreatedFiles
    <3>2. s # c.log
      BY <2>1
    <3>3. FileOf(c, s) = FileOf(e, s)
      BY <1>5, <3>2 DEF FileOf
    <3> QED BY <3>1, <3>3
  <2>3. FileOf(d, now) = <<>>
    BY <1>2, <1>7, CreatedFiles
  <2>4. GoesOn(Kept(c, now), Kept(d, now), R)
    BY <1>4, <2>2, <2>3, EmptiedKept
  <2> QED BY <1>7, <2>4
<1> QED BY <1>6, <1>7

(* A second without a file adds nothing.                                   *)
LEMMA TickKept ==
  ASSUME NEW R, NEW c, FilesOver(c, R), NEW now \in Nat, \A s \in DOMAIN c.files : s <= now
  PROVE  Kept(c, now + 1) = Kept(c, now)
<1>1. now + 1 \in Nat /\ now <= now + 1
  OBVIOUS
<1>2. \A s \in (now + 1)..(now + 1) : FileOf(c, s) = <<>>
  <2> SUFFICES ASSUME NEW s \in (now + 1)..(now + 1) PROVE s \notin DOMAIN c.files
    BY DEF FileOf
  <2>1. ~(s <= now)
    OBVIOUS
  <2> QED BY <2>1
<1> QED BY <1>1, <1>2, KeptBeyond
=============================================================================
