--------------------------- MODULE DownloaderProof ----------------------------
(***************************************************************************)
(* Proofs about Downloader, for every file, chunk and buffer size, every   *)
(* layout of the answers and every way recv and the connection cut them.   *)
(* First what Parse makes of any piece of an answer; then what holds with  *)
(* any server; then, with a server that answers in full, that the client   *)
(* implements Transfer; last, what the bytes of a request are.             *)
(***************************************************************************)
EXTENDS Downloader, TLAPS, WellFoundedInduction, SequenceTheorems

-----------------------------------------------------------------------------
(* Answers.                                                                *)

(* Every set of natural numbers has a least element: the library's theorem *)
(* on well-founded relations, for < on Nat.                                *)
LEMMA LeastElement ==
  ASSUME NEW S, S \subseteq Nat, S # {}
  PROVE  \E x \in S : \A y \in S : x <= y
<1>1. PICK x \in S : \A y \in S : ~(<<y, x>> \in OpToRel(<, Nat))
  BY NatLessThanWellFounded, WFMin, Zenon
<1>2. ASSUME NEW y \in S PROVE x <= y
  <2>1. ~(y < x)
    BY <1>1 DEF OpToRel
  <2> QED BY <2>1
<1> QED BY <1>2

(* Max picks the largest element of a bounded set of natural numbers.      *)
LEMMA MaxProperty ==
  ASSUME NEW S, NEW n \in Nat, S \subseteq 0..n, S # {}
  PROVE  Max(S) \in S /\ \A x \in S : x <= Max(S)
<1> DEFINE rest == {n - x : x \in S}
<1>1. PICK m \in rest : \A y \in rest : m <= y
  <2>1. ASSUME NEW x \in S PROVE n - x \in Nat
    <3>1. x \in 0..n
      OBVIOUS
    <3> QED BY <3>1
  <2>2. rest \subseteq Nat /\ rest # {}
    BY <2>1
  <2> QED BY <2>2, LeastElement, Zenon
<1>2. PICK s \in S : m = n - s
  BY <1>1
<1>3. \A x \in S : s >= x
  <2>1. ASSUME NEW x \in S PROVE s >= x
    <3>1. n - x \in rest /\ x \in 0..n /\ s \in 0..n
      OBVIOUS
    <3>2. n - s <= n - x
      BY <1>1, <1>2, <3>1
    <3> QED BY <3>1, <3>2
  <2> QED BY <2>1
<1> QED BY <1>3 DEF Max

(* The four constructors make units.                                       *)
LEMMA UnitTypes ==
  /\ \A len \in Nat : Start(len) \in Units /\ Length(len) \in Units
  /\ \A text \in Texts, num \in Nat : Text(text, num) \in Units
  /\ \A pos \in Nat, mask \in SUBSET Nat : Block(pos, mask) \in Units
<1>1. "none" \in Texts /\ {} \in SUBSET Nat /\ 0 \in Nat
  BY DEF Texts
<1>2. Kinds = {"start", "text", "length", "block"}
  BY DEF Kinds
<1>3. ASSUME NEW kind \in Kinds, NEW text \in Texts, NEW num \in Nat,
             NEW mask \in SUBSET Nat
      PROVE  Unit(kind, text, num, mask) \in Units
  BY DEF Unit, Units
<1>4. ASSUME NEW len \in Nat PROVE Start(len) \in Units /\ Length(len) \in Units
  BY <1>1, <1>2, <1>3 DEF Start, Length
<1>5. ASSUME NEW text \in Texts, NEW num \in Nat PROVE Text(text, num) \in Units
  BY <1>1, <1>2, <1>3 DEF Text
<1>6. ASSUME NEW pos \in Nat, NEW mask \in SUBSET Nat
      PROVE  Block(pos, mask) \in Units
  BY <1>1, <1>2, <1>3 DEF Block
<1> QED BY <1>4, <1>5, <1>6

(* The first "filedata" text is the one Parse stops at (main.cpp:314-317). *)
LEMMA MarkerIs ==
  ASSUME NEW buf \in Seq(Units), NEW m \in 2..Len(buf),
         buf[m].kind = "text", buf[m].text = "filedata",
         \A j \in 2..(m - 1) : buf[j].text # "filedata"
  PROVE  HasMarker(buf) /\ MarkerAt(buf) = m
<1>1. IsMarker(buf, m)
  BY DEF IsMarker
<1>2. ASSUME NEW k \in 2..Len(buf), IsMarker(buf, k) PROVE k = m
  <2>1. ~(k < m)
    BY <1>2 DEF IsMarker
  <2>2. ~(m < k)
    BY <1>2 DEF IsMarker
  <2> QED BY <2>1, <2>2
<1>3. HasMarker(buf)
  BY <1>1 DEF HasMarker
<1>4. MarkerAt(buf) \in 2..Len(buf) /\ IsMarker(buf, MarkerAt(buf))
  BY <1>1 DEF MarkerAt
<1> QED BY <1>2, <1>3, <1>4

(* When all the values of a parameter agree, Parse ends up with that value *)
(* (main.cpp:287-312).                                                     *)
LEMMA LastValueFound ==
  ASSUME NEW buf \in Seq(Units), NEW name, NEW default, NEW v,
         \A i \in ValuesOf(buf, name) : buf[i].num = v,
         ValuesOf(buf, name) # {}
  PROVE  LastValue(buf, name, default) = v
<1>1. LastScanned(buf) \in Nat
  BY DEF LastScanned, HasMarker, MarkerAt
<1>2. ValuesOf(buf, name) \subseteq 0..LastScanned(buf)
  BY <1>1 DEF ValuesOf
<1>3. Max(ValuesOf(buf, name)) \in ValuesOf(buf, name)
  BY <1>1, <1>2, MaxProperty
<1> QED BY <1>3 DEF LastValue

(* ... or, having met none of them, with the value it was given.           *)
LEMMA LastValueIs ==
  ASSUME NEW buf \in Seq(Units), NEW name, NEW default, NEW v,
         \A i \in ValuesOf(buf, name) : buf[i].num = v
  PROVE  LastValue(buf, name, default) \in {default, v}
<1>1. CASE ValuesOf(buf, name) = {}
  BY <1>1 DEF LastValue
<1>2. CASE ValuesOf(buf, name) # {}
  <2>1. LastValue(buf, name, default) = v
    BY <1>2, LastValueFound, Zenon
  <2> QED BY <2>1
<1> QED BY <1>1, <1>2

(* Parse's values are texts that have arrived.                             *)
LEMMA ScannedPart ==
  ASSUME NEW buf \in Seq(Units), NEW name
  PROVE  /\ LastScanned(buf) \in 0..Len(buf)
         /\ HasMarker(buf) => MarkerAt(buf) \in 2..Len(buf)
         /\ ValuesOf(buf, name) \subseteq 1..Len(buf)
<1>1. HasMarker(buf) => MarkerAt(buf) \in 2..Len(buf)
  BY DEF HasMarker, MarkerAt
<1>2. LastScanned(buf) \in 0..Len(buf)
  BY <1>1 DEF LastScanned
<1> QED BY <1>1, <1>2 DEF ValuesOf

(* A number Parse keeps is a number, whatever the server sent.             *)
LEMMA LastValueType ==
  ASSUME NEW buf \in Seq(Units), NEW name, NEW default \in Nat
  PROVE  LastValue(buf, name, default) \in Nat
<1>1. CASE ValuesOf(buf, name) = {}
  BY <1>1 DEF LastValue
<1>2. CASE ValuesOf(buf, name) # {}
  <2>1. ValuesOf(buf, name) \subseteq 0..Len(buf)
    BY ScannedPart
  <2>2. Max(ValuesOf(buf, name)) \in ValuesOf(buf, name)
    BY <1>2, <2>1, MaxProperty
  <2>3. Max(ValuesOf(buf, name)) \in 1..Len(buf)
    BY <2>2, ScannedPart
  <2>4. buf[Max(ValuesOf(buf, name))] \in Units
    BY <2>3, ElementOfSeq
  <2> QED BY <1>2, <2>4 DEF LastValue, Units
<1> QED BY <1>1, <1>2

(* Decoding changes no block but for its mask, and drops none              *)
(* (main.cpp:343-354).                                                     *)
LEMMA DecodeType ==
  ASSUME NEW data \in Seq(Units), NEW enclen \in Nat
  PROVE  /\ Decode(data, enclen) \in Seq(Units)
         /\ Len(Decode(data, enclen)) = Len(data)
         /\ \A i \in 1..Len(data) :
              Decode(data, enclen)[i] =
                IF enclen > 0
                  THEN Block(data[i].num,
                             SymDiff(data[i].mask, {(i - 1) % ENC_KEY_LENGTH}))
                  ELSE data[i]
<1>1. CASE ~(enclen > 0)
  BY <1>1 DEF Decode
<1>2. CASE enclen > 0
  <2> DEFINE d == Decode(data, enclen)
             u(i) == Block(data[i].num,
                           SymDiff(data[i].mask, {(i - 1) % ENC_KEY_LENGTH}))
  <2>1. ASSUME NEW i \in 1..Len(data) PROVE u(i) \in Units
    <3>1. data[i] \in Units
      BY ElementOfSeq
    <3>2. i - 1 \in Nat /\ (i - 1) % ENC_KEY_LENGTH \in Nat
      BY KeyAssumption
    <3>3. SymDiff(data[i].mask, {(i - 1) % ENC_KEY_LENGTH}) \in SUBSET Nat
      BY <3>1, <3>2 DEF SymDiff, Units
    <3>4. data[i].num \in Nat
      BY <3>1 DEF Units
    <3> QED BY <3>3, <3>4, UnitTypes
  <2>2. d = [i \in 1..Len(data) |-> u(i)]
    BY <1>2 DEF Decode
  <2>3. d \in [1..Len(data) -> Units]
    BY <2>1, <2>2
  <2>4. Len(data) \in Nat
    BY LenProperties
  <2>5. d \in Seq(Units)
    BY <2>3, <2>4, SeqDef
  <2>6. Len(d) = Len(data)
    BY <2>3, <2>4, <2>5, LenProperties
  <2> QED BY <1>2, <2>2, <2>5, <2>6
<1> QED BY <1>1, <1>2

(* What Parse hands to its caller is well formed, whatever the buffer      *)
(* holds: a packet's payload lies inside what has been received.           *)
LEMMA ParseTypes ==
  ASSUME NEW buf \in Seq(Units), NEW total \in Nat
  PROVE  /\ ParsedTotal(buf, total) \in Nat
         /\ PacketSize(buf) \in Nat
         /\ PacketSize(buf) > 0 =>
              /\ FileSize(buf) \in Nat
              /\ FileData(buf) \in Seq(Units)
              /\ Len(FileData(buf)) = FileSize(buf)
              /\ DecodedData(buf) \in Seq(Units)
              /\ Len(DecodedData(buf)) = FileSize(buf)
<1>1. ParsedTotal(buf, total) \in Nat
  BY LastValueType DEF ParsedTotal
<1>2. PacketSize(buf) > 0 => IsComplete(buf)
  BY DEF PacketSize
<1>3. ASSUME IsComplete(buf)
      PROVE  /\ FileSize(buf) \in Nat /\ buf[1].num \in Nat
             /\ FileData(buf) \in Seq(Units)
             /\ Len(FileData(buf)) = FileSize(buf)
  <2>1. MarkerAt(buf) \in 2..Len(buf) /\ Len(buf) \in Nat
    BY <1>3, ScannedPart DEF IsComplete
  <2>2. MarkerAt(buf) + 1 \in 1..Len(buf) /\ 1 \in 1..Len(buf)
    BY <1>3, <2>1 DEF IsComplete
  <2>3. FileSize(buf) \in Nat /\ buf[1].num \in Nat
    <3>1. buf[MarkerAt(buf) + 1] \in Units /\ buf[1] \in Units
      BY <2>2, ElementOfSeq
    <3> QED BY <3>1 DEF FileSize, Units
  <2>4. MarkerAt(buf) + 1 + FileSize(buf) <= Len(buf)
    BY <1>3 DEF IsComplete, FileSize
  <2> QED BY <2>1, <2>3, <2>4, SubSeqProperties, SMTT(30) DEF FileData
<1>4. PacketSize(buf) \in Nat
  BY <1>3 DEF PacketSize
<1>5. IsComplete(buf) =>
        /\ DecodedData(buf) \in Seq(Units)
        /\ Len(DecodedData(buf)) = FileSize(buf)
  BY <1>3, LastValueType, DecodeType DEF DecodedData
<1> QED BY <1>1, <1>2, <1>3, <1>4, <1>5

-----------------------------------------------------------------------------
(* The answers.                                                            *)

(* The parameters of an answer are texts, none of them "filedata"; each    *)
(* key is followed by its value.                                           *)
LEMMA ParamUnitType ==
  ASSUME NEW size \in Nat, NEW fields \in Layouts, NEW req \in Requests,
         NEW n \in Nat
  PROVE  /\ ParamsEnd(fields) \in Nat /\ ParamsEnd(fields) >= 3
         /\ \A i \in 2..ParamsEnd(fields) :
              /\ ParamUnit(size, fields, req, n, i) \in Units
              /\ ParamUnit(size, fields, req, n, i).kind = "text"
              /\ ParamUnit(size, fields, req, n, i).text \in
                   IF i % 2 = 0 THEN Keys ELSE {"value"}
<1>1. fields \in Seq(Keys) /\ Len(fields) \in Nat /\ Len(fields) >= 1
  BY ServerAssumption
<1>2. ParamsEnd(fields) \in Nat /\ ParamsEnd(fields) >= 3
  BY <1>1 DEF ParamsEnd
<1>3. ASSUME NEW i \in 2..ParamsEnd(fields)
      PROVE  /\ ParamUnit(size, fields, req, n, i) \in Units
             /\ ParamUnit(size, fields, req, n, i).kind = "text"
             /\ ParamUnit(size, fields, req, n, i).text \in
                  IF i % 2 = 0 THEN Keys ELSE {"value"}
  <2>1. i \div 2 \in 1..Len(fields)
    BY <1>1, <1>2 DEF ParamsEnd
  <2>2. fields[i \div 2] \in Keys
    BY <1>1, <2>1, ElementOfSeq
  <2>3. ValueOf(size, fields[i \div 2], req, n) \in Nat
    <3>1. EncLen \in Nat
      BY ClientAssumption, ServerAssumption
    <3>2. Masked(req, n) \in Nat
      BY <3>1 DEF Masked, MAX, MIN, Requests
    <3> QED BY <3>2, Zenon DEF ValueOf
  <2>4. fields[i \div 2] \in Texts /\ "value" \in Texts
    BY <2>2 DEF Texts
  <2>5. ParamUnit(size, fields, req, n, i) \in Units
    BY <2>3, <2>4, UnitTypes DEF ParamUnit
  <2> QED BY <2>2, <2>5 DEF ParamUnit, Text, Unit
<1> QED BY <1>2, <1>3

(* An answer that is all parameters is a sequence of units.                *)
LEMMA HeaderUnits ==
  ASSUME NEW size \in Nat, NEW fields \in Layouts, NEW req \in Requests
  PROVE  LET p == ParamsEnd(fields)
             h == HeaderOnly(size, fields, req)
         IN /\ h \in Seq(Units) /\ Len(h) = p
            /\ h[1] = Start(p)
            /\ \A i \in 2..p : h[i] = ParamUnit(size, fields, req, 0, i)
<1> DEFINE p == ParamsEnd(fields)
           h == HeaderOnly(size, fields, req)
           u(i) == IF i = 1 THEN Start(p) ELSE ParamUnit(size, fields, req, 0, i)
<1>1. p \in Nat /\ p >= 3
  BY ParamUnitType
<1>2. \A i \in 1..p : u(i) \in Units
  BY <1>1, ParamUnitType, UnitTypes
<1>3. h = [i \in 1..p |-> u(i)]
  BY DEF HeaderOnly
<1>4. h \in [1..p -> Units]
  BY <1>2, <1>3
<1>5. h \in Seq(Units)
  BY <1>1, <1>4, SeqDef
<1>6. Len(h) = p
  BY <1>1, <1>4, <1>5, LenProperties
<1> QED BY <1>1, <1>3, <1>5, <1>6

(* The text behind the parameters of an answer, and the length behind it.  *)
LEMMA ReplyMarker ==
  ASSUME NEW size, NEW fields \in Layouts, NEW req, NEW n \in Nat,
         NEW p, p = ParamsEnd(fields)
  PROVE  /\ Reply(size, fields, req, n)[p + 1] = Text("filedata", 0)
         /\ Reply(size, fields, req, n)[p + 2] = Length(n)
<1>1. p \in Nat /\ p >= 3
  BY ServerAssumption DEF ParamsEnd
<1>2. p + 1 \in 1..(p + 2 + n) /\ p + 1 # 1 /\ ~(p + 1 <= p)
  BY <1>1
<1>3. /\ p + 2 \in 1..(p + 2 + n) /\ p + 2 # 1 /\ ~(p + 2 <= p)
      /\ p + 2 # p + 1
  BY <1>1
<1> QED BY <1>2, <1>3 DEF Reply

(* What the definition of Reply says, one unit at a time.                  *)
LEMMA ReplyUnits ==
  ASSUME NEW size \in Nat, NEW fields \in Layouts, NEW req \in Requests,
         NEW n \in Nat
  PROVE  LET p == ParamsEnd(fields)
             r == Reply(size, fields, req, n)
         IN /\ p \in Nat /\ p >= 3
            /\ r \in Seq(Units) /\ Len(r) = p + 2 + n
            /\ r[1] = Start(p + 2)
            /\ \A i \in 2..p : r[i] = ParamUnit(size, fields, req, n, i)
            /\ r[p + 1] = Text("filedata", 0)
            /\ r[p + 2] = Length(n)
            /\ \A i \in 1..n : r[p + 2 + i] = ServedBlock(req.start + i - 1)
<1> DEFINE p == ParamsEnd(fields)
           r == Reply(size, fields, req, n)
<1>1. fields \in Seq(Keys) /\ Len(fields) \in Nat /\ Len(fields) >= 1
  BY ServerAssumption
<1>2. p \in Nat /\ p >= 3
  BY <1>1 DEF ParamsEnd
<1>3. \A i \in 2..p : ParamUnit(size, fields, req, n, i) \in Units
  BY ParamUnitType
<1>4. ASSUME NEW i \in Nat PROVE ServedBlock(req.start + i) \in Units
  <2>1. req.start + i \in Nat
    BY DEF Requests
  <2>2. (req.start + i) % ENC_KEY_LENGTH \in Nat
    BY <2>1, KeyAssumption
  <2> QED BY <2>1, <2>2, UnitTypes DEF ServedBlock
<1>5. /\ r = [i \in 1..(p + 2 + n) |-> r[i]]
      /\ DOMAIN r = 1..(p + 2 + n)
      /\ \A i \in 1..(p + 2 + n) : r[i] =
           IF i = 1          THEN Start(p + 2)
           ELSE IF i <= p    THEN ParamUnit(size, fields, req, n, i)
           ELSE IF i = p + 1 THEN Text("filedata", 0)
           ELSE IF i = p + 2 THEN Length(n)
           ELSE ServedBlock(req.start + i - (p + 3))
  BY DEF Reply
<1>6. r[1] = Start(p + 2)
  BY <1>2, <1>5
<1>7. \A i \in 2..p : r[i] = ParamUnit(size, fields, req, n, i)
  BY <1>2, <1>5
<1>8. r[p + 1] = Text("filedata", 0) /\ r[p + 2] = Length(n)
  BY ReplyMarker
<1>9. \A i \in 1..n : r[p + 2 + i] = ServedBlock(req.start + i - 1)
  <2> SUFFICES ASSUME NEW i \in 1..n
               PROVE  r[p + 2 + i] = ServedBlock(req.start + i - 1)
    OBVIOUS
  <2>1. req.start \in Nat
    BY DEF Requests
  <2>2. req.start + (p + 2 + i) - (p + 3) = req.start + i - 1
    BY <1>2, <2>1
  <2> QED BY <1>2, <1>5, <2>2
<1>10. r \in Seq(Units) /\ Len(r) = p + 2 + n
  <2>1. ASSUME NEW i \in 1..(p + 2 + n) PROVE r[i] \in Units
    <3>1. CASE i = 1
      BY <1>2, <1>6, <3>1, UnitTypes
    <3>2. CASE i \in 2..p
      BY <1>3, <1>7, <3>2
    <3>3. CASE i \in {p + 1, p + 2}
      BY <1>2, <1>8, <3>3, UnitTypes DEF Texts
    <3>4. CASE i > p + 2
      <4> DEFINE k == i - (p + 2)
      <4>1. k \in 1..n /\ k - 1 \in Nat /\ i = p + 2 + k
        BY <1>2, <3>4
      <4>2. r[i] = ServedBlock(req.start + k - 1)
        BY <1>9, <4>1
      <4>3. req.start + k - 1 = req.start + (k - 1)
        BY <4>1 DEF Requests
      <4> QED BY <1>4, <4>1, <4>2, <4>3
    <3> QED BY <1>2, <3>1, <3>2, <3>3, <3>4
  <2>2. p + 2 + n \in Nat
    BY <1>2
  <2> HIDE DEF r, p
  <2>3. r \in [1..(p + 2 + n) -> Units]
    BY <1>5, <2>1
  <2>4. r \in Seq(Units)
    BY <2>2, <2>3, SeqDef
  <2> QED BY <1>5, <2>2, <2>4, LenProperties
<1> QED BY <1>2, <1>6, <1>7, <1>8, <1>9, <1>10

(* Of any beginning of an answer, Parse takes of each parameter the value  *)
(* the answer says, and keeps it or the one it was given.                  *)
LEMMA ValuesInPart ==
  ASSUME NEW size \in Nat, NEW fields \in Layouts, NEW req \in Requests,
         NEW n \in Nat, NEW buf \in Seq(Units), NEW key \in Keys,
         \A i \in 2..ParamsEnd(fields) :
           i <= Len(buf) => buf[i] = ParamUnit(size, fields, req, n, i),
         \A i \in ParamsEnd(fields)..Len(buf) : buf[i].text \notin Keys
  PROVE  /\ \A i \in ValuesOf(buf, key) :
              buf[i].num = ValueOf(size, key, req, n)
         /\ \A default : LastValue(buf, key, default)
                            \in {default, ValueOf(size, key, req, n)}
         /\ ValuesOf(buf, key) # {} =>
              \A default : LastValue(buf, key, default)
                             = ValueOf(size, key, req, n)
<1> DEFINE p == ParamsEnd(fields)
<1>0. p \in Nat /\ Len(buf) \in Nat
  BY ParamUnitType
<1>1. ASSUME NEW i \in ValuesOf(buf, key)
      PROVE  buf[i].num = ValueOf(size, key, req, n)
  <2>1. i \in 3..LastScanned(buf) /\ LastScanned(buf) \in 0..Len(buf)
    BY ScannedPart DEF ValuesOf
  <2>2. i \in 3..Len(buf) /\ buf[i - 1].text = key
    BY <1>0, <2>1 DEF ValuesOf
  <2>3. i - 1 < p
    BY <1>0, <2>2
  <2>4. buf[i - 1] = ParamUnit(size, fields, req, n, i - 1)
    BY <1>0, <2>2, <2>3
  <2>5. (i - 1) % 2 = 0
    <3>1. "value" \notin Keys
      BY DEF Keys
    <3>2. i - 1 \in 2..p
      BY <1>0, <2>2, <2>3
    <3>3. buf[i - 1].text \in IF (i - 1) % 2 = 0 THEN Keys ELSE {"value"}
      BY <2>4, <3>2, ParamUnitType
    <3> QED BY <2>2, <3>1, <3>3
  <2>6. fields[(i - 1) \div 2] = key
    BY <2>2, <2>4, <2>5 DEF ParamUnit, Text, Unit
  <2>7. i % 2 = 1 /\ i \div 2 = (i - 1) \div 2
    BY <2>2, <2>5
  <2>8. buf[i] = ParamUnit(size, fields, req, n, i)
    BY <1>0, <2>2, <2>3
  <2> QED BY <2>6, <2>7, <2>8 DEF ParamUnit, Text, Unit
<1> DEFINE v == ValueOf(size, key, req, n)
<1> HIDE DEF v
<1>2. \A i \in ValuesOf(buf, key) : buf[i].num = v
  BY <1>1 DEF v
<1>3. ASSUME NEW default PROVE LastValue(buf, key, default) \in {default, v}
  BY <1>2, LastValueIs, Zenon
<1>4. ASSUME NEW default, ValuesOf(buf, key) # {}
      PROVE  LastValue(buf, key, default) = v
  BY <1>2, <1>4, LastValueFound, Zenon
<1> QED BY <1>1, <1>3, <1>4 DEF v

(* The "filedata" of an answer is the first text of that name.             *)
LEMMA MarkerAtEnd ==
  ASSUME NEW size \in Nat, NEW fields \in Layouts, NEW req \in Requests,
         NEW n \in Nat, NEW buf \in Seq(Units),
         Len(buf) >= ParamsEnd(fields) + 1,
         \A i \in 2..ParamsEnd(fields) :
           i <= Len(buf) => buf[i] = ParamUnit(size, fields, req, n, i),
         buf[ParamsEnd(fields) + 1] = Text("filedata", 0)
  PROVE  HasMarker(buf) /\ MarkerAt(buf) = ParamsEnd(fields) + 1
<1> DEFINE p == ParamsEnd(fields)
<1>1. p \in Nat /\ p >= 3 /\ Len(buf) \in Nat
  BY ParamUnitType
<1>2. p + 1 \in 2..Len(buf)
  BY <1>1
<1>3. ASSUME NEW j \in 2..p PROVE buf[j].text # "filedata"
  <2>1. buf[j] = ParamUnit(size, fields, req, n, j)
    BY <1>1
  <2>2. buf[j].text \in IF j % 2 = 0 THEN Keys ELSE {"value"}
    BY <2>1, ParamUnitType
  <2> QED BY <2>2 DEF Keys
<1>4. buf[p + 1].kind = "text" /\ buf[p + 1].text = "filedata"
  BY DEF Text, Unit
<1>5. \A j \in 2..((p + 1) - 1) : buf[j].text # "filedata"
  BY <1>1, <1>3
<1> HIDE DEF p
<1>6. HasMarker(buf) /\ MarkerAt(buf) = p + 1
  BY <1>2, <1>4, <1>5, MarkerIs
<1> QED BY <1>6 DEF p

(* The text behind the parameters is "filedata", once it has arrived.      *)
LEMMA PartMarker ==
  ASSUME NEW size \in Nat, NEW fields \in Layouts, NEW req \in Requests,
         NEW n \in Nat, NEW buf \in Seq(Units),
         NEW p, p = ParamsEnd(fields),
         Begins(buf, Reply(size, fields, req, n)),
         Len(buf) >= p + 1
  PROVE  buf[p + 1] = Text("filedata", 0)
<1>1. p \in Nat /\ p >= 3 /\ Len(buf) \in Nat
  BY ParamUnitType
<1>2. p + 1 \in 1..Len(buf)
  BY <1>1
<1>3. buf[p + 1] = Reply(size, fields, req, n)[p + 1]
  BY <1>2, Zenon DEF Begins
<1> QED BY <1>3, ReplyMarker

(* What has arrived of an answer, one unit at a time.                      *)
LEMMA PartUnits ==
  ASSUME NEW size \in Nat, NEW fields \in Layouts, NEW req \in Requests,
         NEW n \in Nat, NEW buf \in Seq(Units),
         NEW p, p = ParamsEnd(fields),
         Begins(buf, Reply(size, fields, req, n))
  PROVE  /\ p \in Nat /\ p >= 3 /\ p % 2 = 1
         /\ Len(buf) \in Nat /\ Len(buf) <= p + 2 + n
         /\ Len(buf) >= 1 => buf[1] = Start(p + 2)
         /\ \A i \in 2..p : i <= Len(buf) =>
              /\ buf[i] = ParamUnit(size, fields, req, n, i)
              /\ buf[i].text \in IF i % 2 = 0 THEN Keys ELSE {"value"}
         /\ Len(buf) >= p + 1 => buf[p + 1] = Text("filedata", 0)
         /\ Len(buf) >= p + 2 => buf[p + 2] = Length(n)
         /\ \A i \in (p + 3)..Len(buf) :
              buf[i] = ServedBlock(req.start + (i - (p + 2)) - 1)
<1> DEFINE r == Reply(size, fields, req, n)
<1>1. p \in Nat /\ p >= 3
  BY ParamUnitType
<1>2. Len(r) = p + 2 + n
  BY ReplyUnits
<1>3. r[1] = Start(p + 2)
  BY ReplyUnits
<1>4. \A i \in 2..p : r[i] = ParamUnit(size, fields, req, n, i)
  BY ReplyUnits
<1>5. r[p + 1] = Text("filedata", 0) /\ r[p + 2] = Length(n)
  BY ReplyMarker
<1>6. \A i \in 1..n : r[p + 2 + i] = ServedBlock(req.start + i - 1)
  BY ReplyUnits
<1>7. Len(buf) \in Nat /\ Len(buf) <= p + 2 + n
  BY <1>2, LenProperties DEF Begins
<1>8. \A i \in 1..Len(buf) : buf[i] = r[i]
  BY DEF Begins
<1>9. p % 2 = 1
  <2>1. Len(fields) \in Nat
    BY ServerAssumption
  <2> QED BY <2>1 DEF ParamsEnd
<1> HIDE DEF r
<1>10. Len(buf) >= 1 => buf[1] = Start(p + 2)
  BY <1>3, <1>7, <1>8
<1>11. ASSUME NEW i \in 2..p, i <= Len(buf)
       PROVE  /\ buf[i] = ParamUnit(size, fields, req, n, i)
              /\ buf[i].text \in IF i % 2 = 0 THEN Keys ELSE {"value"}
  <2>1. buf[i] = ParamUnit(size, fields, req, n, i)
    BY <1>1, <1>4, <1>7, <1>8, <1>11
  <2> QED BY <2>1, ParamUnitType
<1>12. Len(buf) >= p + 1 => buf[p + 1] = Text("filedata", 0)
  BY PartMarker
<1>13. Len(buf) >= p + 2 => buf[p + 2] = Length(n)
  BY <1>1, <1>5, <1>7, <1>8
<1>14. ASSUME NEW i \in (p + 3)..Len(buf)
       PROVE  buf[i] = ServedBlock(req.start + (i - (p + 2)) - 1)
  <2>1. i - (p + 2) \in 1..n /\ i = p + 2 + (i - (p + 2)) /\ i \in 1..Len(buf)
    BY <1>1, <1>7
  <2>2. r[p + 2 + (i - (p + 2))] = ServedBlock(req.start + (i - (p + 2)) - 1)
    BY <1>6, <2>1
  <2> QED BY <1>8, <2>1, <2>2
<1> QED BY <1>1, <1>7, <1>9, <1>10, <1>11, <1>12, <1>13, <1>14

(* An answer that is cut short anywhere is no packet; it may already tell  *)
(* the file's length (main.cpp:232-338).                                   *)
LEMMA PartOfReply ==
  ASSUME NEW size \in Nat, NEW fields \in Layouts, NEW req \in Requests,
         NEW n \in Nat, NEW buf \in Seq(Units), NEW total,
         NEW p, p = ParamsEnd(fields),
         Begins(buf, Reply(size, fields, req, n))
  PROVE  /\ ParsedTotal(buf, total) \in {total, size}
         /\ Len(buf) < p + 2 + n => PacketSize(buf) = 0
         /\ \A i \in p..Len(buf) : buf[i].text \notin Keys
<1>1. p \in Nat /\ p >= 3 /\ Len(buf) \in Nat /\ Len(buf) <= p + 2 + n
  BY PartUnits
<1>2. \A i \in 2..p : i <= Len(buf) => buf[i] = ParamUnit(size, fields, req, n, i)
  BY PartUnits
<1>3. ASSUME NEW i \in p..Len(buf) PROVE buf[i].text \notin Keys
  <2>1. CASE i = p
    <3>1. p \in 2..p /\ p % 2 = 1
      BY <1>1, PartUnits
    <3>2. buf[p].text \in IF p % 2 = 0 THEN Keys ELSE {"value"}
      BY <1>1, <2>1, <3>1, PartUnits
    <3> QED BY <2>1, <3>1, <3>2 DEF Keys
  <2>2. CASE i = p + 1
    <3>1. buf[i] = Text("filedata", 0)
      BY <1>1, <2>2, PartUnits
    <3> QED BY <3>1 DEF Text, Unit, Keys
  <2>3. CASE i = p + 2
    <3>1. buf[i] = Length(n)
      BY <1>1, <2>3, PartUnits
    <3> QED BY <3>1 DEF Length, Unit, Keys
  <2>4. CASE i > p + 2
    <3>1. i \in (p + 3)..Len(buf)
      BY <1>1, <2>4
    <3>2. buf[i] = ServedBlock(req.start + (i - (p + 2)) - 1)
      BY <3>1, PartUnits
    <3> QED BY <3>2 DEF ServedBlock, Block, Unit, Keys
  <2> QED BY <1>1, <2>1, <2>2, <2>3, <2>4
<1>4. ParsedTotal(buf, total) \in {total, size}
  <2>1. ValueOf(size, "totalsize", req, n) = size /\ "totalsize" \in Keys
    BY DEF ValueOf, Keys
  <2>2. LastValue(buf, "totalsize", total)
          \in {total, ValueOf(size, "totalsize", req, n)}
    BY <1>2, <1>3, <2>1, ValuesInPart
  <2> QED BY <2>1, <2>2 DEF ParsedTotal
<1>5. ASSUME Len(buf) < p + 2 + n PROVE ~IsComplete(buf)
  <2>1. CASE Len(buf) <= p
    <3>1. ~HasMarker(buf)
      <4> SUFFICES ASSUME NEW i \in 2..Len(buf), IsMarker(buf, i) PROVE FALSE
        BY DEF HasMarker
      <4>1. i \in 2..p /\ i <= Len(buf)
        BY <1>1, <2>1
      <4>2. buf[i].text \in IF i % 2 = 0 THEN Keys ELSE {"value"}
        BY <4>1, PartUnits
      <4> QED BY <4>2 DEF IsMarker, Keys
    <3> QED BY <3>1 DEF IsComplete
  <2>2. CASE Len(buf) >= p + 1
    <3>1. buf[p + 1] = Text("filedata", 0)
      BY <2>2, PartMarker
    <3>2. HasMarker(buf) /\ MarkerAt(buf) = p + 1
      BY <1>2, <2>2, <3>1, MarkerAtEnd
    <3>3. p + 2 <= Len(buf) => buf[p + 2].num = n
      <4>1. p + 2 <= Len(buf) => buf[p + 2] = Length(n)
        BY <1>1, PartUnits
      <4> QED BY <4>1 DEF Length, Unit
    <3> QED BY <1>1, <1>5, <3>2, <3>3 DEF IsComplete
  <2> QED BY <1>1, <2>1, <2>2
<1>6. Len(buf) < p + 2 + n => PacketSize(buf) = 0
  BY <1>5 DEF PacketSize
<1> QED BY <1>3, <1>4, <1>6

(* An answer that is all parameters never is a packet: Parse goes on to    *)
(* look for "filedata" (main.cpp:265-271).                                 *)
LEMMA PartOfHeader ==
  ASSUME NEW size \in Nat, NEW fields \in Layouts, NEW req \in Requests,
         NEW buf \in Seq(Units), NEW total,
         Begins(buf, HeaderOnly(size, fields, req))
  PROVE  /\ Len(buf) <= ParamsEnd(fields)
         /\ ParsedTotal(buf, total) \in {total, size}
         /\ PacketSize(buf) = 0
<1> DEFINE p == ParamsEnd(fields)
<1>1. p \in Nat /\ p >= 3 /\ p % 2 = 1
  <2>1. Len(fields) \in Nat
    BY ServerAssumption
  <2> QED BY <2>1, ParamUnitType DEF ParamsEnd
<1>2. Len(buf) \in Nat /\ Len(buf) <= p
  BY HeaderUnits, LenProperties DEF Begins
<1> HIDE DEF p
<1>3. ASSUME NEW i \in 2..p, i <= Len(buf)
      PROVE  /\ buf[i] = ParamUnit(size, fields, req, 0, i)
             /\ buf[i].text \in IF i % 2 = 0 THEN Keys ELSE {"value"}
  <2>1. HeaderOnly(size, fields, req)[i] = ParamUnit(size, fields, req, 0, i)
    BY HeaderUnits DEF p
  <2>2. buf[i] = ParamUnit(size, fields, req, 0, i)
    BY <1>2, <1>3, <2>1 DEF Begins
  <2> QED BY <2>2, ParamUnitType DEF p
<1>4. \A i \in p..Len(buf) : buf[i].text \notin Keys
  <2> SUFFICES ASSUME NEW i \in p..Len(buf) PROVE buf[i].text \notin Keys
    OBVIOUS
  <2>1. i = p /\ i \in 2..p /\ i <= Len(buf)
    BY <1>1, <1>2
  <2>2. buf[i].text \in IF i % 2 = 0 THEN Keys ELSE {"value"}
    BY <1>3, <2>1
  <2> QED BY <1>1, <2>1, <2>2 DEF Keys
<1>5. ParsedTotal(buf, total) \in {total, size}
  <2>1. ValueOf(size, "totalsize", req, 0) = size /\ "totalsize" \in Keys
    BY DEF ValueOf, Keys
  <2>2. \A i \in 2..p : i <= Len(buf) => buf[i] = ParamUnit(size, fields, req, 0, i)
    BY <1>3
  <2>3. LastValue(buf, "totalsize", total)
          \in {total, ValueOf(size, "totalsize", req, 0)}
    BY <1>4, <2>1, <2>2, ValuesInPart DEF p
  <2> QED BY <2>1, <2>3 DEF ParsedTotal
<1>6. ~HasMarker(buf)
  <2> SUFFICES ASSUME NEW i \in 2..Len(buf), IsMarker(buf, i) PROVE FALSE
    BY DEF HasMarker
  <2>1. i \in 2..p /\ i <= Len(buf)
    BY <1>1, <1>2
  <2>2. buf[i].text \in IF i % 2 = 0 THEN Keys ELSE {"value"}
    BY <1>3, <2>1
  <2> QED BY <2>2 DEF IsMarker, Keys
<1> QED BY <1>2, <1>5, <1>6 DEF PacketSize, IsComplete, p

(* A key the answer names has a value in it.                               *)
LEMMA ValueInReply ==
  ASSUME NEW size \in Nat, NEW fields \in Layouts, NEW req \in Requests,
         NEW n \in Nat, NEW buf \in Seq(Units), NEW default,
         NEW p, p = ParamsEnd(fields),
         Begins(buf, Reply(size, fields, req, n)), Len(buf) = p + 2 + n,
         NEW key \in Keys, NEW k \in 1..Len(fields), fields[k] = key
  PROVE  LastValue(buf, key, default) = ValueOf(size, key, req, n)
<1>1. p \in Nat /\ p >= 3 /\ Len(buf) \in Nat
  BY PartUnits
<1>2. \A i \in 2..p : i <= Len(buf) => buf[i] = ParamUnit(size, fields, req, n, i)
  BY PartUnits
<1>3. HasMarker(buf) /\ MarkerAt(buf) = p + 1
  <2>1. Len(buf) >= p + 1
    BY <1>1
  <2>2. buf[p + 1] = Text("filedata", 0)
    BY <2>1, PartMarker
  <2> QED BY <1>2, <2>1, <2>2, MarkerAtEnd
<1>4. 2 * k \in 2..p /\ 2 * k + 1 \in 3..(p + 1) /\ (2 * k) % 2 = 0
      /\ (2 * k) \div 2 = k /\ (2 * k + 1) - 1 = 2 * k
  <2>1. Len(fields) \in Nat
    BY ServerAssumption
  <2> QED BY <2>1 DEF ParamsEnd
<1>5. buf[2 * k].text = key
  <2>1. buf[2 * k] = ParamUnit(size, fields, req, n, 2 * k)
    BY <1>1, <1>2, <1>4
  <2> QED BY <1>4, <2>1 DEF ParamUnit, Text, Unit
<1>6. 2 * k + 1 \in ValuesOf(buf, key)
  BY <1>3, <1>4, <1>5 DEF ValuesOf, LastScanned
<1>7. \A i \in p..Len(buf) : buf[i].text \notin Keys
  BY PartOfReply
<1> QED BY <1>2, <1>6, <1>7, ValuesInPart

(* When all of an answer has arrived, Parse finds the packet, the file's   *)
(* length and the payload (main.cpp:287-361).                              *)
LEMMA WholeReply ==
  ASSUME NEW size \in Nat, NEW fields \in Layouts, NEW req \in Requests,
         NEW n \in Nat, NEW buf \in Seq(Units),
         NEW p, p = ParamsEnd(fields),
         Begins(buf, Reply(size, fields, req, n)), Len(buf) = p + 2 + n
  PROVE  /\ \A total : ParsedTotal(buf, total) = size
         /\ PacketSize(buf) = n + p + 2
         /\ FileSize(buf) = n
         /\ LastValue(buf, "X-enclen", 0) = Masked(req, n)
         /\ FileData(buf) \in Seq(Units) /\ Len(FileData(buf)) = n
         /\ \A i \in 1..n : FileData(buf)[i] = ServedBlock(req.start + i - 1)
<1>1. p \in Nat /\ p >= 3 /\ Len(buf) \in Nat
  BY PartUnits
<1>2. \A i \in 2..p : i <= Len(buf) => buf[i] = ParamUnit(size, fields, req, n, i)
  BY PartUnits
<1>3. HasMarker(buf) /\ MarkerAt(buf) = p + 1
  <2>1. Len(buf) >= p + 1
    BY <1>1
  <2>2. buf[p + 1] = Text("filedata", 0)
    BY <2>1, PartMarker
  <2> QED BY <1>2, <2>1, <2>2, MarkerAtEnd
<1>4. buf[1].kind = "start" /\ buf[1].num = p + 2 /\ ~Rejects(buf)
  <2>1. buf[1] = Start(p + 2)
    BY <1>1, PartUnits
  <2>2. buf # <<>>
    BY <1>1
  <2> QED BY <2>1, <2>2 DEF Start, Unit, Rejects
<1>5. buf[(p + 1) + 1].num = n
  <2>1. buf[p + 2] = Length(n)
    BY <1>1, PartUnits
  <2>2. (p + 1) + 1 = p + 2
    BY <1>1
  <2> QED BY <2>1, <2>2 DEF Length, Unit
<1>6. IsComplete(buf) /\ FileSize(buf) = n
  BY <1>1, <1>3, <1>4, <1>5 DEF IsComplete, FileSize
<1>7. PacketSize(buf) = n + p + 2
  BY <1>1, <1>4, <1>6 DEF PacketSize
<1>8. ASSUME NEW total PROVE ParsedTotal(buf, total) = size
  <2>1. PICK k \in 1..Len(fields) : fields[k] = "totalsize"
    BY ServerAssumption
  <2>2. "totalsize" \in Keys /\ ValueOf(size, "totalsize", req, n) = size
    BY DEF Keys, ValueOf
  <2>3. LastValue(buf, "totalsize", total) = size
    BY <2>1, <2>2, ValueInReply
  <2> QED BY <1>4, <2>3 DEF ParsedTotal
<1>9. LastValue(buf, "X-enclen", 0) = Masked(req, n)
  <2>1. PICK k \in 1..Len(fields) : fields[k] = "X-enclen"
    BY ServerAssumption
  <2>2. "X-enclen" \in Keys /\ ValueOf(size, "X-enclen", req, n) = Masked(req, n)
    BY DEF Keys, ValueOf
  <2> QED BY <2>1, <2>2, ValueInReply
<1>10. FileData(buf) = SubSeq(buf, p + 3, p + 2 + n)
  <2>1. (p + 1) + 2 = p + 3 /\ (p + 1) + 1 + n = p + 2 + n
    BY <1>1
  <2> QED BY <1>3, <1>6, <2>1 DEF FileData
<1>11. /\ FileData(buf) \in Seq(Units) /\ Len(FileData(buf)) = n
       /\ \A i \in 1..n : FileData(buf)[i] = buf[p + 3 + i - 1]
  <2>1. \A i \in (p + 3)..(p + 2 + n) : buf[i] \in Units
    BY <1>1, ElementOfSeq
  <2>2. (p + 2 + n) - (p + 3) + 1 = n
    BY <1>1
  <2>3. p + 3 \in Int /\ p + 2 + n \in Int
    BY <1>1
  <2>4. /\ FileData(buf) \in Seq(Units)
        /\ Len(FileData(buf)) = IF p + 3 <= p + 2 + n THEN n ELSE 0
        /\ \A i \in 1..n : FileData(buf)[i] = buf[p + 3 + i - 1]
    BY <1>10, <2>1, <2>2, <2>3, SubSeqProperties
  <2> QED BY <1>1, <2>4
<1>12. ASSUME NEW i \in 1..n
       PROVE  FileData(buf)[i] = ServedBlock(req.start + i - 1)
  <2>1. p + 3 + i - 1 \in (p + 3)..Len(buf) /\ (p + 3 + i - 1) - (p + 2) = i
    BY <1>1
  <2>2. \A j \in (p + 3)..Len(buf) :
          buf[j] = ServedBlock(req.start + (j - (p + 2)) - 1)
    BY PartUnits
  <2>3. buf[p + 3 + i - 1] = ServedBlock(req.start + i - 1)
    BY <2>1, <2>2, Zenon
  <2> QED BY <1>11, <2>3
<1> QED BY <1>6, <1>7, <1>8, <1>9, <1>11, <1>12

(* A payload that begins at a chunk's start and goes no further than the   *)
(* chunk is decoded to the plain blocks: Parse's one key index per packet  *)
(* and the server's one per file agree on the first chunk, and only that   *)
(* one is masked (main.cpp:343-354).                                       *)
LEMMA DecodedReply ==
  ASSUME NEW size \in Nat, NEW fields \in Layouts, NEW req \in Requests,
         NEW n \in Nat, NEW buf \in Seq(Units),
         NEW p, p = ParamsEnd(fields),
         Begins(buf, Reply(size, fields, req, n)), Len(buf) = p + 2 + n,
         \/ req.start = 0 /\ n <= RANGE + 1
         \/ req.start >= RANGE + 1
  PROVE  /\ DecodedData(buf) \in Seq(Units) /\ Len(DecodedData(buf)) = n
         /\ \A i \in 1..n : DecodedData(buf)[i] = Block(req.start + i - 1, {})
<1> DEFINE data == FileData(buf)
           enclen == Masked(req, n)
<1>1. /\ data \in Seq(Units) /\ Len(data) = n
      /\ \A i \in 1..n : data[i] = ServedBlock(req.start + i - 1)
      /\ DecodedData(buf) = Decode(data, enclen)
  BY WholeReply DEF DecodedData
<1>2. /\ enclen \in Nat /\ req.start \in Nat /\ RANGE \in Nat
      /\ EncLen \in {0, RANGE + 1}
      /\ enclen = MAX(0, MIN(req.start + n, EncLen) - req.start)
  BY ClientAssumption, ServerAssumption DEF Masked, MAX, MIN, Requests
<1> HIDE DEF data, enclen
<1>3. /\ Decode(data, enclen) \in Seq(Units)
      /\ Len(Decode(data, enclen)) = Len(data)
      /\ \A i \in 1..Len(data) :
           Decode(data, enclen)[i] =
             IF enclen > 0
               THEN Block(data[i].num,
                          SymDiff(data[i].mask, {(i - 1) % ENC_KEY_LENGTH}))
               ELSE data[i]
  BY <1>1, <1>2, DecodeType
<1>4. ASSUME NEW i \in 1..n
      PROVE  Decode(data, enclen)[i] = Block(req.start + i - 1, {})
  <2>1. data[i] = ServedBlock(req.start + i - 1)
    BY <1>1
  <2>2. CASE enclen > 0
    <3>1. req.start = 0 /\ EncLen = RANGE + 1 /\ n <= RANGE + 1
      BY <1>2, <2>2 DEF MAX, MIN
    <3>2. req.start + i - 1 = i - 1 /\ i - 1 < EncLen
      BY <1>2, <3>1
    <3>3. data[i] = Block(i - 1, {(i - 1) % ENC_KEY_LENGTH})
      BY <2>1, <3>2 DEF ServedBlock
    <3>4. Decode(data, enclen)[i] =
            Block(data[i].num, SymDiff(data[i].mask, {(i - 1) % ENC_KEY_LENGTH}))
      BY <1>1, <1>3, <2>2
    <3>5. data[i].num = i - 1 /\ data[i].mask = {(i - 1) % ENC_KEY_LENGTH}
      BY <3>3 DEF Block, Unit
    <3>6. SymDiff(data[i].mask, {(i - 1) % ENC_KEY_LENGTH}) = {}
      BY <3>5 DEF SymDiff
    <3> QED BY <3>2, <3>4, <3>5, <3>6
  <2>3. CASE ~(enclen > 0)
    <3>1. ~(req.start + i - 1 < EncLen)
      BY <1>2, <2>3 DEF MAX, MIN
    <3>2. data[i] = Block(req.start + i - 1, {})
      BY <2>1, <3>1 DEF ServedBlock
    <3> QED BY <1>1, <1>3, <2>3, <3>2
  <2> QED BY <2>2, <2>3
<1> QED BY <1>1, <1>3, <1>4

-----------------------------------------------------------------------------
(* Sequences and numbers.                                                  *)

LEMMA PrefixType ==
  ASSUME NEW S, NEW s \in Seq(S), NEW t \in Prefixes(s)
  PROVE  /\ t \in Seq(S) /\ Len(t) \in Nat /\ Len(t) <= Len(s)
         /\ \A i \in 1..Len(t) : t[i] = s[i]
<1>1. PICK k \in 0..Len(s) : t = SubSeq(s, 1, k)
  BY DEF Prefixes
<1>2. Len(s) \in Nat /\ k \in Int /\ 1 \in Int
  BY <1>1, LenProperties
<1>3. \A i \in 1..k : s[i] \in S
  BY <1>1, <1>2, ElementOfSeq
<1>4. /\ SubSeq(s, 1, k) \in Seq(S)
      /\ Len(SubSeq(s, 1, k)) = IF 1 <= k THEN k - 1 + 1 ELSE 0
      /\ \A i \in 1..(k - 1 + 1) : SubSeq(s, 1, k)[i] = s[1 + i - 1]
  BY <1>2, <1>3, SubSeqProperties
<1> QED BY <1>1, <1>2, <1>4

(* The chunks lie end to end from position 0 on (main.cpp:163).            *)
LEMMA RangeStarts ==
  /\ RangeStart(0) = 0
  /\ \A k \in Nat : /\ RangeStart(k) \in Nat
                    /\ RangeStart(k + 1) = RangeStart(k) + RANGE + 1
                    /\ k >= 1 => RangeStart(k) >= RANGE + 1
<1>1. RangeStart(0) = 0
  BY ClientAssumption DEF RangeStart
<1>2. ASSUME NEW k \in Nat
      PROVE  /\ RangeStart(k) \in Nat
             /\ RangeStart(k + 1) = RangeStart(k) + RANGE + 1
             /\ k >= 1 => RangeStart(k) >= RANGE + 1
  <2>1. RangeStart(k) \in Nat
    BY ClientAssumption DEF RangeStart
  <2>2. RangeStart(k + 1) = RangeStart(k) + RANGE + 1
    BY ClientAssumption DEF RangeStart
  <2>3. k >= 1 => RangeStart(k) >= RANGE + 1
    <3> SUFFICES ASSUME k >= 1 PROVE RangeStart(k) >= RANGE + 1
      OBVIOUS
    <3>1. PICK j \in Nat : k = j + 1
      <4>1. k - 1 \in Nat /\ k = (k - 1) + 1
        OBVIOUS
      <4> QED BY <4>1
    <3>2. (RANGE + 1) * (j + 1) = (RANGE + 1) * j + RANGE + 1
      BY ClientAssumption
    <3>3. (RANGE + 1) * j \in Nat
      BY ClientAssumption
    <3> QED BY ClientAssumption, <3>1, <3>2, <3>3 DEF RangeStart
  <2> QED BY <2>1, <2>2, <2>3
<1> QED BY <1>1, <1>2

LEMMA RequestType ==
  ASSUME NEW k \in Nat, NEW total \in Nat
  PROVE  Request(k, total) \in Requests
BY RangeStarts, ClientAssumption DEF Request, Requests, RangeEnd, MIN

(* What recv hands over is the beginning of what was under way.            *)
LEMMA TakesUnits ==
  ASSUME TypeOK, NEW n, Takes(n)
  PROVE  /\ n \in 1..Len(wire)
         /\ Received(n) \in Seq(Units) /\ wire' \in Seq(Units)
         /\ Len(Received(n)) = Len(recv_buffer) + n
         /\ Len(wire') = Len(wire) - n
         /\ Received(n) \o wire' = recv_buffer \o wire
<1>1. /\ recv_buffer \in Seq(Units) /\ wire \in Seq(Units)
      /\ Len(wire) \in Nat /\ Len(recv_buffer) \in Nat
  BY LenProperties DEF TypeOK
<1>2. n \in 1..Len(wire)
  BY <1>1, ClientAssumption DEF Takes, MIN
<1>3. \A i \in 1..Len(wire) : wire[i] \in Units
  BY <1>1, ElementOfSeq
<1> DEFINE a == SubSeq(wire, 1, n)
           b == SubSeq(wire, n + 1, Len(wire))
<1>4. a \in Seq(Units) /\ Len(a) = n
  BY <1>1, <1>2, <1>3, SubSeqProperties
<1>5. b \in Seq(Units) /\ Len(b) = Len(wire) - n
  <2>1. n + 1 \in Int /\ \A i \in (n + 1)..Len(wire) : wire[i] \in Units
    BY <1>1, <1>2, <1>3
  <2>2. /\ b \in Seq(Units)
        /\ Len(b) = IF n + 1 <= Len(wire) THEN Len(wire) - (n + 1) + 1 ELSE 0
    BY <1>1, <2>1, SubSeqProperties
  <2> QED BY <1>1, <1>2, <2>2
<1>6. a \o b = wire
  BY <1>1, <1>2, ConcatAdjacentSubSeq, SubSeqFull
<1>7. wire' = b /\ Received(n) = recv_buffer \o a
  BY DEF Takes, Received
<1> HIDE DEF a, b
<1>8. (recv_buffer \o a) \o b = recv_buffer \o wire
  <2>1. (recv_buffer \o a) \o b = recv_buffer \o (a \o b)
    <3>1. recv_buffer \in Seq(Units) /\ a \in Seq(Units) /\ b \in Seq(Units)
      BY <1>1, <1>4, <1>5
    <3> QED BY ONLY <3>1, ConcatAssociative
  <2> QED BY <1>6, <2>1
<1>9. recv_buffer \o a \in Seq(Units) /\ Len(recv_buffer \o a) = Len(recv_buffer) + n
  BY <1>1, <1>4, ConcatProperties
<1> QED BY <1>2, <1>5, <1>7, <1>8, <1>9

-----------------------------------------------------------------------------
(* Types.                                                                  *)

LEMMA ReplyType ==
  ASSUME NEW size \in Nat, NEW fields \in Layouts, NEW req \in Requests,
         NEW n \in Nat
  PROVE  Reply(size, fields, req, n) \in Seq(Units)
BY ReplyUnits

LEMMA ReplySizesType ==
  ASSUME NEW size \in Nat, NEW req \in Requests
  PROVE  /\ Asked(size, req) \in Nat
         /\ ReplySizes(size, req) \subseteq 0..Asked(size, req)
<1>1. Asked(size, req) \in Nat
  BY DEF Asked, MAX, MIN, Requests
<1> QED BY <1>1, ServerAssumption DEF ReplySizes, MIN

LEMMA FileType ==
  ASSUME TypeOK
  PROVE  file \in Nat /\ file >= 1 /\ file <= IntMax
BY ServerAssumption, ClientAssumption DEF TypeOK

(* The program's variables keep their types (main.cpp:375-450).            *)
THEOREM TypeCorrect == Spec => []TypeOK
<1>1. Init => TypeOK
  BY EmptySeq DEF Init, TypeOK, Waits
<1>2. TypeOK /\ [Next]_vars => TypeOK'
  <2> SUFFICES ASSUME TypeOK, [Next]_vars PROVE TypeOK'
    OBVIOUS
  <2>1. CASE Connect
    BY <2>1 DEF Connect, TypeOK, counters, outputs, network, Waits, Finals
  <2>2. CASE SendRequest
    <3>1. Request(seq, total_file_size) \in Requests
      BY RequestType DEF TypeOK
    <3>2. /\ Append(req_bin, Request(seq, total_file_size)) \in Seq(Requests)
          /\ Append(pending, Request(seq, total_file_size)) \in Seq(Requests)
      BY <3>1, AppendProperties DEF TypeOK
    <3>3. req_bin' \in Seq(Requests)
      BY <2>2, <3>2, PrefixType DEF SendRequest
    <3>4. pending' \in Seq(Requests)
      BY <2>2, <3>2 DEF SendRequest, TypeOK
    <3>5. recv_buffer' \in Seq(Units)
      BY <2>2, EmptySeq DEF SendRequest
    <3> QED BY <2>2, <3>3, <3>4, <3>5
            DEF SendRequest, TypeOK, Waits, Finals, outputs
  <2>3. ASSUME NEW n, Takes(n)
        PROVE  /\ Received(n) \in Seq(Units) /\ wire' \in Seq(Units)
               /\ total_file_size' \in Nat
    <3>1. Received(n) \in Seq(Units) /\ wire' \in Seq(Units)
      BY <2>3, TakesUnits
    <3>2. total_file_size \in Nat
      BY DEF TypeOK
    <3> QED BY <2>3, <3>1, <3>2, ParseTypes DEF Takes
  <2>4. ASSUME NEW n, Takes(n), PacketSize(Received(n)) > 0
        PROVE  /\ DecodedData(Received(n)) \in Seq(Units)
               /\ FileData(Received(n)) \in Seq(Units)
               /\ FileSize(Received(n)) \in Nat
    <3>1. total_file_size \in Nat
      BY DEF TypeOK
    <3> QED BY <2>3, <2>4, <3>1, ParseTypes
  <2>5. ASSUME NEW n, ReceivePart(n) PROVE TypeOK'
    BY <2>3, <2>5 DEF ReceivePart, Takes, TypeOK, outputs
  <2>6. ASSUME NEW n, ReceivePacket(n) PROVE TypeOK'
    <3>1. Takes(n) /\ PacketSize(Received(n)) > 0
      BY <2>6 DEF ReceivePacket
    <3>2. res_mp4' \in Seq(Units) /\ res_bin' \in Seq(Units)
      BY <2>4, <2>6, <3>1, ConcatProperties DEF ReceivePacket, TypeOK
    <3>3. recv_total_file_size' \in Nat
      BY <2>4, <2>6, <3>1 DEF ReceivePacket, TypeOK
    <3>4. recv_buffer' \in Seq(Units)
      BY <2>6, EmptySeq DEF ReceivePacket
    <3>5. pc' \in Waits \cup Finals
      BY <2>6 DEF ReceivePacket, NextPc, Waits, Finals
    <3> QED BY <2>3, <2>6, <3>1, <3>2, <3>3, <3>4, <3>5
            DEF ReceivePacket, Takes, TypeOK
  <2>7. ASSUME NEW n, KillWriting(n) PROVE TypeOK'
    <3>1. Takes(n) /\ PacketSize(Received(n)) > 0
      BY <2>7 DEF KillWriting
    <3>2. PICK out \in Prefixes(DecodedData(Received(n))),
               raw \in Prefixes(FileData(Received(n))) :
                 res_mp4' = res_mp4 \o out /\ res_bin' = res_bin \o raw
      BY <2>7 DEF KillWriting
    <3>3. out \in Seq(Units) /\ raw \in Seq(Units)
      BY <2>4, <3>1, PrefixType
    <3>4. res_mp4' \in Seq(Units) /\ res_bin' \in Seq(Units)
      BY <3>2, <3>3, ConcatProperties DEF TypeOK
    <3>5. req_bin' \in Seq(Requests)
      BY <2>7, PrefixType DEF KillWriting, TypeOK
    <3> QED BY <2>3, <2>7, <3>1, <3>4, <3>5
            DEF KillWriting, Takes, TypeOK, Finals
  <2>8. CASE ReceiveEnd
    BY <2>8 DEF ReceiveEnd, NextPc, TypeOK, counters, outputs, network, Waits,
                Finals
  <2>9. CASE Kill
    <3>1. req_bin' \in Seq(Requests)
      BY <2>9, PrefixType DEF Kill, TypeOK
    <3> QED BY <2>9, <3>1 DEF Kill, TypeOK, counters, outputs, network, Finals
  <2>10. CASE Restart
    BY <2>10, EmptySeq DEF Restart, TypeOK, Waits
  <2>11. ASSUME Answers
         PROVE  /\ Head(pending) \in Requests
                /\ pending' \in Seq(Requests)
    BY <2>11, HeadTailProperties DEF Answers, TypeOK
  <2>12. CASE ServerReply
    <3>1. PICK fields \in Layouts, n \in ReplySizes(file, Head(pending)) :
            wire' = wire \o Reply(file, fields, Head(pending), n)
      BY <2>12 DEF ServerReply
    <3>2. n \in Nat
      BY <2>11, <2>12, FileType, ReplySizesType DEF ServerReply
    <3>3. Reply(file, fields, Head(pending), n) \in Seq(Units)
      BY <2>11, <2>12, <3>2, FileType, ReplyType DEF ServerReply
    <3>4. wire' \in Seq(Units)
      BY <3>1, <3>3, ConcatProperties DEF TypeOK
    <3> QED BY <2>11, <2>12, <3>4
            DEF ServerReply, Answers, TypeOK, counters, outputs
  <2>13. CASE ErrorReply
    <3>1. PICK fields \in Layouts :
            wire' = wire \o HeaderOnly(file, fields, Head(pending))
      BY <2>13 DEF ErrorReply
    <3>2. HeaderOnly(file, fields, Head(pending)) \in Seq(Units)
      BY <2>11, <2>13, FileType, HeaderUnits DEF ErrorReply
    <3>3. wire' \in Seq(Units)
      BY <3>1, <3>2, ConcatProperties DEF TypeOK
    <3> QED BY <2>11, <2>13, <3>3
            DEF ErrorReply, Answers, TypeOK, counters, outputs
  <2>14. CASE ServerClose
    <3>1. wire' \in Seq(Units)
      BY <2>14, PrefixType DEF ServerClose, TypeOK
    <3> QED BY <2>14, <3>1, EmptySeq
            DEF ServerClose, TypeOK, counters, outputs
  <2>15. CASE UNCHANGED vars
    BY <2>15 DEF vars, TypeOK, counters, outputs, network
  <2> QED BY <2>1, <2>2, <2>5, <2>6, <2>7, <2>8, <2>9, <2>10, <2>12, <2>13,
             <2>14, <2>15 DEF Next
<1> QED BY <1>1, <1>2, PTL DEF Spec

-----------------------------------------------------------------------------
(* One round.                                                              *)

(* A beginning of a beginning.                                             *)
LEMMA BeginsOfConcat ==
  ASSUME NEW s \in Seq(Units), NEW t \in Seq(Units), NEW ans \in Seq(Units),
         Begins(s \o t, ans)
  PROVE  /\ Begins(s, ans)
         /\ Len(s) = Len(ans) => t = <<>>
         /\ Len(s) + Len(t) <= Len(ans)
<1>1. /\ Len(s) \in Nat /\ Len(t) \in Nat /\ Len(ans) \in Nat
      /\ Len(s \o t) = Len(s) + Len(t)
      /\ \A i \in 1..Len(s) : (s \o t)[i] = s[i]
  BY LenProperties, ConcatProperties
<1>2. Len(s) + Len(t) <= Len(ans)
  BY <1>1 DEF Begins
<1>3. \A i \in 1..Len(s) : s[i] = ans[i]
  BY <1>1 DEF Begins
<1>4. Len(s) = Len(ans) => t = <<>>
  BY <1>1, <1>2, EmptySeq
<1> QED BY <1>1, <1>2, <1>3, <1>4 DEF Begins

(* The current request is one of the client's.                             *)
LEMMA CurrentType ==
  ASSUME TypeOK, seq >= 1
  PROVE  /\ Current \in Requests
         /\ Current.start = RangeStart(seq - 1)
         /\ Current.start \in Nat
         /\ Asked(file, Current) \in Nat
         /\ Asked(file, Current) <= RANGE + 1
         /\ Asked(file, Current) =
              MIN(RangeStart(seq), file) - MIN(RangeStart(seq - 1), file)
<1>1. /\ seq - 1 \in Nat /\ seq = (seq - 1) + 1 /\ file \in Nat /\ file >= 1
      /\ RANGE \in Nat
  BY FileType, ClientAssumption DEF TypeOK
<1>2. Current \in Requests
  BY <1>1, RequestType DEF Current
<1>3. /\ RangeStart(seq - 1) \in Nat
      /\ RangeStart(seq) = RangeStart(seq - 1) + RANGE + 1
  BY <1>1, RangeStarts
<1>4. Current.start = RangeStart(seq - 1)
  BY DEF Current, Request
<1>5. \/ Current.end = RangeStart(seq - 1) + RANGE
      \/ Current.end = MIN(RangeStart(seq - 1) + RANGE, file)
  BY DEF Current, Request, RangeEnd
<1> QED BY <1>1, <1>2, <1>3, <1>4, <1>5 DEF Asked, MIN, MAX

(* What Parse finds when recv returns: a part of the answer to the current *)
(* request, or all of it and nothing else.                                 *)
LEMMA AnswerTaken ==
  ASSUME TypeOK, NetInv, NEW n, Takes(n)
  PROVE  /\ seq >= 1 /\ pending = <<>> /\ pending' = <<>>
         /\ total_file_size' \in {total_file_size, file}
         /\ \E ans \in AnswersTo(Current) : Begins(Received(n) \o wire', ans)
         /\ PacketSize(Received(n)) > 0 =>
              /\ wire' = <<>>
              /\ total_file_size' = file
              /\ \E fields \in Layouts, m \in ReplySizes(file, Current) :
                   /\ Begins(Received(n), Reply(file, fields, Current, m))
                   /\ Len(Received(n)) = ParamsEnd(fields) + 2 + m
<1>1. pc = "receive" /\ pending' = pending
  BY DEF Takes
<1>2. /\ n \in 1..Len(wire) /\ wire # <<>>
      /\ Received(n) \in Seq(Units) /\ wire' \in Seq(Units)
      /\ Received(n) \o wire' = recv_buffer \o wire
  <2>1. n \in 1..Len(wire)
    BY TakesUnits
  <2>2. wire # <<>>
    BY <2>1
  <2> QED BY <2>1, <2>2, TakesUnits
<1>3. /\ seq >= 1 /\ pending = <<>>
      /\ \E ans \in AnswersTo(Current) : Begins(recv_buffer \o wire, ans)
  BY <1>1, <1>2 DEF NetInv
<1>4. PICK ans \in AnswersTo(Current) : Begins(Received(n) \o wire', ans)
  BY <1>2, <1>3
<1>5. Current \in Requests /\ file \in Nat
  BY <1>3, CurrentType, FileType
<1>6. total_file_size' = ParsedTotal(Received(n), total_file_size)
  BY DEF Takes
<1>7. CASE \E fields \in Layouts, m \in ReplySizes(file, Current) :
             ans = Reply(file, fields, Current, m)
  <2>1. PICK fields \in Layouts, m \in ReplySizes(file, Current) :
          ans = Reply(file, fields, Current, m)
    BY <1>7
  <2>2. m \in Nat
    BY <1>5, ReplySizesType
  <2>3. ans \in Seq(Units) /\ Len(ans) = ParamsEnd(fields) + 2 + m
    BY <1>5, <2>1, <2>2, ReplyUnits
  <2>4. /\ Begins(Received(n), ans)
        /\ Len(Received(n)) = Len(ans) => wire' = <<>>
    BY <1>2, <1>4, <2>3, BeginsOfConcat
  <2>5. Len(Received(n)) <= ParamsEnd(fields) + 2 + m /\ Len(Received(n)) \in Nat
        /\ ParamsEnd(fields) \in Nat
    BY <1>2, <1>5, <2>1, <2>2, <2>4, PartUnits
  <2>6. /\ total_file_size' \in {total_file_size, file}
        /\ Len(Received(n)) < ParamsEnd(fields) + 2 + m =>
             PacketSize(Received(n)) = 0
    BY <1>2, <1>5, <1>6, <2>1, <2>2, <2>4, PartOfReply
  <2>7. ASSUME PacketSize(Received(n)) > 0
        PROVE  /\ Len(Received(n)) = ParamsEnd(fields) + 2 + m
               /\ total_file_size' = file /\ wire' = <<>>
    <3>1. Len(Received(n)) = ParamsEnd(fields) + 2 + m
      BY <2>2, <2>5, <2>6, <2>7
    <3>2. ParsedTotal(Received(n), total_file_size) = file
      BY <1>2, <1>5, <2>1, <2>2, <2>4, <3>1, WholeReply
    <3> QED BY <1>6, <2>3, <2>4, <3>1, <3>2
  <2> QED BY <1>1, <1>3, <1>4, <2>1, <2>4, <2>6, <2>7
<1>8. CASE \E fields \in Layouts : ans = HeaderOnly(file, fields, Current)
  <2>1. PICK fields \in Layouts : ans = HeaderOnly(file, fields, Current)
    BY <1>8
  <2>2. ans \in Seq(Units)
    BY <1>5, <2>1, HeaderUnits
  <2>3. Begins(Received(n), ans)
    BY <1>2, <1>4, <2>2, BeginsOfConcat
  <2>4. /\ ParsedTotal(Received(n), total_file_size) \in {total_file_size, file}
        /\ PacketSize(Received(n)) = 0
    BY <1>2, <1>5, <2>1, <2>3, PartOfHeader
  <2> QED BY <1>1, <1>3, <1>4, <1>6, <2>4
<1> QED BY <1>4, <1>7, <1>8 DEF AnswersTo

(* A whole answer, or none of it, and no more than fits the buffer.        *)
LEMMA AnswerSent ==
  ASSUME TypeOK, seq >= 1, NEW ans \in AnswersTo(Current)
  PROVE  ans \in Seq(Units) /\ Len(ans) \in Nat /\ Len(ans) <= RecvSize
<1>1. /\ Current \in Requests /\ file \in Nat
      /\ Asked(file, Current) \in Nat /\ Asked(file, Current) <= RANGE + 1
  BY CurrentType, FileType
<1>2. ASSUME NEW fields \in Layouts
      PROVE  /\ ParamsEnd(fields) \in Nat
             /\ ParamsEnd(fields) + 2 + RANGE + 1 <= RecvSize
  BY <1>1, ParamUnitType, ServerAssumption
<1>3. ASSUME NEW fields \in Layouts, NEW m \in ReplySizes(file, Current),
             ans = Reply(file, fields, Current, m)
      PROVE  ans \in Seq(Units) /\ Len(ans) \in Nat /\ Len(ans) <= RecvSize
  <2>1. m \in Nat /\ m <= RANGE + 1
    BY <1>1, ReplySizesType, ClientAssumption
  <2>2. ans \in Seq(Units) /\ Len(ans) = ParamsEnd(fields) + 2 + m
    BY <1>1, <1>3, <2>1, ReplyUnits
  <2> QED BY <1>2, <2>1, <2>2, ClientAssumption
<1>4. ASSUME NEW fields \in Layouts, ans = HeaderOnly(file, fields, Current)
      PROVE  ans \in Seq(Units) /\ Len(ans) \in Nat /\ Len(ans) <= RecvSize
  <2>1. ans \in Seq(Units) /\ Len(ans) = ParamsEnd(fields)
    BY <1>1, <1>4, HeaderUnits
  <2> QED BY <1>2, <2>1, ClientAssumption
<1> QED BY <1>3, <1>4 DEF AnswersTo

(* What is cut off at the end leaves a beginning.                          *)
LEMMA BeginsOfPrefix ==
  ASSUME NEW s \in Seq(Units), NEW t \in Seq(Units), NEW ans \in Seq(Units),
         Begins(s \o t, ans), NEW u \in Prefixes(t)
  PROVE  Begins(s \o u, ans)
<1>1. /\ u \in Seq(Units) /\ Len(u) \in Nat /\ Len(u) <= Len(t)
      /\ \A i \in 1..Len(u) : u[i] = t[i]
  BY PrefixType
<1>2. /\ Len(s) \in Nat /\ Len(t) \in Nat /\ Len(ans) \in Nat
      /\ Len(s \o t) = Len(s) + Len(t)
      /\ Len(s \o u) = Len(s) + Len(u)
      /\ \A i \in 1..(Len(s) + Len(t)) :
           (s \o t)[i] = IF i <= Len(s) THEN s[i] ELSE t[i - Len(s)]
      /\ \A i \in 1..(Len(s) + Len(u)) :
           (s \o u)[i] = IF i <= Len(s) THEN s[i] ELSE u[i - Len(s)]
  BY <1>1, LenProperties, ConcatProperties
<1>3. ASSUME NEW i \in 1..(Len(s) + Len(u)) PROVE (s \o u)[i] = ans[i]
  <2>1. i \in 1..(Len(s) + Len(t))
    BY <1>1, <1>2
  <2>2. (s \o u)[i] = (s \o t)[i]
    <3>1. CASE i <= Len(s)
      BY <1>2, <2>1, <3>1
    <3>2. CASE ~(i <= Len(s))
      <4>1. i - Len(s) \in 1..Len(u)
        BY <1>1, <1>2, <3>2
      <4>2. u[i - Len(s)] = t[i - Len(s)]
        BY <1>1, <4>1
      <4> QED BY <1>2, <2>1, <3>2, <4>2
    <3> QED BY <3>1, <3>2
  <2>3. (s \o t)[i] = ans[i]
    BY <1>2, <2>1 DEF Begins
  <2> QED BY <2>2, <2>3
<1> QED BY <1>1, <1>2, <1>3 DEF Begins

-----------------------------------------------------------------------------
(* The connection.                                                         *)

LEMMA NetStep == TypeOK /\ NetInv /\ [Next]_vars => NetInv'
<1> SUFFICES ASSUME TypeOK, NetInv, [Next]_vars PROVE NetInv'
  OBVIOUS
<1> USE DEF Waits, Finals
<1>1. CASE Connect
  BY <1>1 DEF Connect, NetInv, counters, outputs, network, RoundsAligned,
              BufferFits
<1>2. CASE SendRequest
  <2>1. wire = <<>> /\ pending = <<>> /\ wire' = <<>> /\ recv_buffer' = <<>>
        /\ file' = file /\ seq' = seq + 1 /\ total_file_size' = total_file_size
        /\ pc = "request" /\ pc' \in {"receive", "killed"}
    BY <1>2 DEF SendRequest, NetInv, RoundsAligned
  <2>2. BufferFits'
    BY <2>1, ClientAssumption, EmptySeq DEF BufferFits
  <2>3. Current' = Request(seq, total_file_size)
    <3>1. seq \in Nat /\ (seq + 1) - 1 = seq /\ (seq + 1 = 1 <=> seq = 0)
      BY DEF TypeOK
    <3>2. total_file_size = IF seq = 0 THEN 0 ELSE file
      BY <2>1 DEF NetInv
    <3> QED BY <2>1, <3>1, <3>2 DEF Current
  <2>4. pc' = "receive" => pending' \in {<<>>, <<Current'>>}
    BY <1>2, <2>1, <2>3 DEF SendRequest
  <2>5. pc' = "receive" =>
          /\ seq' >= 1
          /\ total_file_size' = file' \/ (total_file_size' = 0 /\ seq' = 1)
    BY <2>1 DEF NetInv, TypeOK
  <2> QED BY <2>1, <2>2, <2>4, <2>5 DEF NetInv, RoundsAligned
<1>3. ASSUME NEW n, Takes(n)
      PROVE  /\ seq' = seq /\ file' = file /\ pending' = <<>> /\ Current' = Current
             /\ AnswersTo(Current)' = AnswersTo(Current)
             /\ seq >= 1
             /\ total_file_size' = file \/ (total_file_size' = 0 /\ seq = 1)
             /\ Len(wire') \in Nat /\ Len(recv_buffer) \in Nat
             /\ Len(Received(n)) + Len(wire') = Len(recv_buffer) + Len(wire)
  <2>1. seq' = seq /\ file' = file /\ pc = "receive"
    BY <1>3 DEF Takes
  <2>2. total_file_size = file \/ (total_file_size = 0 /\ seq = 1)
    BY <2>1 DEF NetInv
  <2>3. /\ Len(Received(n)) = Len(recv_buffer) + n /\ n \in 1..Len(wire)
        /\ Len(wire') = Len(wire) - n
        /\ Len(wire) \in Nat /\ Len(recv_buffer) \in Nat
    BY <1>3, TakesUnits, LenProperties DEF TypeOK
  <2>4. Current' = Current
    BY <2>1 DEF Current
  <2>5. AnswersTo(Current)' = AnswersTo(Current)
    BY <2>1, <2>4 DEF AnswersTo
  <2> QED BY <1>3, <2>1, <2>2, <2>3, <2>4, <2>5, AnswerTaken
<1>4. ASSUME NEW n, ReceivePart(n) PROVE NetInv'
  <2>1. Takes(n) /\ pc = "receive" /\ pc' = "receive" /\ recv_buffer' = Received(n)
    BY <1>4 DEF ReceivePart, Takes
  <2>2. \E ans \in AnswersTo(Current) : Begins(Received(n) \o wire', ans)
    BY <2>1, AnswerTaken
  <2>3. (\E ans \in AnswersTo(Current) : Begins(recv_buffer \o wire, ans))'
    BY <1>3, <2>1, <2>2 DEF Begins
  <2>4. BufferFits'
    BY <1>3, <2>1 DEF NetInv, BufferFits
  <2> QED BY <1>3, <2>1, <2>3, <2>4 DEF NetInv, RoundsAligned
<1>5. ASSUME NEW n, ReceivePacket(n) PROVE NetInv'
  <2>1. Takes(n) /\ recv_buffer' = <<>> /\ PacketSize(Received(n)) > 0
        /\ pc' \in {"complete", "request"}
    BY <1>5 DEF ReceivePacket, NextPc
  <2>2. wire' = <<>> /\ total_file_size' = file /\ seq >= 1
    BY <2>1, AnswerTaken
  <2>3. BufferFits'
    BY <2>1, <2>2, ClientAssumption, EmptySeq DEF BufferFits
  <2> QED BY <1>3, <2>1, <2>2, <2>3 DEF NetInv, RoundsAligned, TypeOK
<1>6. ASSUME NEW n, KillWriting(n) PROVE NetInv'
  <2>1. Takes(n) /\ pc' = "killed" /\ recv_buffer' = recv_buffer
    BY <1>6 DEF KillWriting
  <2>2. BufferFits'
    <3>1. /\ Len(Received(n)) = Len(recv_buffer) + n /\ n \in 1..Len(wire)
          /\ Len(wire') = Len(wire) - n
          /\ Len(wire) \in Nat /\ Len(recv_buffer) \in Nat
      BY <2>1, TakesUnits, LenProperties DEF TypeOK
    <3>2. Len(recv_buffer) + Len(wire') <= Len(recv_buffer) + Len(wire)
      BY <3>1
    <3> QED BY <2>1, <3>1, <3>2, ClientAssumption DEF NetInv, BufferFits
  <2> QED BY <2>1, <2>2 DEF NetInv, RoundsAligned
<1>7. CASE ReceiveEnd
  BY <1>7 DEF ReceiveEnd, NextPc, NetInv, counters, outputs, network,
              RoundsAligned, BufferFits
<1>8. CASE Kill
  BY <1>8 DEF Kill, NetInv, counters, outputs, network, RoundsAligned, BufferFits
<1>9. CASE Restart
  <2>1. BufferFits'
    BY <1>9, ClientAssumption, EmptySeq DEF BufferFits, Restart
  <2> QED BY <1>9, <2>1 DEF Restart, NetInv, RoundsAligned
<1>10. ASSUME Answers
       PROVE  /\ pc = "receive" /\ pc' = pc /\ seq >= 1 /\ seq' = seq
              /\ file' = file /\ wire = <<>> /\ recv_buffer = <<>>
              /\ recv_buffer' = <<>> /\ pending' = <<>>
              /\ Head(pending) = Current
              /\ total_file_size' = total_file_size
              /\ Current' = Current /\ AnswersTo(Current)' = AnswersTo(Current)
  <2>1. pc = "receive" /\ pending # <<>> /\ pending' = Tail(pending)
        /\ pc' = pc /\ seq' = seq /\ file' = file /\ recv_buffer' = recv_buffer
        /\ total_file_size' = total_file_size
    BY <1>10 DEF Answers, NetInv, RoundsAligned, counters
  <2>2. wire = <<>> /\ recv_buffer = <<>> /\ pending = <<Current>> /\ seq >= 1
    BY <2>1 DEF NetInv
  <2>3. Head(pending) = Current /\ Tail(pending) = <<>>
    BY <2>2
  <2>4. Current' = Current
    BY <2>1 DEF Current
  <2>5. AnswersTo(Current)' = AnswersTo(Current)
    BY <2>1, <2>4 DEF AnswersTo
  <2> QED BY <2>1, <2>2, <2>3, <2>4, <2>5
<1>11. ASSUME Answers, NEW ans \in AnswersTo(Current), wire' = wire \o ans
       PROVE  NetInv'
  <2>1. ans \in Seq(Units) /\ Len(ans) \in Nat /\ Len(ans) <= RecvSize
    BY <1>10, <1>11, AnswerSent
  <2>2. wire' = ans /\ recv_buffer' \o wire' = ans
    BY <1>10, <1>11, <2>1, ConcatEmptySeq
  <2>3. Begins(recv_buffer' \o wire', ans)
    BY <2>1, <2>2 DEF Begins
  <2>4. (\E a \in AnswersTo(Current) : Begins(recv_buffer \o wire, a))'
    BY <1>10, <1>11, <2>3 DEF Begins
  <2>5. BufferFits'
    BY <1>10, <1>11, <2>1, <2>2, EmptySeq DEF BufferFits
  <2> QED BY <1>10, <1>11, <2>4, <2>5 DEF NetInv, RoundsAligned
<1>12. CASE ServerReply
  <2>1. Answers
    BY <1>12 DEF ServerReply
  <2>2. PICK fields \in Layouts, n \in ReplySizes(file, Current) :
          wire' = wire \o Reply(file, fields, Current, n)
    BY <1>10, <1>12, <2>1 DEF ServerReply
  <2>3. Reply(file, fields, Current, n) \in AnswersTo(Current)
    BY <2>2 DEF AnswersTo
  <2> QED BY <1>11, <2>1, <2>2, <2>3
<1>13. CASE ErrorReply
  <2>1. Answers
    BY <1>13 DEF ErrorReply
  <2>2. PICK fields \in Layouts :
          wire' = wire \o HeaderOnly(file, fields, Current)
    BY <1>10, <1>13, <2>1 DEF ErrorReply
  <2>3. HeaderOnly(file, fields, Current) \in AnswersTo(Current)
    BY <2>2 DEF AnswersTo
  <2> QED BY <1>11, <2>1, <2>2, <2>3
<1>14. CASE ServerClose
  <2>1. /\ wire' \in Prefixes(wire) /\ pending' = <<>> /\ pc' = pc
        /\ seq' = seq /\ file' = file /\ recv_buffer' = recv_buffer
        /\ total_file_size' = total_file_size /\ res_mp4' = res_mp4
        /\ wire \in Seq(Units) /\ recv_buffer \in Seq(Units)
    BY <1>14 DEF ServerClose, counters, outputs, TypeOK
  <2>2. wire' \in Seq(Units) /\ Len(wire') \in Nat /\ Len(wire') <= Len(wire)
    BY <2>1, PrefixType
  <2>3. wire = <<>> => wire' = <<>>
    BY <2>1, <2>2, EmptySeq
  <2>4. Current' = Current
    BY <2>1 DEF Current
  <2>5. AnswersTo(Current)' = AnswersTo(Current)
    BY <2>1, <2>4 DEF AnswersTo
  <2>6. ASSUME seq >= 1, NEW ans \in AnswersTo(Current),
               Begins(recv_buffer \o wire, ans)
        PROVE  Begins(recv_buffer' \o wire', ans)
    BY <2>1, <2>6, AnswerSent, BeginsOfPrefix
  <2>7. ASSUME seq >= 1,
               \E ans \in AnswersTo(Current) : Begins(recv_buffer \o wire, ans)
        PROVE  (\E ans \in AnswersTo(Current) : Begins(recv_buffer \o wire, ans))'
    BY <2>5, <2>6, <2>7 DEF Begins
  <2>8. BufferFits'
    <3>1. Len(recv_buffer) \in Nat /\ Len(wire) \in Nat
      BY <2>1, LenProperties
    <3> QED BY <2>1, <2>2, <3>1, ClientAssumption DEF NetInv, BufferFits
  <2> QED BY <2>1, <2>3, <2>4, <2>7, <2>8 DEF NetInv, RoundsAligned
<1>15. CASE UNCHANGED vars
  <2>1. Current' = Current
    BY <1>15 DEF vars, Current, counters
  <2>2. AnswersTo(Current)' = AnswersTo(Current)
    BY <1>15, <2>1 DEF vars, AnswersTo
  <2> QED BY <1>15, <2>1, <2>2
          DEF vars, NetInv, counters, outputs, network, RoundsAligned,
              BufferFits, Begins
<1> QED BY <1>1, <1>2, <1>4, <1>5, <1>6, <1>7, <1>8, <1>9, <1>12, <1>13, <1>14,
           <1>15 DEF Next

-----------------------------------------------------------------------------
(* The output.                                                             *)

LEMMA FilledMore ==
  ASSUME NEW out \in Seq(Units), NEW b \in Nat, NEW c \in Nat, b <= c,
         FilledTo(out, b)
  PROVE  FilledTo(out, c)
<1>1. Len(out) \in Nat
  BY LenProperties
<1>2. ASSUME NEW i \in 1..Len(out) PROVE out[i].num \in (i - 1)..(c - 1)
  <2>1. out[i].num \in (i - 1)..(b - 1)
    BY DEF FilledTo
  <2> QED BY <1>1, <2>1
<1> QED BY <1>1, <1>2 DEF FilledTo

(* A payload that lies between two positions fills the output up to the    *)
(* second one, or leaves it short of it.                                   *)
LEMMA FilledBy ==
  ASSUME NEW out \in Seq(Units), NEW b \in Nat, FilledTo(out, b),
         NEW data \in Seq(Units), NEW start \in Nat, NEW c \in Nat, b <= c,
         Len(data) <= c - b, data # <<>> => start = b,
         \A i \in 1..Len(data) : data[i] = Block(start + i - 1, {})
  PROVE  /\ FilledTo(out \o data, c)
         /\ \A i \in 1..Len(data) : (out \o data)[Len(out) + i].num = start + i - 1
<1> DEFINE L == Len(out)
           q == Len(data)
           all == out \o data
<1>1. /\ L \in Nat /\ q \in Nat /\ Len(all) = L + q
      /\ \A i \in 1..(L + q) : all[i] = IF i <= L THEN out[i] ELSE data[i - L]
  BY LenProperties, ConcatProperties
<1>2. q > 0 => start = b
  BY <1>1, EmptySeq
<1>3. L <= b
  BY DEF FilledTo
<1>4. \A i \in 1..L : all[i] = out[i]
  BY <1>1
<1>5. \A i \in (L + 1)..(L + q) :
        all[i] = Block(b + (i - L) - 1, {}) /\ all[i].num = b + (i - L) - 1
  <2> SUFFICES ASSUME NEW i \in (L + 1)..(L + q)
               PROVE  /\ all[i] = Block(b + (i - L) - 1, {})
                      /\ all[i].num = b + (i - L) - 1
    OBVIOUS
  <2>1. i - L \in 1..q /\ i \in 1..(L + q) /\ ~(i <= L)
    BY <1>1
  <2>2. all[i] = data[i - L]
    BY <1>1, <2>1
  <2>3. data[i - L] = Block(start + (i - L) - 1, {})
    BY <2>1
  <2>4. start = b
    BY <1>1, <1>2, <2>1
  <2>5. all[i] = Block(b + (i - L) - 1, {})
    BY <2>2, <2>3, <2>4
  <2>6. Block(b + (i - L) - 1, {}).num = b + (i - L) - 1
    BY DEF Block, Unit
  <2> QED BY <2>5, <2>6
<1> HIDE DEF L, q, all
<1>6. L + q <= c
  BY <1>1, <1>3 DEF q
<1>7. ASSUME NEW i \in 1..(L + q)
      PROVE  all[i] = Block(all[i].num, {}) /\ all[i].num \in (i - 1)..(c - 1)
  <2>1. CASE i \in 1..L
    <3>1. out[i] = Block(out[i].num, {}) /\ out[i].num \in (i - 1)..(b - 1)
      BY <2>1 DEF FilledTo, L
    <3> QED BY <1>1, <1>4, <2>1, <3>1
  <2>2. CASE i \in (L + 1)..(L + q)
    <3>1. /\ all[i] = Block(b + (i - L) - 1, {})
          /\ all[i].num = b + (i - L) - 1
      BY <1>5, <2>2
    <3>2. b + (i - L) - 1 \in (i - 1)..(c - 1)
      BY <1>1, <1>3, <2>2 DEF q
    <3> QED BY <3>1, <3>2
  <2> QED BY <1>1, <2>1, <2>2
<1>8. ASSUME NEW i \in 1..(L + q), NEW j \in 1..(L + q), i < j
      PROVE  all[i].num < all[j].num
  <2>1. CASE j \in 1..L
    <3>1. i \in 1..L
      BY <1>1, <1>8, <2>1
    <3>2. out[i].num < out[j].num
      BY <1>8, <2>1, <3>1 DEF FilledTo, L
    <3> QED BY <1>4, <2>1, <3>1, <3>2
  <2>2. CASE j \in (L + 1)..(L + q)
    <3>1. all[j].num = b + (j - L) - 1
      BY <1>5, <2>2
    <3>2. CASE i \in 1..L
      <4>1. out[i].num \in (i - 1)..(b - 1)
        BY <3>2 DEF FilledTo, L
      <4> QED BY <1>1, <1>4, <2>2, <3>1, <3>2, <4>1
    <3>3. CASE i \in (L + 1)..(L + q)
      <4>1. all[i].num = b + (i - L) - 1
        BY <1>5, <3>3
      <4> QED BY <1>1, <1>8, <3>1, <4>1
    <3> QED BY <1>1, <3>2, <3>3
  <2> QED BY <1>1, <2>1, <2>2
<1>9. ASSUME L + q = c, NEW i \in 1..(L + q) PROVE all[i].num = i - 1
  <2>1. L = b
    BY <1>1, <1>3, <1>9 DEF q
  <2>2. CASE i \in 1..L
    <3>1. out[i].num = i - 1
      BY <2>1, <2>2 DEF FilledTo, L
    <3> QED BY <1>4, <2>2, <3>1
  <2>3. CASE i \in (L + 1)..(L + q)
    BY <1>1, <1>5, <2>1, <2>3
  <2> QED BY <1>1, <2>2, <2>3
<1>10. FilledTo(all, c)
  BY <1>1, <1>6, <1>7, <1>8, <1>9 DEF FilledTo
<1>11. ASSUME NEW i \in 1..q PROVE all[L + i].num = start + i - 1
  <2>1. L + i \in (L + 1)..(L + q) /\ (L + i) - L = i /\ q > 0
    BY <1>1
  <2> QED BY <1>2, <1>5, <2>1
<1> QED BY <1>10, <1>11 DEF all, L, q

LEMMA CoveredType ==
  ASSUME TypeOK, NetInv
  PROVE  Covered \in Nat /\ Covered <= file
<1>1. file \in Nat
  BY FileType
<1>2. pc \in Waits => Answered \in Nat
  BY DEF Answered, NetInv, TypeOK, Waits
<1>3. pc \in Waits => RangeStart(Answered) \in Nat
  BY <1>2, RangeStarts
<1> QED BY <1>1, <1>3 DEF Covered, MIN

(* A step that writes nothing.                                             *)
LEMMA OutKept ==
  ASSUME TypeOK, OutInv, res_mp4' = res_mp4, res_bin' = res_bin, file' = file,
         Covered \in Nat, Covered' \in Nat, Covered <= Covered',
         pc' = "killed" \/ pc # "killed",
         pc' \in Waits \cup {"complete"} => recv_total_file_size' = Len(res_mp4),
         pc' = "complete" => Len(res_mp4) >= file
  PROVE  OutInv'
<1>1. FilledTo(res_mp4, Covered')
  BY FilledMore DEF OutInv, TypeOK
<1>2. FilledTo(res_mp4', Covered')
  BY <1>1
<1>3. RawBesideOutput'
  BY DEF OutInv, RawBesideOutput
<1> QED BY <1>2, <1>3 DEF OutInv, FilledTo

(* What is written when a packet has arrived: out to res.mp4 and raw to    *)
(* res.bin, all of the payload or a part of it.                            *)
LEMMA PacketWritten ==
  ASSUME TypeOK, NetInv, OutInv, NEW n, Takes(n), PacketSize(Received(n)) > 0,
         NEW out \in Prefixes(DecodedData(Received(n))),
         NEW raw \in Prefixes(FileData(Received(n))), Len(raw) <= Len(out),
         res_mp4' = res_mp4 \o out, res_bin' = res_bin \o raw
  PROVE  /\ FileSize(Received(n)) \in ReplySizes(file, Current)
         /\ Len(out) \in Nat /\ Len(raw) \in Nat
         /\ Len(out) <= FileSize(Received(n))
         /\ Len(res_mp4') = Len(res_mp4) + Len(out)
         /\ FilledTo(res_mp4', MIN(RangeStart(seq), file))
         /\ \A i \in 1..Len(out) :
              res_mp4'[Len(res_mp4) + i].num = RangeStart(seq - 1) + i - 1
         /\ Len(res_bin') = Len(res_bin) + Len(raw)
         /\ \A i \in 1..Len(res_bin') : res_bin'[i] = ServedBlock(res_mp4'[i].num)
<1> DEFINE buf == Received(n)
           b == MIN(RangeStart(seq - 1), file)
           c == MIN(RangeStart(seq), file)
           L == Len(res_mp4)
<1>1. /\ seq >= 1 /\ pc = "receive" /\ buf \in Seq(Units)
      /\ file \in Nat /\ file >= 1 /\ seq \in Nat /\ seq - 1 \in Nat
  <2>1. seq \in Nat /\ pc = "receive"
    BY DEF TypeOK, Takes
  <2>2. seq >= 1
    BY AnswerTaken
  <2>3. buf \in Seq(Units)
    BY TakesUnits
  <2>4. file \in Nat /\ file >= 1
    BY FileType
  <2> QED BY <2>1, <2>2, <2>3, <2>4
<1>2. PICK fields \in Layouts, m \in ReplySizes(file, Current) :
        /\ Begins(buf, Reply(file, fields, Current, m))
        /\ Len(buf) = ParamsEnd(fields) + 2 + m
  BY AnswerTaken
<1>3. /\ Current \in Requests /\ Current.start = RangeStart(seq - 1)
      /\ Asked(file, Current) = c - b /\ Asked(file, Current) \in Nat
      /\ Asked(file, Current) <= RANGE + 1
  BY <1>1, CurrentType
<1>4. m \in Nat /\ m <= c - b /\ m <= RANGE + 1
  <2>1. m \in 0..Asked(file, Current)
    BY <1>1, <1>3, ReplySizesType
  <2>2. m \in Nat /\ m <= Asked(file, Current)
    BY <1>3, <2>1
  <2> HIDE DEF b, c
  <2>3. m <= RANGE + 1
    BY <1>3, <2>2, ClientAssumption
  <2> QED BY <1>3, <2>2, <2>3
<1>5. /\ RangeStart(seq - 1) \in Nat
      /\ RangeStart(seq) = RangeStart(seq - 1) + RANGE + 1
      /\ RangeStart(seq - 1) = 0 \/ RangeStart(seq - 1) >= RANGE + 1
  <2>1. seq - 1 = 0 \/ seq - 1 >= 1
    BY <1>1
  <2>2. (seq - 1) + 1 = seq
    BY <1>1
  <2> QED BY <1>1, <2>1, <2>2, RangeStarts
<1>6. b \in Nat /\ c \in Nat /\ b <= c /\ (m > 0 => RangeStart(seq - 1) = b)
  BY <1>1, <1>4, <1>5, ClientAssumption DEF MIN
<1>7. /\ FileSize(buf) = m
      /\ FileData(buf) \in Seq(Units) /\ Len(FileData(buf)) = m
      /\ \A i \in 1..m :
           FileData(buf)[i] = ServedBlock(RangeStart(seq - 1) + i - 1)
  <2>1. ASSUME NEW p, p = ParamsEnd(fields)
        PROVE  /\ FileSize(buf) = m
               /\ FileData(buf) \in Seq(Units) /\ Len(FileData(buf)) = m
               /\ \A i \in 1..m :
                    FileData(buf)[i] = ServedBlock(Current.start + i - 1)
    BY <1>1, <1>2, <1>3, <1>4, <2>1, WholeReply
  <2> QED BY <1>3, <2>1
<1>8. /\ DecodedData(buf) \in Seq(Units) /\ Len(DecodedData(buf)) = m
      /\ \A i \in 1..m :
           DecodedData(buf)[i] = Block(RangeStart(seq - 1) + i - 1, {})
  BY <1>1, <1>2, <1>3, <1>4, <1>5, DecodedReply
<1>9. /\ out \in Seq(Units) /\ Len(out) \in Nat /\ Len(out) <= m
      /\ \A i \in 1..Len(out) : out[i] = Block(RangeStart(seq - 1) + i - 1, {})
  <2>1. /\ out \in Seq(Units) /\ Len(out) \in Nat /\ Len(out) <= m
        /\ \A i \in 1..Len(out) : out[i] = DecodedData(buf)[i]
    BY <1>8, PrefixType
  <2>2. \A i \in 1..Len(out) : i \in 1..m
    BY <1>4, <2>1
  <2> QED BY <1>8, <2>1, <2>2
<1>10. /\ raw \in Seq(Units) /\ Len(raw) \in Nat
       /\ \A i \in 1..Len(raw) : raw[i] = ServedBlock(RangeStart(seq - 1) + i - 1)
  <2>1. /\ raw \in Seq(Units) /\ Len(raw) \in Nat /\ Len(raw) <= m
        /\ \A i \in 1..Len(raw) : raw[i] = FileData(buf)[i]
    BY <1>7, PrefixType
  <2>2. \A i \in 1..Len(raw) : i \in 1..m
    BY <1>4, <2>1
  <2> QED BY <1>7, <2>1, <2>2
<1>11. FilledTo(res_mp4, b)
  BY <1>1 DEF OutInv, Covered, Answered, Waits
<1>12. out # <<>> => RangeStart(seq - 1) = b
  BY <1>4, <1>6, <1>9, EmptySeq
<1>13. res_mp4 \in Seq(Units) /\ res_bin \in Seq(Units)
  BY DEF TypeOK
<1>14. Len(out) <= c - b
  BY <1>4, <1>6, <1>9
<1> HIDE DEF buf, b, c
<1>15. /\ FilledTo(res_mp4', c)
       /\ \A i \in 1..Len(out) : res_mp4'[L + i].num = RangeStart(seq - 1) + i - 1
  <2>1. /\ FilledTo(res_mp4 \o out, c)
        /\ \A i \in 1..Len(out) :
             (res_mp4 \o out)[Len(res_mp4) + i].num = RangeStart(seq - 1) + i - 1
    <3> DEFINE start == RangeStart(seq - 1)
    <3> HIDE DEF start
    <3>1. /\ start \in Nat /\ b \in Nat /\ c \in Nat /\ b <= c
          /\ res_mp4 \in Seq(Units) /\ out \in Seq(Units)
          /\ FilledTo(res_mp4, b) /\ Len(out) <= c - b
          /\ out # <<>> => start = b
          /\ \A i \in 1..Len(out) : out[i] = Block(start + i - 1, {})
      BY <1>5, <1>6, <1>9, <1>11, <1>12, <1>13, <1>14 DEF start
    <3>2. /\ FilledTo(res_mp4 \o out, c)
          /\ \A i \in 1..Len(out) :
               (res_mp4 \o out)[Len(res_mp4) + i].num = start + i - 1
      BY ONLY <3>1, FilledBy
    <3> QED BY <3>2 DEF start
  <2> QED BY <2>1
<1>16. /\ Len(res_mp4') = L + Len(out) /\ Len(res_bin') = Len(res_bin) + Len(raw)
       /\ L \in Nat /\ Len(res_bin) \in Nat
       /\ \A i \in 1..L : res_mp4'[i] = res_mp4[i]
       /\ \A i \in 1..(Len(res_bin) + Len(raw)) :
            res_bin'[i] = IF i <= Len(res_bin) THEN res_bin[i]
                                               ELSE raw[i - Len(res_bin)]
  BY <1>9, <1>10, <1>13, LenProperties, ConcatProperties
<1>17. Len(res_bin) = L /\ \A i \in 1..L : res_bin[i] = ServedBlock(res_mp4[i].num)
  BY <1>1, <1>16 DEF OutInv, RawBesideOutput
<1>18. ASSUME NEW i \in 1..Len(res_bin')
       PROVE  res_bin'[i] = ServedBlock(res_mp4'[i].num)
  <2>1. CASE i \in 1..L
    BY <1>10, <1>16, <1>17, <2>1
  <2>2. CASE i \in (L + 1)..(L + Len(raw))
    <3>1. i - L \in 1..Len(raw) /\ i - L \in 1..Len(out) /\ L + (i - L) = i
      BY <1>9, <1>10, <1>16, <2>2
    <3>2. res_bin'[i] = ServedBlock(RangeStart(seq - 1) + (i - L) - 1)
      BY <1>10, <1>16, <1>17, <2>2, <3>1
    <3>3. res_mp4'[i].num = RangeStart(seq - 1) + (i - L) - 1
      BY <1>15, <3>1
    <3> QED BY <3>2, <3>3
  <2> QED BY <1>10, <1>16, <1>17, <2>1, <2>2
<1> QED BY <1>2, <1>7, <1>9, <1>10, <1>15, <1>16, <1>18 DEF buf, c

(* A packet that is written in full.                                       *)
LEMMA PacketInFull ==
  ASSUME TypeOK, NetInv, OutInv, NEW n, ReceivePacket(n)
  PROVE  /\ FileSize(Received(n)) \in ReplySizes(file, Current)
         /\ FileSize(Received(n)) \in Nat
         /\ Len(res_mp4') = Len(res_mp4) + FileSize(Received(n))
         /\ FilledTo(res_mp4', MIN(RangeStart(seq), file))
         /\ \A i \in 1..FileSize(Received(n)) :
              res_mp4'[Len(res_mp4) + i].num = RangeStart(seq - 1) + i - 1
         /\ recv_total_file_size' = Len(res_mp4')
         /\ RawBesideOutput'
<1> DEFINE out == DecodedData(Received(n))
           raw == FileData(Received(n))
<1>1. /\ Takes(n) /\ PacketSize(Received(n)) > 0 /\ pc = "receive"
      /\ res_mp4' = res_mp4 \o out /\ res_bin' = res_bin \o raw
      /\ recv_total_file_size' = recv_total_file_size + FileSize(Received(n))
  BY DEF ReceivePacket, Takes
<1>2. /\ out \in Seq(Units) /\ raw \in Seq(Units)
      /\ Len(out) = FileSize(Received(n)) /\ Len(raw) = FileSize(Received(n))
      /\ FileSize(Received(n)) \in Nat
  <2>1. Received(n) \in Seq(Units) /\ total_file_size \in Nat
    BY <1>1, TakesUnits DEF TypeOK
  <2> QED BY <1>1, <2>1, ParseTypes
<1> HIDE DEF out, raw
<1>3. ASSUME NEW s \in Seq(Units) PROVE s \in Prefixes(s)
  <2>1. s = SubSeq(s, 1, Len(s)) /\ Len(s) \in 0..Len(s)
    BY SubSeqFull, LenProperties
  <2> QED BY <2>1 DEF Prefixes
<1>4. out \in Prefixes(out) /\ raw \in Prefixes(raw) /\ Len(raw) <= Len(out)
  BY <1>2, <1>3
<1>5. /\ FileSize(Received(n)) \in ReplySizes(file, Current)
      /\ Len(res_mp4') = Len(res_mp4) + Len(out)
      /\ FilledTo(res_mp4', MIN(RangeStart(seq), file))
      /\ \A i \in 1..Len(out) :
           res_mp4'[Len(res_mp4) + i].num = RangeStart(seq - 1) + i - 1
      /\ Len(res_bin') = Len(res_bin) + Len(raw)
      /\ \A i \in 1..Len(res_bin') : res_bin'[i] = ServedBlock(res_mp4'[i].num)
  BY <1>1, <1>4, PacketWritten DEF out, raw
<1>6. recv_total_file_size = Len(res_mp4) /\ Len(res_bin) = Len(res_mp4)
      /\ Len(res_mp4) \in Nat
  <2>1. Len(res_mp4) \in Nat /\ Len(res_bin) \in Nat
    BY LenProperties DEF TypeOK
  <2> QED BY <1>1, <2>1 DEF OutInv, RawBesideOutput, Waits
<1>7. RawBesideOutput'
  BY <1>2, <1>5, <1>6 DEF RawBesideOutput
<1> QED BY <1>1, <1>2, <1>5, <1>6, <1>7

(* A packet that the process is killed while writing.                      *)
LEMMA KilledWriting ==
  ASSUME TypeOK, NetInv, OutInv, NEW n, KillWriting(n)
  PROVE  \E k \in Nat :
           /\ Len(res_mp4') = Len(res_mp4) + k
           /\ FilledTo(res_mp4', MIN(RangeStart(seq), file))
           /\ \A i \in 1..Len(res_mp4) : res_mp4'[i] = res_mp4[i]
           /\ \A i \in 1..k :
                res_mp4'[Len(res_mp4) + i].num = RangeStart(seq - 1) + i - 1
           /\ res_mp4' \in Seq(Units)
           /\ RawBesideOutput'
<1>1. Takes(n) /\ PacketSize(Received(n)) > 0 /\ pc' = "killed" /\ pc = "receive"
  BY DEF KillWriting, Takes
<1>2. PICK out \in Prefixes(DecodedData(Received(n))),
           raw \in Prefixes(FileData(Received(n))) :
             /\ raw # <<>> => Len(out) = FileSize(Received(n))
             /\ res_mp4' = res_mp4 \o out /\ res_bin' = res_bin \o raw
  BY DEF KillWriting
<1>3. /\ out \in Seq(Units) /\ raw \in Seq(Units)
      /\ Len(raw) <= FileSize(Received(n)) /\ FileSize(Received(n)) \in Nat
  <2>1. total_file_size \in Nat /\ Received(n) \in Seq(Units)
    BY <1>1, TakesUnits DEF TypeOK
  <2>2. /\ DecodedData(Received(n)) \in Seq(Units)
        /\ FileData(Received(n)) \in Seq(Units)
        /\ Len(FileData(Received(n))) = FileSize(Received(n))
        /\ FileSize(Received(n)) \in Nat
    BY <1>1, <2>1, ParseTypes
  <2> QED BY <2>2, PrefixType
<1>4. Len(raw) <= Len(out)
  BY <1>2, <1>3, EmptySeq, LenProperties
<1>5. /\ Len(out) \in Nat /\ Len(raw) \in Nat
      /\ Len(res_mp4') = Len(res_mp4) + Len(out)
      /\ FilledTo(res_mp4', MIN(RangeStart(seq), file))
      /\ \A i \in 1..Len(out) :
           res_mp4'[Len(res_mp4) + i].num = RangeStart(seq - 1) + i - 1
      /\ Len(res_bin') = Len(res_bin) + Len(raw)
      /\ \A i \in 1..Len(res_bin') : res_bin'[i] = ServedBlock(res_mp4'[i].num)
  BY <1>1, <1>2, <1>4, PacketWritten
<1>6. /\ res_mp4' \in Seq(Units)
      /\ \A i \in 1..Len(res_mp4) : res_mp4'[i] = res_mp4[i]
  BY <1>2, <1>3, ConcatProperties DEF TypeOK
<1>7. RawBesideOutput'
  <2>1. /\ Len(res_bin) <= Len(res_mp4)
        /\ Len(res_bin) \in Nat /\ Len(res_mp4) \in Nat
    BY LenProperties DEF OutInv, RawBesideOutput, TypeOK
  <2> QED BY <1>1, <1>4, <1>5, <2>1 DEF RawBesideOutput
<1> QED BY <1>5, <1>6, <1>7

LEMMA OutStep == TypeOK /\ NetInv /\ OutInv /\ [Next]_vars => OutInv'
<1> SUFFICES ASSUME TypeOK, NetInv, OutInv, [Next]_vars PROVE OutInv'
  OBVIOUS
<1> USE DEF Waits, Finals
<1>1. /\ Covered \in Nat /\ Covered <= file /\ file \in Nat /\ file >= 1
      /\ Len(res_mp4) \in Nat
  BY CoveredType, FileType, LenProperties DEF TypeOK
<1>2. ASSUME res_mp4' = res_mp4, res_bin' = res_bin, file' = file,
             Covered' \in {Covered, file},
             pc' = "killed" \/ pc # "killed",
             pc' \in Waits \cup {"complete"} =>
               recv_total_file_size' = Len(res_mp4),
             pc' = "complete" => Len(res_mp4) >= file
      PROVE  OutInv'
  BY <1>1, <1>2, OutKept
<1>3. CASE Connect
  BY <1>2, <1>3 DEF Connect, Covered, Answered, counters, outputs, OutInv
<1>4. CASE SendRequest
  <2>1. Covered' \in {Covered, file}
    <3>1. (seq + 1) - 1 = seq
      BY DEF TypeOK
    <3> QED BY <1>4, <3>1 DEF SendRequest, Covered, Answered
  <2> QED BY <1>2, <1>4, <2>1 DEF SendRequest, outputs, OutInv
<1>5. ASSUME NEW n, ReceivePart(n) PROVE OutInv'
  BY <1>2, <1>5 DEF ReceivePart, Takes, Covered, Answered, outputs, OutInv
<1>6. ASSUME NEW n, ReceivePacket(n) PROVE OutInv'
  <2>1. /\ pc' = NextPc(total_file_size', recv_total_file_size', TRUE)
        /\ file' = file /\ seq' = seq /\ pc = "receive" /\ Takes(n)
        /\ PacketSize(Received(n)) > 0
    BY <1>6 DEF ReceivePacket, Takes
  <2>2. total_file_size' = file /\ seq >= 1
    BY <2>1, AnswerTaken
  <2>3. /\ recv_total_file_size' = Len(res_mp4')
        /\ FilledTo(res_mp4', MIN(RangeStart(seq), file))
        /\ RawBesideOutput'
    BY <1>6, PacketInFull
  <2>4. MIN(RangeStart(seq), file) \in Nat /\ MIN(RangeStart(seq), file) <= file
    <3>1. RangeStart(seq) \in Nat
      BY RangeStarts DEF TypeOK
    <3> QED BY <1>1, <3>1 DEF MIN
  <2>5. Covered' \in {MIN(RangeStart(seq), file), file}
    BY <2>1 DEF Covered, Answered, NextPc
  <2>6. res_mp4' \in Seq(Units)
    <3>1. total_file_size \in Nat /\ Received(n) \in Seq(Units)
      BY <2>1, TakesUnits DEF TypeOK
    <3>2. DecodedData(Received(n)) \in Seq(Units)
      BY <2>1, <3>1, ParseTypes
    <3> QED BY <1>6, <3>2, ConcatProperties DEF ReceivePacket, TypeOK
  <2>7. FilledTo(res_mp4', Covered')
    BY <1>1, <2>3, <2>4, <2>5, <2>6, FilledMore
  <2>8. pc' = "complete" => Len(res_mp4') >= file'
    BY <2>1, <2>2, <2>3 DEF NextPc
  <2> QED BY <2>3, <2>7, <2>8 DEF OutInv, FilledTo
<1>7. ASSUME NEW n, KillWriting(n) PROVE OutInv'
  <2>1. pc' = "killed" /\ file' = file
    BY <1>7 DEF KillWriting, Takes
  <2>2. /\ FilledTo(res_mp4', MIN(RangeStart(seq), file))
        /\ res_mp4' \in Seq(Units) /\ RawBesideOutput'
    BY <1>7, KilledWriting
  <2>3. MIN(RangeStart(seq), file) \in Nat /\ MIN(RangeStart(seq), file) <= file
    <3>1. RangeStart(seq) \in Nat
      BY RangeStarts DEF TypeOK
    <3> QED BY <1>1, <3>1 DEF MIN
  <2>4. Covered' = file
    BY <2>1 DEF Covered
  <2>5. FilledTo(res_mp4', Covered')
    BY <1>1, <2>2, <2>3, <2>4, FilledMore
  <2> QED BY <2>1, <2>2, <2>5 DEF OutInv, FilledTo
<1>8. CASE ReceiveEnd
  BY <1>2, <1>8 DEF ReceiveEnd, NextPc, NetInv, TypeOK, Covered, Answered,
                    counters, outputs, OutInv
<1>9. CASE Kill
  BY <1>2, <1>9 DEF Kill, Covered, Answered, counters, outputs, OutInv
<1>10. CASE Restart
  <2>1. res_mp4' = <<>> /\ res_bin' = <<>> /\ pc' = "connect" /\ seq' = 0
        /\ file' = file /\ recv_total_file_size' = 0
    BY <1>10 DEF Restart
  <2>2. Covered' = 0
    BY <1>1, <2>1, RangeStarts DEF Covered, Answered, MIN
  <2>3. FilledTo(res_mp4', Covered') /\ RawBesideOutput'
    BY <2>1, <2>2, EmptySeq DEF FilledTo, RawBesideOutput
  <2> QED BY <2>1, <2>3, EmptySeq DEF OutInv, FilledTo
<1>11. CASE ServerReply \/ ErrorReply
  BY <1>2, <1>11 DEF ServerReply, ErrorReply, Answers, Covered, Answered,
                     counters, outputs, OutInv
<1>12. CASE ServerClose
  BY <1>2, <1>12 DEF ServerClose, Covered, Answered, counters, outputs, OutInv
<1>13. CASE UNCHANGED vars
  BY <1>2, <1>13 DEF vars, Covered, Answered, counters, outputs, OutInv
<1> QED BY <1>3, <1>4, <1>5, <1>6, <1>7, <1>8, <1>9, <1>10, <1>11, <1>12,
           <1>13 DEF Next

LEMMA InvInit == Init => NetInv /\ OutInv
<1> SUFFICES ASSUME Init PROVE NetInv /\ OutInv
  OBVIOUS
<1> USE DEF Waits, Finals
<1>1. TypeOK
  BY EmptySeq DEF Init, TypeOK
<1>2. file \in Nat /\ file >= 1
  BY <1>1, FileType
<1>3. NetInv
  BY ClientAssumption, EmptySeq DEF Init, NetInv, RoundsAligned, BufferFits
<1>4. Covered = 0
  BY <1>2, RangeStarts DEF Init, Covered, Answered, MIN
<1>5. FilledTo(res_mp4, Covered) /\ RawBesideOutput
  BY <1>4, EmptySeq DEF Init, FilledTo, RawBesideOutput
<1> QED BY <1>3, <1>5, EmptySeq DEF Init, OutInv

(* The inductive invariant, whatever the server answers.                   *)
THEOREM Invariance == Spec => [](TypeOK /\ NetInv /\ OutInv)
<1>1. TypeOK /\ NetInv /\ OutInv /\ [Next]_vars => NetInv' /\ OutInv'
  BY NetStep, OutStep
<1> QED BY <1>1, InvInit, TypeCorrect, PTL DEF Spec

(* Parse always begins at a packet's first byte (main.cpp:415-436).        *)
THEOREM AnswersAligned == Spec => []RoundsAligned
<1>1. NetInv => RoundsAligned
  BY DEF NetInv
<1> QED BY <1>1, Invariance, PTL

(* recv never writes past recv_buffer, however the answers are cut         *)
(* (main.cpp:415-436).                                                     *)
THEOREM AnswersFit == Spec => []BufferFits
<1>1. NetInv => BufferFits
  BY DEF NetInv
<1> QED BY <1>1, Invariance, PTL

(* "All data recv" is said only when all of the file is in res.mp4, also   *)
(* when the server sends less than it was asked for (main.cpp:446-449).    *)
THEOREM CompleteIsWhole == Spec => []CompleteMeansWhole
<1>1. TypeOK /\ OutInv => CompleteMeansWhole
  <2> SUFFICES ASSUME TypeOK, OutInv, pc = "complete"
               PROVE  /\ Len(res_mp4) = file
                      /\ \A i \in 1..file : res_mp4[i] = Block(i - 1, {})
    BY DEF CompleteMeansWhole
  <2>1. Covered = file
    BY DEF Covered, Waits
  <2>2. Len(res_mp4) = file
    BY <2>1, FileType, LenProperties DEF OutInv, FilledTo, TypeOK
  <2>3. ASSUME NEW i \in 1..file PROVE res_mp4[i] = Block(i - 1, {})
    <3>1. res_mp4[i] = Block(res_mp4[i].num, {}) /\ res_mp4[i].num = i - 1
      BY <2>1, <2>2, <2>3 DEF OutInv, FilledTo
    <3> QED BY <3>1
  <2> QED BY <2>2, <2>3
<1> QED BY <1>1, Invariance, PTL

(* res.bin goes with the output, also when the process is killed between   *)
(* the two writes (main.cpp:343-357).                                      *)
THEOREM RawAlwaysBeside == Spec => []RawBesideOutput
<1>1. OutInv => RawBesideOutput
  BY DEF OutInv
<1> QED BY <1>1, Invariance, PTL

(* The output never repeats a block or goes back, and all of it is decoded *)
(* (main.cpp:343-357).                                                     *)
THEOREM OutputsInOrder == Spec => []OutputInOrder
<1>1. TypeOK /\ NetInv /\ OutInv => OutputInOrder
  <2> SUFFICES ASSUME TypeOK, NetInv, OutInv PROVE OutputInOrder
    OBVIOUS
  <2>1. Covered \in Nat /\ Covered <= file /\ file \in Nat
    BY CoveredType, FileType
  <2>2. ASSUME NEW i \in 1..Len(res_mp4)
        PROVE  res_mp4[i].mask = {} /\ res_mp4[i].num < file
    <3>1. /\ res_mp4[i] = Block(res_mp4[i].num, {})
          /\ res_mp4[i].num \in (i - 1)..(Covered - 1)
      BY DEF OutInv, FilledTo
    <3>2. Block(res_mp4[i].num, {}).mask = {}
      BY DEF Block, Unit
    <3>3. i \in Nat
      OBVIOUS
    <3> QED BY <2>1, <3>1, <3>2, <3>3
  <2> QED BY <2>2 DEF OutputInOrder, OutInv, FilledTo
<1> QED BY <1>1, Invariance, PTL

-----------------------------------------------------------------------------
(* A server that answers every request in full.                            *)

(* The positions of a full answer.                                         *)
LEMMA FullAnswer ==
  ASSUME FullServer, TypeOK, seq >= 1, NEW m \in ReplySizes(file, Current)
  PROVE  m = MIN(RangeStart(seq), file) - MIN(RangeStart(seq - 1), file)
BY CurrentType DEF FullServer, ReplySizes

LEMMA FullInit == Init => FullInv
<1> SUFFICES ASSUME Init PROVE FullInv
  OBVIOUS
<1> USE DEF Waits, Finals
<1>1. TypeOK
  BY EmptySeq DEF Init, TypeOK
<1>2. file \in Nat /\ file >= 1
  BY <1>1, FileType
<1>3. Covered = 0
  BY <1>2, RangeStarts DEF Init, Covered, Answered, MIN
<1> QED BY <1>3, EmptySeq DEF Init, FullInv

LEMMA FullStep ==
  ASSUME FullServer
  PROVE  TypeOK /\ NetInv /\ OutInv /\ FullInv /\ [Next]_vars => FullInv'
<1> SUFFICES ASSUME TypeOK, NetInv, OutInv, FullInv, [Next]_vars PROVE FullInv'
  OBVIOUS
<1> USE DEF Waits, Finals
<1>1. /\ Covered \in Nat /\ Covered <= file /\ file \in Nat /\ file >= 1
      /\ Len(res_mp4) \in Nat /\ seq \in Nat
      /\ req_bin \in Seq(Requests) /\ Len(req_bin) \in Nat
  BY CoveredType, FileType, LenProperties DEF TypeOK
(* The log: a step that keeps it, or loses some of it.                     *)
<1>2. ASSUME req_bin' \in Prefixes(req_bin), file' = file
      PROVE  \A k \in 1..Len(req_bin') :
               /\ req_bin'[k] = Request(k - 1, IF k = 1 THEN 0 ELSE file')
               /\ RangeStart(k - 1) < file'
  <2>1. /\ Len(req_bin') \in Nat /\ Len(req_bin') <= Len(req_bin)
        /\ \A i \in 1..Len(req_bin') : req_bin'[i] = req_bin[i]
    BY <1>1, <1>2, PrefixType
  <2>2. \A k \in 1..Len(req_bin') : k \in 1..Len(req_bin)
    BY <1>1, <2>1
  <2> QED BY <1>2, <2>1, <2>2 DEF FullInv
(* A step that writes nothing, asks nothing and does not change the round. *)
<1>3. ASSUME res_mp4' = res_mp4, req_bin' = req_bin, file' = file, seq' = seq,
             pc' \in Waits => Answered' = Answered /\ pc \in Waits,
             pc' \in {"request", "receive"} => RangeStart(Answered') < file
      PROVE  FullInv'
  <2>1. pc' \in Waits => Covered' = Covered
    BY <1>3 DEF Covered
  <2> QED BY <1>3, <2>1 DEF FullInv
<1>4. CASE Connect
  <2>1. /\ pc = "connect" /\ seq = 0 /\ seq' = seq /\ res_mp4' = res_mp4
        /\ req_bin' = req_bin /\ file' = file /\ pc' \in {"request", "disconnected"}
    BY <1>4 DEF Connect, NetInv, counters, outputs
  <2>2. Answered = 0 /\ Answered' = 0
    BY <2>1 DEF Answered
  <2>3. RangeStart(Answered') < file
    BY <1>1, <2>2, RangeStarts
  <2> QED BY <1>3, <2>1, <2>2, <2>3
<1>5. CASE SendRequest
  <2>1. /\ pc = "request" /\ seq' = seq + 1 /\ file' = file /\ res_mp4' = res_mp4
        /\ pc' \in {"receive", "killed"}
        /\ total_file_size = IF seq = 0 THEN 0 ELSE file
    BY <1>5 DEF SendRequest, outputs, NetInv
  <2>2. pc' = "receive" => Answered' = Answered /\ Covered' = Covered
    BY <1>1, <2>1 DEF Answered, Covered
  <2> DEFINE req == Request(seq, total_file_size)
             log == Append(req_bin, req)
  <2>3. req \in Requests
    BY RequestType DEF TypeOK
  <2>4. /\ log \in Seq(Requests) /\ Len(log) = Len(req_bin) + 1
        /\ \A k \in 1..Len(req_bin) : log[k] = req_bin[k]
        /\ log[Len(req_bin) + 1] = req
    BY <1>1, <2>3, AppendProperties
  <2>5. Len(req_bin) = seq /\ RangeStart(seq) < file
    BY <2>1 DEF FullInv, Answered
  <2>6. req = Request((seq + 1) - 1, IF seq + 1 = 1 THEN 0 ELSE file)
    BY <1>1, <2>1
  <2> HIDE DEF req, log
  <2>7. ASSUME NEW k \in 1..Len(log)
        PROVE  /\ log[k] = Request(k - 1, IF k = 1 THEN 0 ELSE file)
               /\ RangeStart(k - 1) < file
    <3>1. CASE k \in 1..Len(req_bin)
      BY <2>4, <3>1 DEF FullInv
    <3>2. CASE k = seq + 1
      BY <1>1, <2>4, <2>5, <2>6, <3>2
    <3> QED BY <1>1, <2>4, <2>5, <3>1, <3>2
  <2>8. req_bin' \in Prefixes(log) /\ (pc' = "receive" => req_bin' = log)
    <3>1. log = SubSeq(log, 1, Len(log)) /\ Len(log) \in 0..Len(log)
      BY <2>4, SubSeqFull, LenProperties
    <3>2. log \in Prefixes(log)
      BY <3>1 DEF Prefixes
    <3> QED BY <1>5, <3>2 DEF SendRequest, req, log
  <2>9. ASSUME NEW k \in 1..Len(req_bin')
        PROVE  /\ req_bin'[k] = Request(k - 1, IF k = 1 THEN 0 ELSE file')
               /\ RangeStart(k - 1) < file'
    <3>1. /\ Len(req_bin') \in Nat /\ Len(req_bin') <= Len(log)
          /\ req_bin'[k] = log[k]
      BY <2>4, <2>8, PrefixType
    <3>2. k \in 1..Len(log)
      BY <1>1, <2>4, <3>1
    <3> QED BY <2>1, <2>7, <3>1, <3>2
  <2>10. pc' \in Waits => Len(res_mp4') = Covered' /\ Len(req_bin') = seq'
    BY <2>1, <2>2, <2>4, <2>5, <2>8 DEF FullInv
  <2>11. pc' = "receive" => RangeStart(Answered') < file'
    BY <2>1, <2>2 DEF FullInv
  <2> QED BY <2>1, <2>9, <2>10, <2>11 DEF FullInv
<1>6. ASSUME NEW n, ReceivePart(n) PROVE FullInv'
  <2>1. Answered' = Answered /\ RangeStart(Answered) < file
    BY <1>6 DEF ReceivePart, Takes, Answered, FullInv
  <2> QED BY <1>3, <1>6, <2>1 DEF ReceivePart, Takes, outputs
<1>7. ASSUME pc = "receive"
      PROVE  /\ seq >= 1 /\ RangeStart(seq - 1) \in Nat /\ RangeStart(seq) \in Nat
             /\ RangeStart(seq - 1) < file
             /\ RangeStart(seq) = RangeStart(seq - 1) + RANGE + 1
             /\ Len(res_mp4) = RangeStart(seq - 1)
             /\ MIN(RangeStart(seq - 1), file) = RangeStart(seq - 1)
  <2>1. pc = "receive" /\ seq >= 1
    BY <1>7 DEF NetInv
  <2>2. seq - 1 \in Nat /\ (seq - 1) + 1 = seq
    BY <1>1, <2>1
  <2>3. RangeStart(seq - 1) < file /\ Len(res_mp4) = MIN(RangeStart(seq - 1), file)
    BY <2>1 DEF FullInv, Answered, Covered
  <2> QED BY <1>1, <2>1, <2>2, <2>3, RangeStarts DEF MIN
<1>8. ASSUME NEW n, ReceivePacket(n) PROVE FullInv'
  <2>1. /\ pc = "receive" /\ seq' = seq /\ file' = file /\ req_bin' = req_bin
        /\ pc' = NextPc(total_file_size', recv_total_file_size', TRUE)
        /\ Takes(n) /\ PacketSize(Received(n)) > 0
    BY <1>8 DEF ReceivePacket, Takes
  <2> DEFINE m == FileSize(Received(n))
  <2>2. /\ m \in ReplySizes(file, Current) /\ m \in Nat
        /\ Len(res_mp4') = Len(res_mp4) + m
        /\ \A i \in 1..m :
             res_mp4'[Len(res_mp4) + i].num = RangeStart(seq - 1) + i - 1
        /\ recv_total_file_size' = Len(res_mp4')
    BY <1>8, PacketInFull
  <2>3. m = MIN(RangeStart(seq), file) - MIN(RangeStart(seq - 1), file)
    BY <1>7, <2>1, <2>2, FullAnswer
  <2> HIDE DEF m
  <2>4. Len(res_mp4') = MIN(RangeStart(seq), file)
    BY <1>1, <1>7, <2>1, <2>2, <2>3 DEF MIN
  <2>5. total_file_size' = file
    BY <2>1, AnswerTaken
  <2>6. /\ pc' \in {"request", "complete"}
        /\ pc' = "request" => RangeStart(seq) < file
    BY <1>1, <1>7, <2>1, <2>2, <2>4, <2>5 DEF NextPc, MIN
  <2>7. pc' = "request" => Answered' = seq /\ Covered' = MIN(RangeStart(seq), file)
    BY <2>1 DEF Answered, Covered
  <2>8. \A i \in 1..Len(res_mp4) : res_mp4'[i] = res_mp4[i]
    <3>1. DecodedData(Received(n)) \in Seq(Units)
      BY <2>1, ParseTypes, TakesUnits DEF TypeOK
    <3> QED BY <1>8, <3>1, ConcatProperties DEF ReceivePacket, TypeOK
  <2>9. ASSUME NEW i \in 1..Len(res_mp4') PROVE res_mp4'[i].num = i - 1
    <3>1. CASE i \in 1..Len(res_mp4)
      BY <2>8, <3>1 DEF FullInv
    <3>2. CASE i \in (Len(res_mp4) + 1)..(Len(res_mp4) + m)
      <4>1. i - Len(res_mp4) \in 1..m /\ Len(res_mp4) + (i - Len(res_mp4)) = i
        BY <1>1, <2>2, <3>2
      <4>2. res_mp4'[i].num = RangeStart(seq - 1) + (i - Len(res_mp4)) - 1
        BY <2>2, <4>1
      <4>3. Len(res_mp4) = RangeStart(seq - 1) /\ i \in Nat
        BY <1>1, <1>7, <2>1, <3>2
      <4> QED BY <1>1, <4>2, <4>3
    <3> QED BY <1>1, <2>2, <3>1, <3>2
  <2>10. Len(req_bin) = seq
    BY <2>1 DEF FullInv
  <2> QED BY <2>1, <2>4, <2>6, <2>7, <2>9, <2>10 DEF FullInv
<1>9. ASSUME NEW n, KillWriting(n) PROVE FullInv'
  <2>1. /\ pc = "receive" /\ pc' = "killed" /\ seq' = seq /\ file' = file
        /\ req_bin' \in Prefixes(req_bin)
        /\ Takes(n) /\ PacketSize(Received(n)) > 0
    BY <1>9 DEF KillWriting, Takes
  <2>2. PICK k \in Nat :
          /\ Len(res_mp4') = Len(res_mp4) + k
          /\ \A i \in 1..Len(res_mp4) : res_mp4'[i] = res_mp4[i]
          /\ \A i \in 1..k :
               res_mp4'[Len(res_mp4) + i].num = RangeStart(seq - 1) + i - 1
    BY <1>9, KilledWriting
  <2>3. ASSUME NEW i \in 1..Len(res_mp4') PROVE res_mp4'[i].num = i - 1
    <3>1. CASE i \in 1..Len(res_mp4)
      BY <2>2, <3>1 DEF FullInv
    <3>2. CASE i \in (Len(res_mp4) + 1)..(Len(res_mp4) + k)
      <4>1. i - Len(res_mp4) \in 1..k /\ Len(res_mp4) + (i - Len(res_mp4)) = i
        BY <1>1, <3>2
      <4>2. res_mp4'[i].num = RangeStart(seq - 1) + (i - Len(res_mp4)) - 1
        BY <2>2, <4>1
      <4>3. Len(res_mp4) = RangeStart(seq - 1) /\ i \in Nat
        BY <1>1, <1>7, <2>1, <3>2
      <4> QED BY <1>1, <4>2, <4>3
    <3> QED BY <1>1, <2>2, <3>1, <3>2
  <2> QED BY <1>2, <2>1, <2>3 DEF FullInv
<1>10. CASE ReceiveEnd
  BY <1>3, <1>10 DEF ReceiveEnd, NextPc, counters, outputs
<1>11. CASE Kill
  BY <1>2, <1>11 DEF Kill, counters, outputs, FullInv
<1>12. CASE Restart
  <2>1. /\ pc' = "connect" /\ seq' = 0 /\ file' = file
        /\ res_mp4' = <<>> /\ req_bin' = <<>>
    BY <1>12 DEF Restart
  <2>2. Covered' = 0
    BY <1>1, <2>1, RangeStarts DEF Covered, Answered, MIN
  <2> QED BY <2>1, <2>2, EmptySeq DEF FullInv
<1>13. CASE ServerReply \/ ErrorReply
  BY <1>3, <1>13 DEF ServerReply, ErrorReply, Answers, counters, outputs,
                     FullInv, Answered
<1>14. CASE ServerClose
  BY <1>3, <1>14 DEF ServerClose, counters, outputs, FullInv, Answered
<1>15. CASE UNCHANGED vars
  BY <1>3, <1>15 DEF vars, counters, outputs, network, FullInv, Answered
<1> QED BY <1>4, <1>5, <1>6, <1>8, <1>9, <1>10, <1>11, <1>12, <1>13, <1>14,
           <1>15 DEF Next

THEOREM FullInvariance ==
  ASSUME FullServer PROVE Spec => [](TypeOK /\ NetInv /\ OutInv /\ FullInv)
<1>1. TypeOK /\ NetInv /\ OutInv /\ FullInv /\ [Next]_vars => FullInv'
  BY FullStep
<1> QED BY <1>1, FullInit, Invariance, PTL DEF Spec

-----------------------------------------------------------------------------
(* At any time, however the client got there and however it ended, res.mp4 *)
(* is a prefix of the plain file (main.cpp:343-355).                       *)
THEOREM PrefixAlways == ASSUME FullServer PROVE Spec => []OutputIsPrefix
<1>1. TypeOK /\ NetInv /\ OutInv /\ FullInv => OutputIsPrefix
  <2> SUFFICES ASSUME TypeOK, NetInv, OutInv, FullInv PROVE OutputIsPrefix
    OBVIOUS
  <2>1. Len(res_mp4) <= file
    BY CoveredType, FileType, LenProperties DEF OutInv, FilledTo, TypeOK
  <2>2. ASSUME NEW i \in 1..Len(res_mp4) PROVE res_mp4[i] = Block(i - 1, {})
    <3>1. res_mp4[i] = Block(res_mp4[i].num, {}) /\ res_mp4[i].num = i - 1
      BY DEF OutInv, FilledTo, FullInv
    <3> QED BY <3>1
  <2> QED BY <2>1, <2>2 DEF OutputIsPrefix
<1> QED BY <1>1, FullInvariance, PTL

(* The requests cover the file without gap or overlap, none begins past    *)
(* its end (main.cpp:163-168, 408, 446).                                   *)
THEOREM RequestsCover == ASSUME FullServer PROVE Spec => []RequestsTile
<1>1. TypeOK /\ FullInv => RequestsTile
  <2> SUFFICES ASSUME TypeOK, FullInv, NEW k \in 1..Len(req_bin)
               PROVE  /\ req_bin[k].start = IF k = 1 THEN 0
                                            ELSE req_bin[k - 1].end + 1
                      /\ req_bin[k].start < file
    BY DEF RequestsTile
  <2>1. /\ Len(req_bin) \in Nat /\ file \in Nat /\ file >= 1 /\ RANGE \in Nat
        /\ k \in Nat /\ k >= 1
    BY FileType, LenProperties, ClientAssumption DEF TypeOK
  <2>2. req_bin[k].start = RangeStart(k - 1) /\ RangeStart(k - 1) < file
    <3>1. /\ req_bin[k] = Request(k - 1, IF k = 1 THEN 0 ELSE file)
          /\ RangeStart(k - 1) < file
      BY DEF FullInv
    <3> QED BY <3>1 DEF Request
  <2>3. CASE k = 1
    BY <2>1, <2>2, <2>3, RangeStarts
  <2>4. CASE k > 1
    <3> DEFINE j == k - 2
    <3>1. j \in Nat /\ k - 1 \in 1..Len(req_bin) /\ (k - 1) - 1 = j /\ j + 1 = k - 1
      BY <2>1, <2>4
    <3>2. \E total \in {0, file} : req_bin[k - 1] = Request(j, total)
      BY <3>1 DEF FullInv
    <3>3. PICK total \in {0, file} : req_bin[k - 1].end = RangeEnd(j, total)
      BY <3>2 DEF Request
    <3> HIDE DEF j
    <3>4. /\ RangeStart(j) \in Nat
          /\ RangeStart(k - 1) = RangeStart(j) + RANGE + 1
      BY <3>1, RangeStarts
    <3>5. RangeEnd(j, total) = RangeStart(j) + RANGE
      BY <2>1, <2>2, <3>3, <3>4 DEF RangeEnd, MIN
    <3> QED BY <2>1, <2>2, <2>4, <3>3, <3>4, <3>5
  <2> QED BY <2>1, <2>3, <2>4
<1> QED BY <1>1, FullInvariance, PTL

(* The multiples of a divisor of max + 1 that fit, fit with what follows.  *)
LEMMA Multiples ==
  ASSUME NEW c \in Nat \ {0}, NEW max \in Nat, (max + 1) % c = 0,
         NEW s \in Nat, c * s <= max
  PROVE  c * s + c <= max + 1
<1> DEFINE q == (max + 1) \div c
<1>1. q \in Nat /\ max + 1 = c * q
  BY Z3
<1> HIDE DEF q
<1>2. s < q
  <2>1. SUFFICES ASSUME q <= s PROVE FALSE
    BY <1>1
  <2>2. PICK d \in Nat : s = q + d
    BY <1>1, <2>1
  <2>3. c * s = c * q + c * d /\ c * d \in Nat
    BY <1>1, <2>2
  <2> QED BY <1>1, <2>3
<1>3. PICK d \in Nat : q = s + 1 + d
  BY <1>1, <1>2
<1>4. c * q = c * s + c + c * d /\ c * d \in Nat /\ c * s \in Nat
  BY <1>3
<1> QED BY <1>1, <1>4

LEMMA CountStep ==
  TypeOK /\ NetInv /\ OutInv /\ recv_total_file_size <= file /\ [Next]_vars
    => (recv_total_file_size <= file)'
<1> SUFFICES ASSUME TypeOK, NetInv, OutInv, recv_total_file_size <= file,
                    [Next]_vars
             PROVE  recv_total_file_size' <= file'
  OBVIOUS
<1>1. ASSUME NEW n, ReceivePacket(n)
      PROVE  recv_total_file_size' <= file'
  <2>1. /\ Len(res_mp4') <= MIN(RangeStart(seq), file) /\ Len(res_mp4') \in Nat
        /\ recv_total_file_size' = Len(res_mp4')
    BY <1>1, PacketInFull, LenProperties DEF FilledTo, TypeOK
  <2>2. file' = file /\ file \in Nat /\ RangeStart(seq) \in Nat
    BY <1>1, FileType, RangeStarts DEF ReceivePacket, Takes, TypeOK
  <2> QED BY <2>1, <2>2 DEF MIN
<1>2. CASE Restart
  BY <1>2, FileType DEF Restart
<1>3. CASE UNCHANGED <<recv_total_file_size, file>>
  BY <1>3
<1> QED BY <1>1, <1>2, <1>3
        DEF Next, vars, counters, outputs, network, Connect, SendRequest,
            ReceivePart, KillWriting, Takes, ReceiveEnd, Kill, ServerReply,
            ErrorReply, Answers, ServerClose

(* No range and no count leaves an int, up to a file of the largest length *)
(* an int can say (main.cpp:163-167, 433).                                 *)
THEOREM NoOverflow == ASSUME FullServer PROVE Spec => []IntegersFit
<1>1. TypeOK /\ FullInv /\ recv_total_file_size <= file => IntegersFit
  <2> SUFFICES ASSUME TypeOK, FullInv, recv_total_file_size <= file
               PROVE  IntegersFit
    OBVIOUS
  <2>1. /\ file \in Nat /\ file <= IntMax /\ IntMax \in Nat
        /\ seq \in Nat /\ recv_total_file_size \in Nat
    BY FileType, ClientAssumption DEF TypeOK
  <2>2. ASSUME pc = "request" PROVE RangeStart(seq) + RANGE <= IntMax
    <3> DEFINE c == RANGE + 1
    <3>1. /\ c \in Nat \ {0} /\ (IntMax + 1) % c = 0
          /\ RangeStart(seq) = c * seq /\ c - 1 = RANGE
      BY ClientAssumption DEF RangeStart
    <3>2. RangeStart(seq) < file /\ RangeStart(seq) \in Nat
      BY <2>1, <2>2, RangeStarts DEF FullInv, Answered
    <3> HIDE DEF c
    <3>3. c * seq <= IntMax
      BY <2>1, <3>1, <3>2
    <3>4. c * seq + c <= IntMax + 1
      BY <2>1, <3>1, <3>3, Multiples
    <3> QED BY <2>1, <3>1, <3>2, <3>4
  <2> QED BY <2>1, <2>2 DEF IntegersFit
<1>2. Init => recv_total_file_size <= file
  BY ServerAssumption, ClientAssumption DEF Init
<1> QED BY <1>1, <1>2, CountStep, FullInvariance, Invariance, PTL DEF Spec

-----------------------------------------------------------------------------
(* The refinement: the output and how the program stands are those of a    *)
(* transfer.                                                               *)

LEMMA PrefixIs ==
  ASSUME NEW s \in Seq(Units), \A i \in 1..Len(s) : s[i] = Block(i - 1, {})
  PROVE  s = T!PlainPrefix(Len(s))
<1>1. s = [i \in 1..Len(s) |-> s[i]]
  BY LenProperties
<1> QED BY <1>1 DEF T!PlainPrefix, PlainBlock

LEMMA TransferStep ==
  ASSUME FullServer, TypeOK, NetInv, OutInv, FullInv, OutputIsPrefix,
         TypeOK', OutInv', OutputIsPrefix', [Next]_vars
  PROVE  [T!Next]_<<file, res_mp4, Status>>
<1> USE DEF Waits, Finals
<1>1. /\ res_mp4' = T!PlainPrefix(Len(res_mp4'))
      /\ Len(res_mp4') \in 0..file' /\ Len(res_mp4) \in 0..file
      /\ file \in Nat
  <2>1. /\ res_mp4' \in Seq(Units) /\ Len(res_mp4') <= file'
        /\ \A i \in 1..Len(res_mp4') : res_mp4'[i] = Block(i - 1, {})
        /\ file' \in FileSizes
    BY DEF TypeOK, OutputIsPrefix
  <2>2. res_mp4 \in Seq(Units) /\ Len(res_mp4) <= file
    BY DEF TypeOK, OutputIsPrefix
  <2>3. file' \in Nat
    BY <2>1, ServerAssumption, ClientAssumption
  <2> QED BY <2>1, <2>2, <2>3, PrefixIs, FileType, LenProperties
<1>2. ASSUME file' = file, pc \in Waits, pc' \in {"disconnected", "killed"},
             Len(res_mp4) <= Len(res_mp4')
      PROVE  T!Next
  <2>1. Status = "running" /\ Status' = "given up"
    BY <1>2 DEF Status
  <2>2. T!GiveUp(Len(res_mp4'))
    BY <1>1, <1>2, <2>1 DEF T!GiveUp
  <2> QED BY <1>1, <1>2, <2>2 DEF T!Next
<1>3. ASSUME file' = file, res_mp4' = res_mp4, Status' = Status
      PROVE  UNCHANGED <<file, res_mp4, Status>>
  BY <1>3
<1>4. CASE Connect
  <2>1. pc = "connect" /\ pc' \in {"request", "disconnected"} /\ file' = file
        /\ res_mp4' = res_mp4
    BY <1>4 DEF Connect, outputs
  <2>2. CASE pc' = "request"
    BY <1>3, <2>1, <2>2 DEF Status
  <2>3. CASE pc' = "disconnected"
    BY <1>1, <1>2, <2>1, <2>3
  <2> QED BY <2>1, <2>2, <2>3
<1>5. CASE SendRequest
  <2>1. pc = "request" /\ pc' \in {"receive", "killed"} /\ file' = file
        /\ res_mp4' = res_mp4
    BY <1>5 DEF SendRequest, outputs
  <2>2. CASE pc' = "receive"
    BY <1>3, <2>1, <2>2 DEF Status
  <2>3. CASE pc' = "killed"
    BY <1>1, <1>2, <2>1, <2>3
  <2> QED BY <2>1, <2>2, <2>3
<1>6. ASSUME NEW n, ReceivePart(n) PROVE UNCHANGED <<file, res_mp4, Status>>
  BY <1>3, <1>6 DEF ReceivePart, Takes, outputs, Status
<1>7. ASSUME NEW n, ReceivePacket(n) PROVE T!Next
  <2>1. /\ pc = "receive" /\ file' = file /\ Takes(n) /\ seq >= 1
        /\ pc' = NextPc(total_file_size', recv_total_file_size', TRUE)
        /\ total_file_size' = file
    BY <1>7, AnswerTaken DEF ReceivePacket, Takes
  <2>2. Len(res_mp4') > Len(res_mp4) /\ recv_total_file_size' = Len(res_mp4')
    <3>1. /\ FileSize(Received(n)) \in ReplySizes(file, Current)
          /\ FileSize(Received(n)) \in Nat
          /\ Len(res_mp4') = Len(res_mp4) + FileSize(Received(n))
          /\ recv_total_file_size' = Len(res_mp4')
      BY <1>7, PacketInFull
    <3>2. FileSize(Received(n)) =
            MIN(RangeStart(seq), file) - MIN(RangeStart(seq - 1), file)
      BY <2>1, <3>1, FullAnswer
    <3>3. seq - 1 \in Nat /\ (seq - 1) + 1 = seq
      BY <2>1 DEF TypeOK
    <3>4. RangeStart(seq - 1) < file /\ RangeStart(seq - 1) \in Nat
          /\ RangeStart(seq) = RangeStart(seq - 1) + RANGE + 1 /\ RANGE \in Nat
      BY <2>1, <3>3, RangeStarts, ClientAssumption DEF FullInv, Answered
    <3>5. FileSize(Received(n)) > 0
      BY <1>1, <3>2, <3>4 DEF MIN
    <3> QED BY <1>1, <3>1, <3>5
  <2>3. pc' = IF Len(res_mp4') = file THEN "complete" ELSE "request"
    BY <1>1, <2>1, <2>2 DEF NextPc
  <2>4. /\ Status = "running"
        /\ Status' = IF Len(res_mp4') = file THEN "complete" ELSE "running"
    BY <2>1, <2>3 DEF Status
  <2>5. T!Grow(Len(res_mp4'))
    BY <1>1, <2>1, <2>2, <2>4 DEF T!Grow
  <2> QED BY <1>1, <2>1, <2>5 DEF T!Next
<1>8. ASSUME NEW n, KillWriting(n) PROVE T!Next
  <2>1. pc = "receive" /\ pc' = "killed" /\ file' = file
    BY <1>8 DEF KillWriting, Takes
  <2>2. Len(res_mp4) <= Len(res_mp4')
    BY <1>1, <1>8, KilledWriting
  <2> QED BY <1>2, <2>1, <2>2
<1>9. CASE ReceiveEnd
  <2>1. pc = "receive" /\ file' = file /\ res_mp4' = res_mp4
        /\ pc' = NextPc(total_file_size, recv_total_file_size, FALSE)
    BY <1>9 DEF ReceiveEnd, outputs
  <2>2. pc' = "disconnected"
    <3>1. total_file_size \in {0, file}
      BY <2>1 DEF NetInv
    <3>2. recv_total_file_size = Len(res_mp4) /\ Len(res_mp4) = Covered
      BY <2>1 DEF OutInv, FullInv
    <3>3. Covered = MIN(RangeStart(Answered), file) /\ RangeStart(Answered) < file
      BY <2>1 DEF Covered, FullInv
    <3> QED BY <1>1, <2>1, <3>1, <3>2, <3>3 DEF NextPc, MIN
  <2>3. pc \in Waits /\ Len(res_mp4) <= Len(res_mp4')
    BY <1>1, <2>1
  <2> QED BY <1>2, <2>1, <2>2, <2>3
<1>10. CASE Kill
  <2>1. pc \in Waits /\ pc' = "killed" /\ file' = file /\ res_mp4' = res_mp4
    BY <1>10 DEF Kill, outputs
  <2> QED BY <1>1, <1>2, <2>1
<1>11. CASE Restart
  <2>1. pc \in Finals /\ pc' = "connect" /\ file' = file /\ res_mp4' = <<>>
    BY <1>11 DEF Restart
  <2>2. T!StartOver
    BY <1>1, <2>1, EmptySeq DEF T!StartOver, Status
  <2> QED BY <2>2 DEF T!Next
<1>12. CASE ServerReply \/ ErrorReply
  BY <1>3, <1>12 DEF ServerReply, ErrorReply, Answers, outputs, Status
<1>13. CASE ServerClose
  BY <1>3, <1>13 DEF ServerClose, outputs, Status
<1>14. CASE UNCHANGED vars
  BY <1>3, <1>14 DEF vars, outputs, Status
<1> QED BY <1>4, <1>5, <1>6, <1>7, <1>8, <1>9, <1>10, <1>11, <1>12, <1>13,
           <1>14 DEF Next

(* What the user sees of the client, res.mp4 and whether the program has   *)
(* ended and how, behaves as Transfer says (main.cpp:384-460).             *)
THEOREM Refinement == ASSUME FullServer PROVE Spec => ImplementsTransfer
<1>1. Init => T!Init
  <2> SUFFICES ASSUME Init PROVE T!Init
    OBVIOUS
  <2>1. res_mp4 = <<>> /\ Status = "running"
    BY DEF Init, Status, Waits
  <2> QED BY <2>1 DEF T!Init, T!PlainPrefix
<1>2. /\ TypeOK /\ NetInv /\ OutInv /\ FullInv /\ OutputIsPrefix
      /\ TypeOK' /\ OutInv' /\ OutputIsPrefix' /\ [Next]_vars
      => [T!Next]_<<file, res_mp4, Status>>
  BY TransferStep
<1> QED BY <1>1, <1>2, FullInvariance, PrefixAlways, PTL
        DEF Spec, ImplementsTransfer, T!Spec

-----------------------------------------------------------------------------
(* What a request says, byte by byte: its parts one behind the other, and  *)
(* what a server reads where they stand.                                   *)
Wire == INSTANCE RequestText

(* Induction over the first numbers, for a set: what has 0 and with each   *)
(* number the next one has them all.                                       *)
LEMMA SetInduction ==
  ASSUME NEW S, 0 \in S, NEW N \in Nat,
         \A n \in 1..N : n - 1 \in S => n \in S
  PROVE  0..N \subseteq S
<1> DEFINE missing == 0..N \ S
<1> SUFFICES ASSUME missing # {} PROVE FALSE
  OBVIOUS
<1>1. PICK x \in missing : \A y \in missing : x <= y
  <2>1. missing \subseteq Nat
    OBVIOUS
  <2> QED BY <2>1, LeastElement
<1>2. x \in 1..N /\ x - 1 \in 0..N
  BY <1>1
<1>3. x - 1 \in S
  BY <1>1, <1>2
<1> QED BY <1>1, <1>2, <1>3

(* The concatenations of the first texts, one after the other.             *)
Flattens(f, seqs) ==
  \A i \in 1..Len(seqs) : f[i] = IF i = 1 THEN seqs[1] ELSE f[i - 1] \o seqs[i]

LEMMA FlattenSteps ==
  ASSUME NEW seqs, Len(seqs) \in Nat \ {0}
  PROVE  \E f : Flattens(f, seqs) /\ Wire!FlattenSeq(seqs) = f[Len(seqs)]
<1> DEFINE N == Len(seqs)
           P(f, k) == f = [i \in 1..k |-> IF i = 1 THEN seqs[i] ELSE f[i - 1] \o seqs[i]]
           K == {k \in 0..N : \E f : P(f, k)}
<1>1. 0 \in K
  <2>1. P([i \in 1..0 |-> 0], 0)
    OBVIOUS
  <2>2. 0 \in 0..N
    OBVIOUS
  <2> HIDE DEF P
  <2> QED BY <2>1, <2>2
<1>2. ASSUME NEW k \in 1..N, k - 1 \in K PROVE k \in K
  <2>1. PICK f : P(f, k - 1)
    BY <1>2
  <2> DEFINE new == IF k = 1 THEN seqs[1] ELSE f[k - 1] \o seqs[k]
             g == [i \in 1..k |-> IF i = k THEN new ELSE f[i]]
  <2>2. ASSUME NEW i \in 1..k
        PROVE  g[i] = IF i = 1 THEN seqs[i] ELSE g[i - 1] \o seqs[i]
    <3>1. CASE i = k
      BY <3>1
    <3>2. CASE i # k
      <4>1. i \in 1..(k - 1) /\ (i # 1 => i - 1 \in 1..(k - 1))
        BY <3>2
      <4>2. f[i] = IF i = 1 THEN seqs[i] ELSE f[i - 1] \o seqs[i]
        BY <2>1, <4>1
      <4>3. g[i] = f[i] /\ (i # 1 => g[i - 1] = f[i - 1])
        BY <3>2, <4>1
      <4> QED BY <4>2, <4>3
    <3> QED BY <3>1, <3>2
  <2>3. P(g, k)
    BY <2>2
  <2> HIDE DEF g, P
  <2> QED BY <2>3
<1> HIDE DEF K
<1>3. 0..N \subseteq K
  BY <1>1, <1>2, SetInduction
<1>4. \E f : P(f, N)
  <2>1. N \in K
    BY <1>3
  <2> HIDE DEF P
  <2> QED BY <2>1 DEF K
<1> DEFINE f == CHOOSE g : P(g, N)
<1>5. P(f, N)
  BY <1>4
<1>6. Wire!FlattenSeq(seqs) = f[N]
  BY DEF Wire!FlattenSeq
<1> HIDE DEF f
<1>7. Flattens(f, seqs)
  BY <1>5 DEF Flattens
<1> QED BY <1>6, <1>7

Bytes == Seq(Nat)
Short == {s \in Bytes : Len(s) <= 400}
Pairs == [key : Short, value : Short]

LEMMA CharsAre ==
  ASSUME NEW n \in Nat, NEW byte \in Nat
  PROVE  Wire!Chars(n, byte) \in Bytes /\ Len(Wire!Chars(n, byte)) = n
BY DEF Wire!Chars, Bytes

LEMMA Big16Is ==
  ASSUME NEW n \in Nat
  PROVE  /\ Wire!Big16(n) \in Bytes /\ Len(Wire!Big16(n)) = 2
         /\ Wire!Big16(n)[1] = (n \div 256) % 256 /\ Wire!Big16(n)[2] = n % 256
BY DEF Wire!Big16, Bytes

LEMMA Big32Is ==
  ASSUME NEW n \in Nat
  PROVE  /\ Wire!Big32(n) \in Bytes /\ Len(Wire!Big32(n)) = 4
         /\ Wire!Big32(n)[1] = ((n \div 65536) \div 256) % 256
         /\ Wire!Big32(n)[2] = (n \div 65536) % 256
         /\ Wire!Big32(n)[3] = (n \div 256) % 256
         /\ Wire!Big32(n)[4] = n % 256
BY DEF Wire!Big16, Wire!Big32, Bytes

(* A number below 2^16 reads back from its digits to the base of 256.      *)
LEMMA Digits256 ==
  ASSUME NEW n \in Nat, n <= 65535
  PROVE  /\ ((n \div 256) % 256) * 256 + (n % 256) = n
         /\ ((n \div 65536) \div 256) % 256 = 0 /\ (n \div 65536) % 256 = 0
<1>1. n \div 65536 = 0
  OBVIOUS
<1>2. \A m \in Nat : m \div 256 \in Nat /\ (m \div 256) * 256 + (m % 256) = m
                     /\ m % 256 \in Nat
  OBVIOUS
<1> DEFINE q == n \div 256
<1>3. q \in Nat /\ q <= 255
  <2>1. n \in Nat /\ n <= 65535
    OBVIOUS
  <2>2. q \in Nat /\ q * 256 <= n
    BY <1>2, <2>1
  <2> HIDE DEF q
  <2> QED BY <2>1, <2>2
<1>4. q % 256 = q
  <2> HIDE DEF q
  <2> QED BY <1>3
<1>5. n \in Nat /\ 0 % 256 = 0 /\ 0 \div 256 = 0
  OBVIOUS
<1>6. ((n \div 256) % 256) * 256 + (n % 256) = n
  BY <1>2, <1>4, <1>5
<1> QED BY <1>1, <1>5, <1>6

(* The text of an int has one to ten digits.                               *)
LEMMA NumberIsShort ==
  ASSUME NEW n \in Nat
  PROVE  /\ Wire!to_string(n) \in Bytes
         /\ Len(Wire!to_string(n)) \in 1..10
<1> DEFINE S == {j \in 1..10 : j = 1 \/ n >= Wire!Powers[j]}
           size == Wire!Max(S)
<1>1. S \subseteq 1..10 /\ 1 \in S
  OBVIOUS
<1>2. size \in 1..10
  <2>1. S \subseteq 0..10 /\ S # {}
    BY <1>1
  <2>2. Max(S) \in S
    BY <2>1, MaxProperty
  <2>3. size = Max(S)
    BY DEF Wire!Max, Max
  <2> QED BY <1>1, <2>2, <2>3
<1> HIDE DEF S, size
<1>3. \A i \in 1..size : Wire!Powers[size + 1 - i] \in Nat \ {0}
  <2>1. \A j \in 1..10 : Wire!Powers[j] \in Nat \ {0}
    BY DEF Wire!Powers
  <2> QED BY <1>2, <2>1
<1>4. \A i \in 1..size : 48 + ((n \div Wire!Powers[size + 1 - i]) % 10) \in Nat
  BY <1>3
<1>5. Wire!to_string(n)
        = [i \in 1..size |-> 48 + ((n \div Wire!Powers[size + 1 - i]) % 10)]
  BY DEF Wire!to_string, S, size
<1>6. Wire!to_string(n) \in [1..size -> Nat]
  BY <1>4, <1>5
<1> DEFINE text == Wire!to_string(n)
<1>7. size \in Nat /\ text \in [1..size -> Nat]
  BY <1>2, <1>6
<1> HIDE DEF text
<1>8. text \in Seq(Nat) /\ Len(text) = size
  BY <1>7
<1> QED BY <1>2, <1>8 DEF Bytes, text

(* u is s with t behind it, n and m are their lengths.                     *)
Behind(u, s, n, t, m) ==
  /\ u \in Bytes /\ Len(u) = n + m
  /\ \A j \in 1..n : u[j] = s[j]
  /\ \A j \in 1..m : u[n + j] = t[j]

LEMMA JoinIs ==
  ASSUME NEW s \in Bytes, NEW t \in Bytes
  PROVE  Behind(s \o t, s, Len(s), t, Len(t))
<1> DEFINE n == Len(s)
           m == Len(t)
           u == s \o t
<1>1. s \in Seq(Nat) /\ t \in Seq(Nat) /\ n \in Nat /\ m \in Nat
  BY DEF Bytes
<1>2. /\ u \in Seq(Nat) /\ Len(u) = n + m
      /\ \A i \in 1..(n + m) : u[i] = IF i <= n THEN s[i] ELSE t[i - n]
  BY <1>1, ConcatProperties
<1> HIDE DEF u, n, m
<1>3. ASSUME NEW j \in 1..m PROVE u[n + j] = t[j]
  <2> DEFINE i == n + j
  <2>1. i \in 1..(n + m) /\ ~(i <= n) /\ i - n = j
    BY <1>1
  <2> HIDE DEF i
  <2>2. u[i] = t[j]
    BY <1>2, <2>1
  <2> QED BY <2>2 DEF i
<1>4. \A j \in 1..n : j \in 1..(n + m) /\ j <= n
  BY <1>1
<1>5. \A j \in 1..n : u[j] = s[j]
  BY <1>2, <1>4
<1>6. Behind(u, s, n, t, m)
  BY <1>2, <1>3, <1>5 DEF Bytes, Behind
<1> QED BY <1>6 DEF u, n, m

(* s is made of four others.                                               *)
MadeOf(s, a, b, c, d) ==
  LET p == Len(a)
      k == Len(b)
      q == Len(c)
  IN /\ s \in Bytes /\ Len(s) = p + k + q + Len(d)
     /\ \A j \in 1..p : s[j] = a[j]
     /\ \A j \in 1..k : s[p + j] = b[j]
     /\ \A j \in 1..q : s[p + k + j] = c[j]
     /\ \A j \in 1..Len(d) : s[p + k + q + j] = d[j]

LEMMA FourParts ==
  ASSUME NEW a \in Bytes, NEW b \in Bytes, NEW c \in Bytes, NEW d \in Bytes
  PROVE  MadeOf(a \o b \o c \o d, a, b, c, d)
<1> DEFINE t == a \o b
           u == t \o c
           s == u \o d
           p == Len(a)
           k == Len(b)
           q == Len(c)
           r == Len(d)
           m == Len(t)
           n == Len(u)
<1>1. p \in Nat /\ k \in Nat /\ q \in Nat /\ r \in Nat
  BY DEF Bytes
<1>2. Behind(t, a, p, b, k)
  BY JoinIs
<1> HIDE DEF t
<1>3. t \in Bytes
  BY <1>2 DEF Behind
<1>4. Behind(u, t, m, c, q)
  BY <1>3, JoinIs
<1> HIDE DEF u
<1>5. u \in Bytes
  BY <1>4 DEF Behind
<1>6. Behind(s, u, n, d, r)
  BY <1>5, JoinIs
<1>7. s = a \o b \o c \o d
  BY DEF t, u
<1> HIDE DEF s, p, k, q, r
<1>8. m = p + k /\ n = m + q
  BY <1>2, <1>4 DEF Behind
<1> HIDE DEF m, n
<1>9. s \in Bytes /\ Len(s) = p + k + q + r
  BY <1>1, <1>6, <1>8 DEF Behind
<1>10. ASSUME NEW j \in 1..m PROVE s[j] = t[j]
  <2>1. j \in 1..n
    BY <1>1, <1>8
  <2> QED BY <1>4, <1>6, <2>1 DEF Behind
<1>11. ASSUME NEW j \in 1..p PROVE s[j] = a[j]
  <2>1. j \in 1..m
    BY <1>1, <1>8
  <2> QED BY <1>2, <1>10, <2>1 DEF Behind
<1>12. ASSUME NEW j \in 1..k PROVE s[p + j] = b[j]
  <2>1. p + j \in 1..m
    BY <1>1, <1>8
  <2> QED BY <1>2, <1>10, <2>1 DEF Behind
<1>13. ASSUME NEW j \in 1..q PROVE s[p + k + j] = c[j]
  <2>1. m + j \in 1..n
    BY <1>1, <1>8
  <2> QED BY <1>4, <1>6, <1>8, <2>1 DEF Behind
<1>14. ASSUME NEW j \in 1..r PROVE s[p + k + q + j] = d[j]
  BY <1>6, <1>8 DEF Behind
<1>15. MadeOf(s, a, b, c, d)
  BY <1>9, <1>11, <1>12, <1>13, <1>14 DEF MadeOf, p, k, q, r
<1> QED BY <1>7, <1>15

LEMMA ParamIs ==
  ASSUME NEW key \in Bytes, NEW value \in Bytes
  PROVE  LET s == Wire!SerializeParam([key |-> key, value |-> value])
             k == Len(key)
             v == Len(value)
         IN /\ s \in Bytes /\ Len(s) = 8 + k + v
            /\ \A j \in 1..4 : s[j] = Wire!Big32(k)[j]
            /\ \A j \in 1..k : s[4 + j] = key[j]
            /\ \A j \in 1..4 : s[4 + k + j] = Wire!Big32(v)[j]
            /\ \A j \in 1..v : s[8 + k + j] = value[j]
<1> DEFINE k == Len(key)
           v == Len(value)
           a == Wire!Big32(k)
           c == Wire!Big32(v)
           s == Wire!SerializeParam([key |-> key, value |-> value])
<1>1. k \in Nat /\ v \in Nat
  BY DEF Bytes
<1> HIDE DEF k, v
<1>2. a \in Bytes /\ Len(a) = 4 /\ c \in Bytes /\ Len(c) = 4
  BY <1>1, Big32Is
<1>3. s = a \o key \o c \o value
  BY DEF Wire!SerializeParam, k, v
<1> HIDE DEF a, c, s
<1>4. MadeOf(s, a, key, c, value)
  BY <1>2, <1>3, FourParts
<1>5. /\ s \in Bytes /\ Len(s) = Len(a) + k + Len(c) + v
      /\ \A j \in 1..Len(a) : s[j] = a[j]
      /\ \A j \in 1..k : s[Len(a) + j] = key[j]
      /\ \A j \in 1..Len(c) : s[Len(a) + k + j] = c[j]
      /\ \A j \in 1..v : s[Len(a) + k + Len(c) + j] = value[j]
  BY <1>4 DEF MadeOf, k, v
<1>6. 4 + k + 4 = 8 + k
  BY <1>1
<1>7. /\ s \in Bytes /\ Len(s) = 8 + k + v
      /\ \A j \in 1..4 : s[j] = a[j]
      /\ \A j \in 1..k : s[4 + j] = key[j]
      /\ \A j \in 1..4 : s[4 + k + j] = c[j]
      /\ \A j \in 1..v : s[8 + k + j] = value[j]
  BY <1>2, <1>5, <1>6
<1> QED BY <1>7 DEF a, c, s, k, v

LEMMA SubSeqIs ==
  ASSUME NEW bytes \in Bytes, NEW text \in Bytes, NEW i \in Nat \ {0},
         i + Len(text) - 1 <= Len(bytes),
         \A j \in 1..Len(text) : bytes[i + j - 1] = text[j]
  PROVE  SubSeq(bytes, i, i + Len(text) - 1) = text
<1> DEFINE sub == SubSeq(bytes, i, i + Len(text) - 1)
<1>1. sub \in Seq(Nat) /\ Len(sub) = Len(text)
  BY DEF Bytes
<1>2. \A j \in 1..Len(text) : sub[j] = bytes[i + j - 1]
  BY DEF Bytes
<1> HIDE DEF sub
<1>3. text \in Seq(Nat)
  BY DEF Bytes
<1>4. \A j \in 1..Len(text) : sub[j] = text[j]
  BY <1>2
<1> QED BY <1>1, <1>3, <1>4, SeqEqual, Zenon DEF sub

(* Where a length is written, it is read.                                  *)
LEMMA LengthReads ==
  ASSUME NEW bytes, NEW i \in Nat, NEW n \in Nat, n <= 400,
         \A j \in 1..4 : bytes[i - 1 + j] = Wire!Big32(n)[j]
  PROVE  Wire!Value32(bytes, i) = n
<1>1. /\ Wire!Big32(n)[1] = 0 /\ Wire!Big32(n)[2] = 0
      /\ Wire!Big32(n)[3] = (n \div 256) % 256 /\ Wire!Big32(n)[4] = n % 256
  <2>1. n \in Nat
    OBVIOUS
  <2>2. /\ Wire!Big32(n)[1] = ((n \div 65536) \div 256) % 256
        /\ Wire!Big32(n)[2] = (n \div 65536) % 256
        /\ Wire!Big32(n)[3] = (n \div 256) % 256
        /\ Wire!Big32(n)[4] = n % 256
    BY <2>1, Big32Is, SMT
  <2>3. ((n \div 65536) \div 256) % 256 = 0 /\ (n \div 65536) % 256 = 0
    BY Digits256, SMT
  <2> QED BY <2>2, <2>3, SMT
<1>2. /\ bytes[i] = Wire!Big32(n)[1] /\ bytes[i + 1] = Wire!Big32(n)[2]
      /\ bytes[i + 2] = Wire!Big32(n)[3] /\ bytes[i + 3] = Wire!Big32(n)[4]
  <2>1. i - 1 + 1 = i /\ i - 1 + 2 = i + 1 /\ i - 1 + 3 = i + 2 /\ i - 1 + 4 = i + 3
    OBVIOUS
  <2>2. /\ bytes[i - 1 + 1] = Wire!Big32(n)[1] /\ bytes[i - 1 + 2] = Wire!Big32(n)[2]
        /\ bytes[i - 1 + 3] = Wire!Big32(n)[3] /\ bytes[i - 1 + 4] = Wire!Big32(n)[4]
    OBVIOUS
  <2> QED BY <2>1, <2>2
<1>3. i + 2 + 1 = i + 3
  OBVIOUS
<1>4. Wire!Value16(bytes, i) = 0
  BY <1>1, <1>2 DEF Wire!Value16
<1>5. Wire!Value16(bytes, i + 2) = n
  BY <1>1, <1>2, <1>3, Digits256 DEF Wire!Value16
<1> QED BY <1>4, <1>5, SMT DEF Wire!Value32

LEMMA TextReads ==
  ASSUME NEW bytes \in Bytes, NEW i \in Nat \ {0}, NEW text \in Short,
         i + 3 + Len(text) <= Len(bytes),
         \A j \in 1..4 : bytes[i - 1 + j] = Wire!Big32(Len(text))[j],
         \A j \in 1..Len(text) : bytes[i + 3 + j] = text[j]
  PROVE  Wire!TextIn(bytes, i) = text
<1>1. text \in Bytes /\ Len(text) \in Nat
  BY DEF Short, Bytes
<1>2. Wire!Value32(bytes, i) = Len(text)
  <2>1. Len(text) <= 400
    BY DEF Short
  <2> QED BY <1>1, <2>1, LengthReads
<1>3. Len(text) \in Nat /\ Len(bytes) \in Nat
  BY DEF Short, Bytes
<1> DEFINE n == Len(text)
           h == i + 4
<1>4. h \in Nat \ {0} /\ h + n - 1 <= Len(bytes) /\ i + 3 + n = h + n - 1
  <2> HIDE DEF n
  <2> QED BY <1>3 DEF n
<1>5. \A j \in 1..n : bytes[h + j - 1] = text[j]
  <2> TAKE j \in 1..n
  <2>1. h + j - 1 = i + 3 + j
    BY <1>3
  <2> QED BY <2>1
<1> HIDE DEF h
<1>6. SubSeq(bytes, h, h + n - 1) = text
  BY <1>1, <1>4, <1>5, SubSeqIs
<1>7. SubSeq(bytes, h, i + 3 + n) = text
  BY <1>4, <1>6
<1> QED BY <1>2, <1>7 DEF Wire!TextIn, h

(* Where a parameter is written, its two texts are read.                   *)
StandsAt(bytes, i, s) ==
  /\ i + Len(s) - 1 <= Len(bytes)
  /\ \A j \in 1..Len(s) : bytes[i - 1 + j] = s[j]

LEMMA ParamReads ==
  ASSUME NEW bytes \in Bytes, NEW i \in Nat \ {0},
         NEW key \in Short, NEW value \in Short,
         StandsAt(bytes, i, Wire!SerializeParam([key |-> key, value |-> value]))
  PROVE  /\ Wire!TextIn(bytes, i) = key
         /\ Wire!TextIn(bytes, i + 4 + Len(key)) = value
<1> DEFINE s == Wire!SerializeParam([key |-> key, value |-> value])
           k == Len(key)
           v == Len(value)
<1>1. /\ i + Len(s) - 1 <= Len(bytes)
      /\ \A j \in 1..Len(s) : bytes[i - 1 + j] = s[j]
  BY DEF StandsAt
<1>2. key \in Bytes /\ value \in Bytes /\ k \in Nat /\ v \in Nat
  BY DEF Short, Bytes
<1>3. /\ Len(s) = 8 + k + v
      /\ \A j \in 1..4 : s[j] = Wire!Big32(k)[j]
      /\ \A j \in 1..k : s[4 + j] = key[j]
      /\ \A j \in 1..4 : s[4 + k + j] = Wire!Big32(v)[j]
      /\ \A j \in 1..v : s[8 + k + j] = value[j]
  BY <1>2, ParamIs
<1>4. Len(bytes) \in Nat
  BY DEF Bytes
<1> HIDE DEF s
<1>5. Wire!TextIn(bytes, i) = key
  <2>1. i + 3 + k <= Len(bytes)
    BY <1>2, <1>3, <1>4, <1>1
  <2>2. ASSUME NEW j \in 1..4 PROVE bytes[i - 1 + j] = Wire!Big32(k)[j]
    <3>1. j \in 1..Len(s)
      BY <1>2, <1>3
    <3> QED BY <1>3, <1>1, <3>1
  <2>3. ASSUME NEW j \in 1..k PROVE bytes[i + 3 + j] = key[j]
    <3> DEFINE l == 4 + j
    <3>1. l \in 1..Len(s) /\ i - 1 + l = i + 3 + j
      <4>1. j \in Nat /\ 1 <= j /\ j <= k /\ k \in Nat /\ v \in Nat
        BY <1>2
      <4>2. Len(s) = 8 + k + v
        BY <1>3
      <4> HIDE DEF k, v
      <4> QED BY <4>1, <4>2
    <3>2. s[l] = key[j]
      BY <1>3
    <3> HIDE DEF l
    <3>3. bytes[i - 1 + l] = s[l]
      BY <1>1, <3>1
    <3> QED BY <3>1, <3>2, <3>3
  <2> QED BY <2>1, <2>2, <2>3, TextReads
<1>6. Wire!TextIn(bytes, i + 4 + k) = value
  <2> DEFINE h == i + 4 + k
  <2>1. h \in Nat \ {0} /\ h + 3 + v <= Len(bytes)
    BY <1>2, <1>3, <1>4, <1>1
  <2>2. ASSUME NEW j \in 1..4 PROVE bytes[h - 1 + j] = Wire!Big32(v)[j]
    <3> DEFINE l == 4 + k + j
    <3>1. l \in 1..Len(s) /\ i - 1 + l = h - 1 + j
      BY <1>2, <1>3
    <3>2. s[l] = Wire!Big32(v)[j]
      BY <1>3
    <3> HIDE DEF l, h
    <3>3. bytes[i - 1 + l] = s[l]
      BY <1>1, <3>1
    <3> QED BY <3>1, <3>2, <3>3
  <2>3. ASSUME NEW j \in 1..v PROVE bytes[h + 3 + j] = value[j]
    <3> DEFINE l == 8 + k + j
    <3>1. l \in 1..Len(s) /\ i - 1 + l = h + 3 + j
      BY <1>2, <1>3
    <3>2. s[l] = value[j]
      BY <1>3
    <3> HIDE DEF l, h
    <3>3. bytes[i - 1 + l] = s[l]
      BY <1>1, <3>1
    <3> QED BY <3>1, <3>2, <3>3
  <2> HIDE DEF h
  <2>4. Wire!TextIn(bytes, h) = value
    BY <2>1, <2>2, <2>3, TextReads
  <2> QED BY <2>4 DEF h
<1> QED BY <1>5, <1>6

(* How many bytes the first texts have.                                    *)
Upto(f, k) == IF k = 0 THEN 0 ELSE Len(f[k])

(* Texts one behind the other: each begins where those before it end.      *)
LaidOut(f, N, seqs) ==
  /\ \A k \in 0..N : Upto(f, k) \in Nat /\ Upto(f, k) <= Upto(f, N)
  /\ \A k \in 1..N : f[k] \in Bytes
  /\ \A k \in 1..N : Upto(f, k) = Upto(f, k - 1) + Len(seqs[k])
  /\ \A k \in 1..N : \A j \in 1..Len(seqs[k]) :
       f[N][Upto(f, k - 1) + j] = seqs[k][j]

LEMMA Places ==
  ASSUME NEW N \in Nat \ {0}, NEW seqs \in [1..N -> Bytes], Len(seqs) = N,
         NEW f, Flattens(f, seqs)
  PROVE  LaidOut(f, N, seqs)
<1>1. \A i \in 1..N : f[i] = IF i = 1 THEN seqs[1] ELSE f[i - 1] \o seqs[i]
  BY DEF Flattens
<1>2. \A k \in 1..N : seqs[k] \in Bytes /\ Len(seqs[k]) \in Nat
  BY DEF Bytes
<1>3. \A k \in 1..N : f[k] \in Bytes
  <2> DEFINE K == {k \in 0..N : k = 0 \/ f[k] \in Bytes}
  <2>1. 0 \in K
    OBVIOUS
  <2>2. ASSUME NEW k \in 1..N, k - 1 \in K PROVE k \in K
    <3>1. CASE k = 1
      BY <1>1, <1>2, <3>1
    <3>2. CASE k # 1
      <4>1. k - 1 \in 1..N /\ f[k - 1] \in Bytes
        BY <2>2, <3>2
      <4>2. f[k - 1] \o seqs[k] \in Bytes
        BY <1>2, <4>1, JoinIs DEF Behind
      <4> QED BY <1>1, <3>2, <4>2
    <3> QED BY <3>1, <3>2
  <2> HIDE DEF K
  <2>3. 0..N \subseteq K
    BY <2>1, <2>2, SetInduction
  <2> QED BY <2>3 DEF K
<1>4. \A k \in 1..N : Len(f[k]) \in Nat
  BY <1>3 DEF Bytes
<1>5. ASSUME NEW k \in 1..N
      PROVE  /\ Upto(f, k) = Upto(f, k - 1) + Len(seqs[k])
             /\ \A j \in 1..Upto(f, k - 1) : f[k][j] = f[k - 1][j]
             /\ \A j \in 1..Len(seqs[k]) : f[k][Upto(f, k - 1) + j] = seqs[k][j]
  <2>1. CASE k = 1
    <3>1. Upto(f, k) = Len(f[k]) /\ Upto(f, k - 1) = 0 /\ f[k] = seqs[k]
      BY <1>1, <2>1 DEF Upto
    <3>2. \A j \in 1..Len(seqs[k]) : 0 + j = j
      BY <1>2
    <3> QED BY <1>2, <3>1, <3>2
  <2>2. CASE k # 1
    <3>1. k - 1 \in 1..N /\ k # 0 /\ k - 1 # 0
      BY <2>2
    <3>2. f[k] = f[k - 1] \o seqs[k]
      BY <1>1, <2>2
    <3>3. Behind(f[k], f[k - 1], Len(f[k - 1]), seqs[k], Len(seqs[k]))
      BY <1>2, <1>3, <3>1, <3>2, JoinIs
    <3>4. Upto(f, k) = Len(f[k]) /\ Upto(f, k - 1) = Len(f[k - 1])
      BY <3>1 DEF Upto
    <3> QED BY <3>3, <3>4 DEF Behind
  <2> QED BY <2>1, <2>2
<1>6. \A k \in 0..N : Upto(f, k) \in Nat
  BY <1>4 DEF Upto
(* What is behind a text does not change it.                               *)
<1> DEFINE D == {d \in 0..N : \A k \in 0..N : k >= N - d =>
                   /\ Upto(f, k) <= Upto(f, N)
                   /\ \A j \in 1..Upto(f, k) : f[N][j] = f[k][j]}
<1>7. 0 \in D
  BY <1>6
<1>8. ASSUME NEW d \in 1..N, d - 1 \in D PROVE d \in D
  <2> SUFFICES ASSUME NEW k \in 0..N, k >= N - d
               PROVE  /\ Upto(f, k) <= Upto(f, N)
                      /\ \A j \in 1..Upto(f, k) : f[N][j] = f[k][j]
    OBVIOUS
  <2>1. CASE k >= N - (d - 1)
    BY <1>8, <2>1
  <2>2. CASE ~(k >= N - (d - 1))
    <3> DEFINE l == k + 1
    <3>1. l \in 1..N /\ l >= N - (d - 1) /\ l - 1 = k
      BY <2>2
    <3>2. l \in 0..N
      BY <3>1
    <3> HIDE DEF l
    <3>3. /\ Upto(f, l) <= Upto(f, N)
          /\ \A j \in 1..Upto(f, l) : f[N][j] = f[l][j]
      BY <1>8, <3>1, <3>2
    <3>4. /\ Upto(f, l) = Upto(f, k) + Len(seqs[l])
          /\ \A j \in 1..Upto(f, k) : f[l][j] = f[k][j]
      BY <1>5, <3>1
    <3>5. Upto(f, k) \in Nat /\ Upto(f, l) \in Nat /\ Len(seqs[l]) \in Nat /\ Upto(f, N) \in Nat
      BY <1>2, <1>6, <3>1, <3>2
    <3>6. \A j \in 1..Upto(f, k) : j \in 1..Upto(f, l)
      BY <3>4, <3>5
    <3> QED BY <3>3, <3>4, <3>5, <3>6
  <2> QED BY <2>1, <2>2
<1> HIDE DEF D
<1>9. 0..N \subseteq D
  BY <1>7, <1>8, SetInduction
<1>10. \A k \in 0..N : /\ Upto(f, k) <= Upto(f, N)
                      /\ \A j \in 1..Upto(f, k) : f[N][j] = f[k][j]
  <2>1. N \in D
    BY <1>9
  <2>2. \A k \in 0..N : k >= N - N
    OBVIOUS
  <2> QED BY <2>1, <2>2 DEF D
<1>11. ASSUME NEW k \in 1..N, NEW j \in 1..Len(seqs[k])
       PROVE  f[N][Upto(f, k - 1) + j] = seqs[k][j]
  <2> DEFINE i == Upto(f, k - 1) + j
  <2>1. k - 1 \in 0..N /\ k \in 0..N
    OBVIOUS
  <2>2. i \in 1..Upto(f, k)
    <3>1. Upto(f, k - 1) \in Nat /\ Len(seqs[k]) \in Nat
      BY <1>2, <1>6, <2>1
    <3>2. Upto(f, k) = Upto(f, k - 1) + Len(seqs[k])
      BY <1>5
    <3> QED BY <3>1, <3>2
  <2>3. f[k][i] = seqs[k][j]
    BY <1>5
  <2> HIDE DEF i
  <2>4. f[N][i] = f[k][i]
    BY <1>10, <2>1, <2>2
  <2> QED BY <2>3, <2>4 DEF i
<1> QED BY <1>3, <1>5, <1>6, <1>10, <1>11 DEF LaidOut

(* What a server reads pair by pair.                                       *)
ReadMore(bytes, before) ==
  LET i == before.at
      key == Wire!TextIn(bytes, i)
      value == Wire!TextIn(bytes, i + 4 + Len(key))
  IN [at |-> i + 8 + Len(key) + Len(value),
      params |-> Append(before.params, [key |-> key, value |-> value])]

ReadsOn(g, bytes, n) ==
  \A i \in 0..n : g[i] = IF i = 0 THEN [at |-> 26, params |-> <<>>]
                                  ELSE ReadMore(bytes, g[i - 1])

LEMMA ReadSteps ==
  ASSUME NEW bytes, NEW n \in Nat
  PROVE  \E g : ReadsOn(g, bytes, n) /\ Wire!ParamsIn(bytes, n) = g[n]
<1> DEFINE first == [at |-> 26, params |-> <<>>]
           P(f, k) == f = [i \in 0..k |-> IF i = 0 THEN first ELSE ReadMore(bytes, f[i - 1])]
           K == {k \in 0..n : \E f : P(f, k)}
<1>1. 0 \in K
  <2>1. P([i \in 0..0 |-> first], 0)
    BY SMT
  <2>2. 0 \in 0..n
    OBVIOUS
  <2> HIDE DEF P
  <2> QED BY <2>1, <2>2
<1>2. ASSUME NEW k \in 1..n, k - 1 \in K PROVE k \in K
  <2>1. PICK f : P(f, k - 1)
    BY <1>2
  <2> DEFINE new == ReadMore(bytes, f[k - 1])
             g == [i \in 0..k |-> IF i = k THEN new ELSE f[i]]
  <2>2. ASSUME NEW i \in 0..k
        PROVE  g[i] = IF i = 0 THEN first ELSE ReadMore(bytes, g[i - 1])
    <3> HIDE DEF first
    <3>1. CASE i = k
      BY <3>1
    <3>2. CASE i # k
      <4>1. i \in 0..(k - 1) /\ (i # 0 => i - 1 \in 0..(k - 1))
        BY <3>2
      <4>2. f[i] = IF i = 0 THEN first ELSE ReadMore(bytes, f[i - 1])
        BY <2>1, <4>1
      <4>3. g[i] = f[i] /\ (i # 0 => g[i - 1] = f[i - 1])
        BY <3>2, <4>1
      <4> QED BY <4>2, <4>3
    <3> QED BY <3>1, <3>2
  <2>3. P(g, k)
    <3> HIDE DEF first
    <3> QED BY <2>2
  <2> HIDE DEF g, P
  <2> QED BY <2>3
<1> HIDE DEF K
<1>3. 0..n \subseteq K
  BY <1>1, <1>2, SetInduction
<1>4. \E f : P(f, n)
  <2>1. n \in K
    BY <1>3
  <2> HIDE DEF P
  <2> QED BY <2>1 DEF K
<1> DEFINE f == CHOOSE g : P(g, n)
<1>5. P(f, n)
  BY <1>4
<1>6. Wire!ParamsIn(bytes, n) = f[n]
  BY DEF Wire!ParamsIn, ReadMore
<1> HIDE DEF f
<1>7. ReadsOn(f, bytes, n)
  BY <1>5 DEF ReadsOn
<1> QED BY <1>6, <1>7

LEMMA PairIs ==
  ASSUME NEW param \in Pairs
  PROVE  /\ param.key \in Short /\ param.value \in Short
         /\ Len(param.key) \in Nat /\ Len(param.value) \in Nat
         /\ param = [key |-> param.key, value |-> param.value]
         /\ Wire!SerializeParam(param) \in Bytes
         /\ Len(Wire!SerializeParam(param)) = 8 + Len(param.key) + Len(param.value)
<1>1. param.key \in Short /\ param.value \in Short
  BY DEF Pairs
<1>2. param = [key |-> param.key, value |-> param.value]
  BY DEF Pairs
<1>3. param.key \in Bytes /\ param.value \in Bytes
  BY <1>1 DEF Short
<1>4. Len(param.key) \in Nat /\ Len(param.value) \in Nat
  BY <1>3 DEF Bytes
<1> DEFINE k == param.key
           v == param.value
<1>5. /\ Wire!SerializeParam([key |-> k, value |-> v]) \in Bytes
      /\ Len(Wire!SerializeParam([key |-> k, value |-> v])) = 8 + Len(k) + Len(v)
  <2> HIDE DEF k, v
  <2> QED BY <1>3, ParamIs DEF k, v
<1> QED BY <1>1, <1>2, <1>4, <1>5

(* The parameters one behind the other.                                    *)
Written(f, N, params) ==
  /\ f[N] \in Bytes
  /\ \A k \in 0..N : Upto(f, k) \in Nat /\ Upto(f, k) <= Upto(f, N)
  /\ \A k \in 1..N :
       Upto(f, k) = Upto(f, k - 1) + 8 + Len(params[k].key) + Len(params[k].value)
  /\ \A k \in 1..N : \A j \in 1..Len(Wire!SerializeParam(params[k])) :
       f[N][Upto(f, k - 1) + j] = Wire!SerializeParam(params[k])[j]

LEMMA ParamsWritten ==
  ASSUME NEW N \in Nat \ {0}, NEW params \in [1..N -> Pairs]
  PROVE  \E f : Wire!ParamBytes(params) = f[N] /\ Written(f, N, params)
<1> DEFINE seqs == [k \in 1..N |-> Wire!SerializeParam(params[k])]
<1>1. Len(params) = N
  OBVIOUS
<1>2. ASSUME NEW k \in 1..N PROVE seqs[k] \in Bytes
  <2>1. params[k] \in Pairs
    OBVIOUS
  <2> QED BY <2>1, PairIs
<1>3. seqs \in [1..N -> Bytes] /\ Len(seqs) = N
  BY <1>2
<1>4. Wire!ParamBytes(params) = Wire!FlattenSeq(seqs)
  BY <1>1 DEF Wire!ParamBytes
<1>5. \A k \in 1..N : seqs[k] = Wire!SerializeParam(params[k])
  OBVIOUS
<1> HIDE DEF seqs
<1>6. PICK f : Flattens(f, seqs) /\ Wire!FlattenSeq(seqs) = f[Len(seqs)]
  BY <1>3, FlattenSteps
<1>7. LaidOut(f, N, seqs)
  BY <1>3, <1>6, Places
<1>8. /\ \A k \in 0..N : Upto(f, k) \in Nat /\ Upto(f, k) <= Upto(f, N)
      /\ \A k \in 1..N : f[k] \in Bytes
      /\ \A k \in 1..N : Upto(f, k) = Upto(f, k - 1) + Len(seqs[k])
      /\ \A k \in 1..N : \A j \in 1..Len(seqs[k]) :
           f[N][Upto(f, k - 1) + j] = seqs[k][j]
  BY <1>7 DEF LaidOut
<1>9. ASSUME NEW k \in 1..N
      PROVE  Upto(f, k) = Upto(f, k - 1) + 8 + Len(params[k].key) + Len(params[k].value)
  <2>1. params[k] \in Pairs
    OBVIOUS
  <2>2. Len(seqs[k]) = 8 + Len(params[k].key) + Len(params[k].value)
    BY <1>5, <2>1, PairIs
  <2>3. Upto(f, k) = Upto(f, k - 1) + Len(seqs[k]) /\ Upto(f, k - 1) \in Nat
    BY <1>8
  <2>4. Len(params[k].key) \in Nat /\ Len(params[k].value) \in Nat
    BY <2>1, PairIs
  <2> DEFINE u == Upto(f, k - 1)
             a == Len(params[k].key)
             b == Len(params[k].value)
  <2>5. u + (8 + a + b) = u + 8 + a + b
    <3>1. u \in Nat /\ a \in Nat /\ b \in Nat
      BY <2>3, <2>4
    <3> HIDE DEF u, a, b
    <3> QED BY <3>1
  <2> QED BY <2>2, <2>3, <2>5
<1>10. \A k \in 1..N : \A j \in 1..Len(Wire!SerializeParam(params[k])) :
         f[N][Upto(f, k - 1) + j] = Wire!SerializeParam(params[k])[j]
  BY <1>5, <1>8
<1>11. f[N] \in Bytes
  BY <1>8
<1>12. Written(f, N, params)
  BY <1>8, <1>9, <1>10, <1>11 DEF Written
<1> QED BY <1>3, <1>4, <1>6, <1>12

(* Behind a header of 25 bytes they are all read, and nothing is left.     *)
LEMMA ParamsRead ==
  ASSUME NEW N \in Nat \ {0}, NEW params \in [1..N -> Pairs],
         NEW head \in Bytes, Len(head) = 25,
         NEW f, Written(f, N, params)
  PROVE  Wire!ParamsIn(head \o f[N], N)
           = [at |-> Len(head \o f[N]) + 1, params |-> params]
<1> DEFINE bytes == head \o f[N]
<1>1. Behind(bytes, head, 25, f[N], Len(f[N]))
  BY JoinIs DEF Written
<1> HIDE DEF bytes
<1>2. /\ bytes \in Bytes /\ Len(bytes) = 25 + Upto(f, N)
      /\ \A j \in 1..Upto(f, N) : bytes[25 + j] = f[N][j]
  BY <1>1 DEF Behind, Upto
<1>3. PICK g : ReadsOn(g, bytes, N) /\ Wire!ParamsIn(bytes, N) = g[N]
  BY ReadSteps
<1> DEFINE Part(k) == [i \in 1..k |-> params[i]]
           K == {k \in 0..N : g[k] = [at |-> 26 + Upto(f, k), params |-> Part(k)]}
<1>4. 0 \in K
  <2>1. g[0] = [at |-> 26, params |-> <<>>]
    <3>1. 0 \in 0..N
      OBVIOUS
    <3> QED BY <1>3, <3>1 DEF ReadsOn
  <2>2. Part(0) = <<>>
    OBVIOUS
  <2>3. Upto(f, 0) = 0 /\ 0 \in 0..N
    BY DEF Upto
  <2> QED BY <2>1, <2>2, <2>3
<1>5. ASSUME NEW k \in 1..N, k - 1 \in K PROVE k \in K
  <2> DEFINE i == 26 + Upto(f, k - 1)
             key == params[k].key
             value == params[k].value
             s == Wire!SerializeParam([key |-> key, value |-> value])
  <2>1. g[k - 1] = [at |-> i, params |-> Part(k - 1)]
    BY <1>5
  <2>2. g[k] = ReadMore(bytes, g[k - 1])
    BY <1>3 DEF ReadsOn
  <2>3. params[k] \in Pairs /\ k - 1 \in 0..N /\ k \in 0..N
    OBVIOUS
  <2>4. /\ key \in Short /\ value \in Short /\ Len(key) \in Nat /\ Len(value) \in Nat
        /\ params[k] = [key |-> key, value |-> value]
        /\ Len(Wire!SerializeParam(params[k])) = 8 + Len(key) + Len(value)
    BY <2>3, PairIs
  <2>5. /\ Upto(f, k - 1) \in Nat /\ Upto(f, k) \in Nat /\ Upto(f, N) \in Nat
        /\ Upto(f, k) <= Upto(f, N)
        /\ Upto(f, k) = Upto(f, k - 1) + 8 + Len(key) + Len(value)
    BY <2>3 DEF Written
  <2>6. Len(s) = 8 + Len(key) + Len(value)
    BY <2>4
  <2>7. \A j \in 1..Len(s) : f[N][Upto(f, k - 1) + j] = s[j]
    <3>1. s = Wire!SerializeParam(params[k])
      BY <2>4
    <3> HIDE DEF s, key, value
    <3> QED BY <3>1 DEF Written
  <2>8. /\ Wire!TextIn(bytes, i) = key
        /\ Wire!TextIn(bytes, i + 4 + Len(key)) = value
    <3>1. ASSUME NEW j \in 1..Len(s) PROVE bytes[i - 1 + j] = s[j]
      <4> DEFINE l == Upto(f, k - 1) + j
      <4>1. l \in 1..Upto(f, N) /\ i - 1 + j = 25 + l
        <5> HIDE DEF s, key, value
        <5> QED BY <2>4, <2>5, <2>6
      <4>2. f[N][l] = s[j]
        BY <2>7
      <4> HIDE DEF l, s
      <4>3. bytes[25 + l] = f[N][l]
        BY <1>2, <4>1
      <4> QED BY <4>1, <4>2, <4>3
    <3>2. i \in Nat \ {0} /\ i + Len(s) - 1 <= Len(bytes)
      <4> HIDE DEF s, key, value
      <4> QED BY <1>2, <2>4, <2>5, <2>6
    <3>3. StandsAt(bytes, i, s)
      BY <3>1, <3>2 DEF StandsAt
    <3>4. bytes \in Bytes /\ key \in Short /\ value \in Short /\ i \in Nat \ {0}
      BY <1>2, <2>4, <3>2
    <3> HIDE DEF i, key, value
    <3> QED BY <3>3, <3>4, ParamReads
  <2>9. g[k] = [at |-> i + 8 + Len(key) + Len(value),
                params |-> Append(Part(k - 1), [key |-> key, value |-> value])]
    <3> HIDE DEF i, key, value, Part
    <3> QED BY <2>1, <2>2, <2>8 DEF ReadMore
  <2>10. Append(Part(k - 1), params[k]) = Part(k)
    OBVIOUS
  <2>11. i + 8 + Len(key) + Len(value) = 26 + Upto(f, k)
    <3> HIDE DEF key, value
    <3> QED BY <2>4, <2>5
  <2> HIDE DEF i, key, value, Part
  <2>12. g[k] = [at |-> 26 + Upto(f, k), params |-> Part(k)]
    BY <2>4, <2>9, <2>10, <2>11
  <2> QED BY <2>3, <2>12
<1> HIDE DEF K
<1>6. 0..N \subseteq K
  BY <1>4, <1>5, SetInduction
<1>7. g[N] = [at |-> 26 + Upto(f, N), params |-> Part(N)]
  <2>1. N \in K
    BY <1>6
  <2> QED BY <2>1 DEF K
<1>8. Part(N) = params
  OBVIOUS
<1>9. Upto(f, N) \in Nat
  BY DEF Written
<1>10. 26 + Upto(f, N) = Len(bytes) + 1
  BY <1>2, <1>9
<1> HIDE DEF Part
<1> QED BY <1>3, <1>7, <1>8, <1>10 DEF bytes

(* The header has 25 bytes and says both lengths.                          *)
LEMMA HeaderIs ==
  ASSUME NEW n \in Nat, n <= 2000
  PROVE  LET head == Wire!SerializeHeader(n)
         IN /\ head \in Bytes /\ Len(head) = 25
            /\ Wire!Value16(head, 4) = n + 25
            /\ Wire!Value16(head, 24) = n
<1> DEFINE a == <<171, 0, 0>>
           b == Wire!Big16(n + 25)
           c == <<39, 21, 159, 154, 84, 23>>
           z == [i \in 1..12 |-> 0]
           d == Wire!Big16(n)
           s == a \o b
           t == s \o c
           u == t \o z
           head == u \o d
<1>1. a \in Bytes /\ Len(a) = 3 /\ c \in Bytes /\ Len(c) = 6 /\ z \in Bytes /\ Len(z) = 12
  BY DEF Bytes
<1>2. b \in Bytes /\ Len(b) = 2 /\ d \in Bytes /\ Len(d) = 2
  <2>1. n \in Nat /\ n + 25 \in Nat
    OBVIOUS
  <2> QED BY <2>1, Big16Is
<1>3. b[1] * 256 + b[2] = n + 25 /\ d[1] * 256 + d[2] = n
  <2>1. ASSUME NEW m \in Nat, m <= 65535
        PROVE  Wire!Big16(m)[1] * 256 + Wire!Big16(m)[2] = m
    <3>1. Wire!Big16(m)[1] = (m \div 256) % 256 /\ Wire!Big16(m)[2] = m % 256
      BY Big16Is
    <3>2. ((m \div 256) % 256) * 256 + (m % 256) = m
      BY <2>1, Digits256, SMT
    <3> QED BY <3>1, <3>2, SMT
  <2>2. n \in Nat /\ n <= 65535 /\ n + 25 \in Nat /\ n + 25 <= 65535
    BY SMT
  <2> QED BY <2>1, <2>2, SMT
<1>4. Wire!SerializeHeader(n) = head
  BY SMT DEF Wire!SerializeHeader
<1> HIDE DEF a, b, c, z, d
<1>5. Behind(s, a, 3, b, 2)
  <2>1. a \in Bytes /\ b \in Bytes
    BY <1>1, <1>2 DEF Behind
  <2>2. Behind(s, a, Len(a), b, Len(b))
    BY <2>1, JoinIs
  <2> QED BY <1>1, <1>2, <2>2 DEF Behind
<1> HIDE DEF s
<1>6. Behind(t, s, 5, c, 6)
  <2>1. s \in Bytes /\ c \in Bytes
    BY <1>1, <1>5 DEF Behind
  <2>2. Behind(t, s, Len(s), c, Len(c))
    BY <2>1, JoinIs
  <2> QED BY <1>1, <1>5, <2>2 DEF Behind
<1> HIDE DEF t
<1>7. Behind(u, t, 11, z, 12)
  <2>1. t \in Bytes /\ z \in Bytes
    BY <1>1, <1>6 DEF Behind
  <2>2. Behind(u, t, Len(t), z, Len(z))
    BY <2>1, JoinIs
  <2>3. Len(t) = 11
    BY <1>6 DEF Behind
  <2> QED BY <1>1, <2>2, <2>3
<1> HIDE DEF u
<1>8. Behind(head, u, 23, d, 2)
  <2>1. u \in Bytes /\ d \in Bytes
    BY <1>2, <1>7 DEF Behind
  <2>2. Behind(head, u, Len(u), d, Len(d))
    BY <2>1, JoinIs
  <2>3. Len(u) = 23
    BY <1>7 DEF Behind
  <2> QED BY <1>2, <2>2, <2>3
<1> HIDE DEF head
<1>9. /\ s[4] = b[1] /\ s[5] = b[2] /\ t[4] = s[4] /\ t[5] = s[5]
      /\ u[4] = t[4] /\ u[5] = t[5] /\ head[4] = u[4] /\ head[5] = u[5]
      /\ head[24] = d[1] /\ head[25] = d[2]
  <2>1. /\ \A j \in 1..2 : s[3 + j] = b[j]
        /\ \A j \in 1..2 : head[23 + j] = d[j]
    BY <1>5, <1>8 DEF Behind
  <2>2. s[3 + 1] = b[1] /\ s[3 + 2] = b[2] /\ head[23 + 1] = d[1] /\ head[23 + 2] = d[2]
    BY <2>1
  <2>3. t[4] = s[4] /\ t[5] = s[5]
    BY <1>6 DEF Behind
  <2>4. u[4] = t[4] /\ u[5] = t[5]
    BY <1>7 DEF Behind
  <2>5. head[4] = u[4] /\ head[5] = u[5]
    BY <1>8 DEF Behind
  <2> QED BY <2>2, <2>3, <2>4, <2>5
<1>10. Wire!Value16(head, 4) = n + 25 /\ Wire!Value16(head, 24) = n
  BY <1>3, <1>9, SMT DEF Wire!Value16
<1>11. head \in Bytes /\ Len(head) = 25
  BY <1>8 DEF Behind
<1> QED BY <1>4, <1>10, <1>11

(* A request has 23 parameters, all short, three values long.              *)
LEMMA ParamsAre ==
  ASSUME NEW number \in Nat, NEW total \in Nat
  PROVE  LET params == Wire!Params(number, total)
         IN /\ params \in [1..23 -> Pairs]
            /\ \A k \in 1..23 : /\ Len(params[k].key) <= 16
                                /\ Len(params[k].value) <= 379
                                /\ k \notin {9, 14, 23} => Len(params[k].value) <= 10
<1> DEFINE KL == Wire!KeyLengths
           VL == Wire!ValueLengths
           params == Wire!Params(number, total)
<1>1. Len(KL) = 23
  BY DEF Wire!KeyLengths
<1>2. \A k \in 1..23 : KL[k] \in Nat /\ KL[k] <= 16
  BY DEF Wire!KeyLengths
<1>3. \A k \in 1..23 : /\ VL[k] \in Nat /\ VL[k] <= 379
                       /\ k \notin {9, 14, 23} => VL[k] <= 10
  BY DEF Wire!ValueLengths
<1> DEFINE start == Wire!RangeStartOf(number)
           end == Wire!RangeEndOf(number, total)
<1>4. start \in Nat /\ end \in Nat
  <2> DEFINE c == Wire!RANGE
  <2>1. c \in Nat
    BY SMT DEF Wire!RANGE
  <2> HIDE DEF c
  <2>2. start = (c + 1) * number
    BY DEF Wire!RangeStartOf, c
  <2>3. start \in Nat
    BY <2>1, <2>2
  <2>4. end = IF total > 0 /\ total < start + c THEN total ELSE start + c
    BY DEF Wire!RangeEndOf, c
  <2> HIDE DEF start, end
  <2> QED BY <2>1, <2>3, <2>4
<1> HIDE DEF start, end
<1> DEFINE value(k) == CASE k = 6  -> Wire!to_string(number)
                         [] k = 15 -> Wire!to_string(start)
                         [] k = 16 -> Wire!to_string(end)
                         [] OTHER  -> Wire!Chars(VL[k], 100 + k)
           key(k) == Wire!Chars(KL[k], k)
<1>5. params = [k \in 1..23 |-> [key |-> key(k), value |-> value(k)]]
  BY <1>1 DEF Wire!Params, start, end
<1> HIDE DEF KL, VL
<1>6. ASSUME NEW k \in 1..23 PROVE key(k) \in Bytes /\ Len(key(k)) <= 16
  <2>1. k \in Nat /\ KL[k] \in Nat /\ KL[k] <= 16
    BY <1>2
  <2> QED BY <2>1, CharsAre
<1>7. ASSUME NEW k \in 1..23
      PROVE  /\ value(k) \in Bytes /\ Len(value(k)) <= 379
             /\ k \notin {9, 14, 23} => Len(value(k)) <= 10
  <2>1. \A n \in Nat : Wire!to_string(n) \in Bytes /\ Len(Wire!to_string(n)) <= 10
                       /\ Len(Wire!to_string(n)) <= 379
    <3>1. \A l \in 1..10 : l <= 10 /\ l <= 379
      OBVIOUS
    <3> QED BY <3>1, NumberIsShort
  <2>2. CASE k = 6
    BY <2>1, <2>2
  <2>3. CASE k = 15
    BY <1>4, <2>1, <2>3
  <2>4. CASE k = 16
    BY <1>4, <2>1, <2>4
  <2>5. CASE k \notin {6, 15, 16}
    <3>1. value(k) = Wire!Chars(VL[k], 100 + k)
      BY <2>5
    <3>2. VL[k] \in Nat /\ 100 + k \in Nat
      BY <1>3
    <3>3. value(k) \in Bytes /\ Len(value(k)) = VL[k]
      <4> HIDE DEF value
      <4> QED BY <3>1, <3>2, CharsAre
    <3> HIDE DEF value
    <3> QED BY <1>3, <3>3
  <2> QED BY <2>2, <2>3, <2>4, <2>5
<1> HIDE DEF key, value
<1>8. ASSUME NEW k \in 1..23
      PROVE  /\ params[k] \in Pairs
             /\ params[k].key = key(k) /\ params[k].value = value(k)
  <2>1. key(k) \in Short /\ value(k) \in Short
    <3> DEFINE x == key(k)
               y == value(k)
    <3>1. x \in Bytes /\ Len(x) <= 16 /\ y \in Bytes /\ Len(y) <= 379
      BY <1>6, <1>7
    <3> HIDE DEF x, y
    <3>2. Len(x) \in Nat /\ Len(y) \in Nat
      BY <3>1 DEF Bytes
    <3>3. Len(x) <= 400 /\ Len(y) <= 400
      BY <3>1, <3>2
    <3>4. x \in Short /\ y \in Short
      BY <3>1, <3>3 DEF Short
    <3> QED BY <3>4 DEF x, y
  <2>2. params[k] = [key |-> key(k), value |-> value(k)]
    BY <1>5
  <2> QED BY <2>1, <2>2 DEF Pairs
<1>9. params \in [1..23 -> Pairs]
  <2>1. params = [k \in 1..23 |-> params[k]]
    BY <1>5
  <2> QED BY <1>8, <2>1
<1> HIDE DEF params
<1>10. \A k \in 1..23 : /\ Len(params[k].key) <= 16
                        /\ Len(params[k].value) <= 379
                        /\ k \notin {9, 14, 23} => Len(params[k].value) <= 10
  BY <1>6, <1>7, <1>8
<1> QED BY <1>9, <1>10 DEF params

(* A request, for every number and every length of the file, says its own  *)
(* length and that of its parameters, fits the buffer they are written to, *)
(* and a server that reads pair by pair finds them all and nothing behind  *)
(* them (main.cpp:43-138, 158-222).                                        *)
THEOREM RequestsReadBack ==
  ASSUME NEW number \in Nat, NEW total \in Nat
  PROVE  Wire!ReadsBack(number, total)
<1> DEFINE params == Wire!Params(number, total)
           more == Wire!ParamBytes(params)
           head == Wire!SerializeHeader(Len(more))
           bytes == head \o more
<1>1. /\ params \in [1..23 -> Pairs]
      /\ \A k \in 1..23 : /\ Len(params[k].key) <= 16
                          /\ Len(params[k].value) <= 379
                          /\ k \notin {9, 14, 23} => Len(params[k].value) <= 10
  BY ParamsAre
<1> HIDE DEF params
<1>2. 23 \in Nat \ {0} /\ Len(params) = 23
  BY <1>1
<1>3. PICK f : more = f[23] /\ Written(f, 23, params)
  BY <1>1, <1>2, ParamsWritten
(* Three values are longer than 10 bytes.                                  *)
<1> DEFINE long(k) == IF k < 9 THEN 0 ELSE IF k < 14 THEN 1 ELSE IF k < 23 THEN 2 ELSE 3
           K == {k \in 0..23 : Upto(f, k) <= 34 * k + 379 * long(k)}
<1>4. Len(more) \in Nat /\ Len(more) <= 2000 /\ more \in Bytes
  <2>1. 0 \in K
    BY DEF Upto
  <2>2. ASSUME NEW k \in 1..23, k - 1 \in K PROVE k \in K
    <3>1. Upto(f, k) = Upto(f, k - 1) + 8 + Len(params[k].key) + Len(params[k].value)
      BY <1>3 DEF Written
    <3>2. Upto(f, k - 1) \in Nat /\ k - 1 \in 0..23
      <4>1. k - 1 \in 0..23
        OBVIOUS
      <4> QED BY <1>3, <4>1 DEF Written
    <3>3. params[k] \in Pairs
      BY <1>1
    <3>4. Len(params[k].key) \in Nat /\ Len(params[k].value) \in Nat
      BY <3>3, PairIs
    <3>5. /\ Len(params[k].key) <= 16 /\ Len(params[k].value) <= 379
          /\ k \notin {9, 14, 23} => Len(params[k].value) <= 10
      BY <1>1
    <3> DEFINE a == Len(params[k].key)
               b == Len(params[k].value)
               u == Upto(f, k - 1)
    <3>6. /\ a \in Nat /\ b \in Nat /\ u \in Nat /\ a <= 16 /\ b <= 379
          /\ k \notin {9, 14, 23} => b <= 10
          /\ u <= 34 * (k - 1) + 379 * long(k - 1)
          /\ Upto(f, k) = u + 8 + a + b
      BY <2>2, <3>1, <3>2, <3>4, <3>5
    <3> HIDE DEF a, b, u
    <3>7. CASE k \in {9, 14, 23}
      <4>1. long(k) = long(k - 1) + 1
        BY <3>7
      <4> QED BY <3>6, <4>1
    <3>8. CASE k \notin {9, 14, 23}
      <4>1. long(k) = long(k - 1)
        BY <3>8
      <4> QED BY <3>6, <3>8, <4>1
    <3> QED BY <3>7, <3>8
  <2> HIDE DEF K
  <2>3. 0..23 \subseteq K
    BY <2>1, <2>2, SetInduction
  <2>4. Upto(f, 23) <= 34 * 23 + 379 * 3
    <3>1. 23 \in K
      BY <2>3
    <3> QED BY <3>1 DEF K
  <2>5. Upto(f, 23) = Len(more) /\ more \in Bytes
    BY <1>3 DEF Upto, Written
  <2>6. Len(more) \in Nat
    BY <2>5 DEF Bytes
  <2> QED BY <2>4, <2>5, <2>6
<1> HIDE DEF more
<1>5. /\ head \in Bytes /\ Len(head) = 25
      /\ Wire!Value16(head, 4) = Len(more) + 25
      /\ Wire!Value16(head, 24) = Len(more)
  BY <1>4, HeaderIs
<1> HIDE DEF head
<1>6. Behind(bytes, head, Len(head), more, Len(more))
  BY <1>4, <1>5, JoinIs
<1>7. Wire!ParamsIn(bytes, 23) = [at |-> Len(bytes) + 1, params |-> params]
  BY <1>1, <1>2, <1>3, <1>5, ParamsRead
<1> HIDE DEF bytes
<1>8. Len(bytes) = Len(more) + 25
  BY <1>4, <1>5, <1>6 DEF Behind
<1>9. /\ bytes[4] = head[4] /\ bytes[5] = head[5]
      /\ bytes[24] = head[24] /\ bytes[25] = head[25]
  BY <1>5, <1>6 DEF Behind
<1>10. /\ Wire!Value16(bytes, 4) = Wire!Value16(head, 4)
       /\ Wire!Value16(bytes, 24) = Wire!Value16(head, 24)
  BY <1>9 DEF Wire!Value16
<1>11. /\ Wire!Value16(bytes, 4) = Len(bytes)
       /\ Wire!Value16(bytes, 24) = Len(bytes) - 25
       /\ Len(bytes) - 25 <= 4096
  BY <1>4, <1>5, <1>8, <1>10
<1>12. Wire!Req(number, total) = bytes
  BY DEF Wire!Req, params, more, head, bytes
<1>13. Wire!Params(number, total) = params
  BY DEF params
<1>14. Wire!ParamsIn(bytes, Len(params)) = [at |-> Len(bytes) + 1, params |-> params]
  BY <1>2, <1>7
<1> QED BY <1>11, <1>12, <1>13, <1>14 DEF Wire!ReadsBack
==============================================================================
