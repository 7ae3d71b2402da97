------------------------------ MODULE RequestText ------------------------------
(***************************************************************************)
(* The bytes of a request (CommonHeader, ParamHeader, Req).  A fixed text  *)
(* is its length, filled with a byte of its own.                           *)
(***************************************************************************)
EXTENDS Integers, Sequences, FiniteSetsExt, SequencesExt

IntMax == 2147483647
RANGE == 131071

Big16(n) == <<(n \div 256) % 256, n % 256>>
Big32(n) == Big16(n \div 65536) \o Big16(n)

(* An empty value is written as its length, which is 0, too.               *)
SerializeParam(param) ==
  Big32(Len(param.key)) \o param.key \o Big32(Len(param.value)) \o param.value

(* Mutant: the 2 bytes of the length behind the padding are not counted.   *)
SerializeHeaderShort(paramHeaderSize) ==
  <<171, 0, 0>> \o Big16(paramHeaderSize + 23) \o [i \in 1..18 |-> 0]
    \o Big16(paramHeaderSize)

(* 25 bytes: the start, the length of the packet, padding, that of the     *)
(* parameters; both lengths are unsigned shorts.                           *)
SerializeHeader(paramHeaderSize) ==
  <<171, 0, 0>> \o Big16(paramHeaderSize + 25)
    \o <<39, 21, 159, 154, 84, 23>> \o [i \in 1..12 |-> 0]
    \o Big16(paramHeaderSize)

Chars(n, byte) == [i \in 1..n |-> byte]

(* std::to_string of a number from 0 on; an int has ten digits at most.    *)
Powers == <<1, 10, 100, 1000, 10000, 100000, 1000000, 10000000, 100000000, 1000000000>>
to_string(n) ==
  LET size == Max({j \in 1..10 : j = 1 \/ n >= Powers[j]})
  IN [i \in 1..size |-> 48 + ((n \div Powers[size + 1 - i]) % 10)]

(* The lengths of the keys and of the fixed values.                        *)
KeyLengths == <<3, 9, 8, 4, 3, 3, 13, 12, 7, 7, 12, 6, 5, 3, 10, 8, 11, 5, 13, 15,
                11, 14, 16>>
ValueLengths == <<1, 9, 5, 1, 1, 0, 9, 7, 69, 1, 1, 0, 0, 379, 0, 0, 1, 1, 1, 1,
                  1, 2, 162>>

RangeStartOf(seq) == (RANGE + 1) * seq
RangeEndOf(seq, total) ==
  LET end == RangeStartOf(seq) + RANGE
  IN IF total > 0 /\ total < end THEN total ELSE end

Params(seq, total) ==
  [k \in 1..Len(KeyLengths) |->
     [key |-> Chars(KeyLengths[k], k),
      value |-> CASE k = 6  -> to_string(seq)
                  [] k = 15 -> to_string(RangeStartOf(seq))
                  [] k = 16 -> to_string(RangeEndOf(seq, total))
                  [] OTHER  -> Chars(ValueLengths[k], 100 + k)]]

ParamBytes(params) ==
  FlattenSeq([k \in 1..Len(params) |-> SerializeParam(params[k])])

Req(seq, total) ==
  LET bytes == ParamBytes(Params(seq, total))
  IN SerializeHeader(Len(bytes)) \o bytes

-----------------------------------------------------------------------------
(* What a server reads: texts with their lengths before them, in pairs,    *)
(* and where it is behind the first n pairs.                               *)
Value16(bytes, i) == bytes[i] * 256 + bytes[i + 1]
Value32(bytes, i) == Value16(bytes, i) * 65536 + Value16(bytes, i + 2)

TextIn(bytes, i) == SubSeq(bytes, i + 4, i + 3 + Value32(bytes, i))

ParamsIn(bytes, n) ==
  LET read[k \in 0..n] ==
        IF k = 0 THEN [at |-> 26, params |-> <<>>]
        ELSE LET before == read[k - 1]
                 i == before.at
                 key == TextIn(bytes, i)
                 value == TextIn(bytes, i + 4 + Len(key))
             IN [at |-> i + 8 + Len(key) + Len(value),
                 params |-> Append(before.params, [key |-> key, value |-> value])]
  IN read[n]

(* A request says its own length and that of its parameters, reads back to *)
(* its end as the parameters it was made of, empty ones and the largest    *)
(* numbers too, and they fit the buffer on the stack (main.cpp:43-138,     *)
(* 158-222).                                                               *)
ReadsBack(seq, total) ==
  LET bytes == Req(seq, total)
      params == Params(seq, total)
  IN /\ Value16(bytes, 4) = Len(bytes)
     /\ Value16(bytes, 24) = Len(bytes) - 25
     /\ Len(bytes) - 25 <= 4096
     /\ ParamsIn(bytes, Len(params)) = [at |-> Len(bytes) + 1, params |-> params]
=============================================================================
