--------------------------------- MODULE Codec ---------------------------------
(***************************************************************************)
(* The forms in which Arithmetic writes bytes as characters: Base64, hex,  *)
(* the two URL forms and MAC addresses.  A text is a sequence of bytes.    *)
(* Where the code looks behind the end of a text it finds its NUL.         *)
(***************************************************************************)
EXTENDS Integers, Sequences, SequencesExt

Upper == 65..90
Lower == 97..122
Digit == 48..57
Space == (9..13) \cup {32}
Pad == 61               (* '='                                             *)

(* The concatenation of what Write makes of each byte.                     *)
Each(Write(_), data) == FlattenSeq([i \in 1..Len(data) |-> Write(data[i])])

At0(data, i) == IF i <= Len(data) THEN data[i] ELSE 0

-----------------------------------------------------------------------------
(* Base64.                                                                 *)
encode == [n \in 0..63 |-> CASE n \in 0..25  -> n + 65
                             [] n \in 26..51 -> n + 71
                             [] n \in 52..61 -> n - 4
                             [] n = 62 -> 43
                             [] n = 63 -> 47]

(* Every character that is no digit of Base64 counts as 0.                 *)
rstr == [c \in 0..127 |->
           IF \E n \in 0..63 : encode[n] = c THEN CHOOSE n \in 0..63 : encode[n] = c
                                             ELSE 0]

(* One to three bytes are four digits, those without a bit are padding.    *)
EncodeGroup(bytes) ==
  LET x == At0(bytes, 1) * 65536 + At0(bytes, 2) * 256 + At0(bytes, 3)
      y == x \div 64
      z == y \div 64
      digits == <<(z \div 64) % 64, z % 64, y % 64, x % 64>>
  IN [j \in 1..4 |-> IF 8 * Len(bytes) >= 6 * (j - 1)
                       THEN encode[digits[j]] ELSE Pad]

(* Mutant: the loop takes the last whole group too.                        *)
Base64EncodeWhole(data) ==
  FlattenSeq([k \in 1..(Len(data) \div 3 + 1) |->
                EncodeGroup(SubSeq(data, 3 * k - 2,
                                   IF 3 * k < Len(data) THEN 3 * k ELSE Len(data)))])

(* The loop leaves one to three bytes to the tail.                         *)
Base64Encode(data) ==
  FlattenSeq([k \in 1..((Len(data) + 2) \div 3) |->
                EncodeGroup(SubSeq(data, 3 * k - 2,
                                   IF 3 * k < Len(data) THEN 3 * k ELSE Len(data)))])

DecodeGroup(d) ==
  LET r == [k \in 1..4 |-> rstr[d[k]]]
  IN <<((r[1] * 4) % 256) + ((r[2] \div 16) % 4)>>
     \o (IF d[3] = Pad THEN <<>> ELSE <<((r[2] * 16) % 256) + ((r[3] \div 4) % 16)>>)
     \o (IF d[4] = Pad THEN <<>> ELSE <<((r[3] * 64) % 256) + r[4]>>)

(* CR and LF are skipped between two groups, not inside one.               *)
Base64Decode(data) ==
  LET from[i \in Nat] ==
        IF i > Len(data) THEN <<>>
        ELSE IF data[i] \in {10, 13} THEN from[i + 1]
        ELSE DecodeGroup([k \in 1..4 |-> At0(data, i + k - 1)]) \o from[i + 4]
  IN from[1]

-----------------------------------------------------------------------------
(* Hex.                                                                    *)
hex == [n \in 0..15 |-> IF n < 10 THEN 48 + n ELSE 55 + n]
HexPair(byte) == <<hex[byte \div 16], hex[byte % 16]>>

AsciiToHex(data) == Each(HexPair, data)

(* strtoul of two hex digits, of either case.                              *)
HexDigit(c) == CASE c \in Digit -> c - 48
                 [] c \in Upper -> c - 55
                 [] c \in Lower -> c - 87
HexValue(p, q) == 16 * HexDigit(p) + HexDigit(q)

HexToAscii(data) ==
  [i \in 1..((Len(data) + 1) \div 2) |-> HexValue(data[2 * i - 1], data[2 * i])]

(* One character is taken off the end, however long the separator is.      *)
AsciiToHexWithSep(data, sep) ==
  LET result == Each(LAMBDA byte : HexPair(byte) \o sep, data)
  IN IF result # <<>> /\ sep # <<>> THEN Front(result) ELSE result

(* Six bytes with colons.  Any text of that length is read.                *)
Mac2String(mac) ==
  HexPair(mac[1]) \o FlattenSeq([i \in 1..5 |-> <<58>> \o HexPair(mac[i + 1])])
String2Mac(str) == [i \in 1..6 |-> HexValue(str[3 * i - 2], str[3 * i - 1])]

-----------------------------------------------------------------------------
(* URLs.                                                                   *)
EncodeUrlByte(byte) ==
  IF byte \in Upper \cup Lower \cup Digit THEN <<byte>>
  ELSE IF byte \in Space THEN <<43>>
  ELSE <<37>> \o HexPair(byte)

encode_url(data) == Each(EncodeUrlByte, data)

decode_url(data) ==
  LET from[i \in Nat] ==
        IF i > Len(data) THEN <<>>
        ELSE CASE data[i] = 43 -> <<32>> \o from[i + 1]
               [] data[i] = 37 -> <<HexValue(data[i + 1], data[i + 2])>> \o from[i + 3]
               [] OTHER -> <<data[i]>> \o from[i + 1]
  IN from[1]

(* & < > " ' and their names.                                              *)
SpecialChars == {38, 60, 62, 34, 39}
Entity(c) == CASE c = 38 -> <<38, 97, 109, 112, 59>>
               [] c = 60 -> <<38, 108, 116, 59>>
               [] c = 62 -> <<38, 103, 116, 59>>
               [] c = 34 -> <<38, 113, 117, 111, 116, 59>>
               [] c = 39 -> <<38, 97, 112, 111, 115, 59>>

encode_urlspecialchar(data) ==
  Each(LAMBDA c : IF c \in SpecialChars THEN Entity(c) ELSE <<c>>, data)

(* A & that begins no name is dropped.                                     *)
decode_urlspecialchar(data) ==
  LET Named(i, c) == IsPrefix(Entity(c), SubSeq(data, i, Len(data)))
      from[i \in Nat] ==
        IF i > Len(data) THEN <<>>
        ELSE IF data[i] # 38 THEN <<data[i]>> \o from[i + 1]
        ELSE LET names == {c \in SpecialChars : Named(i, c)}
             IN IF names = {} THEN from[i + 1]
                ELSE LET c == CHOOSE c \in names : TRUE
                     IN <<c>> \o from[i + Len(Entity(c))]
  IN from[1]

-----------------------------------------------------------------------------
(* What they promise.                                                      *)

(* Lines of four digits.                                                   *)
Broken(code) ==
  FlattenSeq([k \in 1..(Len(code) \div 4) |-> SubSeq(code, 4 * k - 3, 4 * k) \o <<13, 10>>])

(* A white space comes back from a URL as a blank.                         *)
Blanks(data) == [i \in 1..Len(data) |-> IF data[i] \in Space THEN 32 ELSE data[i]]

TextCodecsInvert(data) ==
  /\ Base64Decode(Base64Encode(data)) = data
  /\ Base64Decode(Broken(Base64Encode(data))) = data
  /\ HexToAscii(AsciiToHex(data)) = data
  /\ decode_url(encode_url(data)) = Blanks(data)
  /\ decode_urlspecialchar(encode_urlspecialchar(data)) = data
  /\ Len(data) = 6 => String2Mac(Mac2String(data)) = data
=============================================================================
