--------------------------------- MODULE Texts ---------------------------------
(***************************************************************************)
(* What the codecs, the string functions and the requests promise, for     *)
(* texts that grow a byte at a time.                                       *)
(***************************************************************************)
EXTENDS Cipher, Strings, RequestText

CONSTANTS
  Octets,       (* the bytes of a text to encode                            *)
  Letters,      (* the characters of a text to search                       *)
  Seeds,        (* a text to encode goes on as its first Seeds bytes        *)
  MaxText, MaxSearched, MaxPattern,     (* bound the texts                  *)
  Seqs,         (* the numbers of requests                                  *)
  Totals        (* the lengths of files the requests are for                *)

ASSUME TextAssumption ==
  /\ Octets \subseteq 0..255 /\ Letters \subseteq 1..127
  /\ {Seeds, MaxText, MaxSearched, MaxPattern} \subseteq Nat \ {0}
  /\ Seqs \subseteq 0..((IntMax - RANGE) \div (RANGE + 1)) /\ Totals \subseteq Nat

VARIABLES
  use,          (* what the text is for                                     *)
  text, pattern,
  request       (* a request's number and the length of its file            *)

vars == <<use, text, pattern, request>>

Init ==
  /\ text = <<>> /\ pattern = <<>>
  /\ \/ use \in {"encode", "search"} /\ request = [seq |-> 0, total |-> 0]
     \/ use = "request" /\ request \in [seq : Seqs, total : Totals]

Write ==
  /\ use = "encode" /\ Len(text) < MaxText
  /\ IF Len(text) < Seeds
       THEN \E byte \in Octets : text' = Append(text, byte)
       ELSE text' = Append(text, text[Len(text) + 1 - Seeds])
  /\ UNCHANGED <<use, pattern, request>>

WriteSearched ==
  /\ use = "search" /\ pattern = <<>> /\ Len(text) < MaxSearched
  /\ \E c \in Letters : text' = Append(text, c)
  /\ UNCHANGED <<use, pattern, request>>

WritePattern ==
  /\ use = "search" /\ Len(pattern) < MaxPattern
  /\ \E c \in Letters : pattern' = Append(pattern, c)
  /\ UNCHANGED <<use, text, request>>

Next == Write \/ WriteSearched \/ WritePattern

Spec == Init /\ [][Next]_vars

-----------------------------------------------------------------------------
(* Properties.                                                             *)

AesInverts == AesDecrypt(AesEncrypt(text)) = UpToNul(text)

(* With its check value behind it, lowest byte first, every text has the   *)
(* check value that is the mark of CRC-32.                                 *)
CrcMarks == MakeCRC32(text \o BytesOf(MakeCRC32(text))) = <<8516, 57116>>

(* Every decoder of Arithmetic but TEA's takes back what its encoder made, *)
(* at every length about a group or a block, except for white space in     *)
(* URLs and what follows a NUL in AES; the check value of CRC-32 marks the *)
(* text it is of (Arithmetic.cpp:127-505).                                 *)
DecodersInvert ==
  use = "encode" => TextCodecsInvert(text) /\ AesInverts /\ CrcMarks

(* The beginning of the appended pattern and the end of the text are       *)
(* together the pattern, so that it is found too early.                    *)
Overlaps(str, pat) ==
  \E k \in 1..(Len(pat) - 1) : k <= Len(str) /\ StartsAt(str \o pat, pat, Len(str) + 1 - k)

Joined(pieces, sep) ==
  FlattenSeq([i \in 1..Len(pieces) |->
                IF i = 1 THEN pieces[i] ELSE sep \o pieces[i]])

(* The pieces by findFirstString, until it gives no next index; a text     *)
(* that ends with a separator has an empty one behind it.                  *)
Pieces(str, sep) ==
  LET from[i \in Nat] ==
        LET first == findFirstString(str, sep, i)
        IN <<first.ret>> \o (IF first.nextIndex = 0 THEN <<>> ELSE from[first.nextIndex])
  IN from[1]

(* The two ways to take a text apart agree and lose nothing, unless the    *)
(* pattern split appends overlaps the text's end; replace puts dest where  *)
(* the separators were; the search without case finds the first place;     *)
(* what is found between two texts begins with the first and ends before   *)
(* the second; trim takes off blanks only (StringHandle.h:33-164).         *)
StringsAgree ==
  use = "search" /\ pattern # <<>> =>
    /\ Joined(Pieces(text, pattern), pattern) = text
    /\ \A i \in 1..Len(Pieces(text, pattern)) :
         Find(Pieces(text, pattern)[i], pattern, 1) = 0
    /\ ~Overlaps(text, pattern) => split(text, pattern) = Pieces(text, pattern)
    /\ \A dest \in {<<>>, <<42>>, pattern} :
         replace(text, pattern, dest) = Joined(Pieces(text, pattern), dest)
    /\ strIstr(text, pattern) = Find(AllUpper(text), AllUpper(pattern), 1)
    /\ LET found == findStringBetween(text, pattern, Reverse(pattern))
       IN /\ strIstr(found, Reverse(pattern)) = 0
          /\ Find(text, found, 1) # 0
          /\ Len(found) >= Len(pattern) => strIstr(found, pattern) = 1
    /\ LET blanks == {i \in 0..Len(text) : \A k \in 1..i : text[k] = 32}
       IN \E i \in blanks, n \in 0..Len(text) :
            /\ text = SubSeq(text, 1, i) \o trim(text) \o Chars(n, 32)
            /\ trim(text) # <<>> => Head(trim(text)) # 32 /\ Last(trim(text)) # 32
    /\ Len(pattern) = 1 =>
         AsciiToHexWithSep(text, pattern)
           = Joined([i \in 1..Len(text) |-> HexPair(text[i])], pattern)

(* Requests, the last an int can ask for included, say what they are       *)
(* (main.cpp:43-138, 158-222).                                             *)
RequestReadsBack == use = "request" => ReadsBack(request.seq, request.total)
=============================================================================
