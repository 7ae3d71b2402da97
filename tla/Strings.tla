-------------------------------- MODULE Strings --------------------------------
(***************************************************************************)
(* The functions of StringHandle over sequences of characters.  Positions  *)
(* count from 1; 0 stands for string::npos and for a null pointer.         *)
(***************************************************************************)
EXTENDS Integers, Sequences, FiniteSetsExt, SequencesExt

StartsAt(str, sub, i) == SubSeq(str, i, i + Len(sub) - 1) = sub

(* string::find                                                            *)
Find(str, sub, from) ==
  LET places == {i \in from..(Len(str) + 1 - Len(sub)) : StartsAt(str, sub, i)}
  IN IF places = {} THEN 0 ELSE Min(places)

(* What comes before the next separator, and where to go on.               *)
findFirstString(src, sep, index) ==
  LET pos == Find(src, sep, index)
  IN CASE index > Len(src) -> [ret |-> <<>>, nextIndex |-> 0]
       [] index <= Len(src) /\ pos # 0 ->
            [ret |-> SubSeq(src, index, pos - 1), nextIndex |-> pos + Len(sep)]
       [] OTHER -> [ret |-> SubSeq(src, index, Len(src)), nextIndex |-> 0]

(* With an empty src the loop never ends.                                  *)
replace(str, src, dest) ==
  LET from[begin \in Nat] ==
        LET pos == Find(str, src, begin)
        IN IF pos = 0 THEN SubSeq(str, begin, Len(str))
           ELSE SubSeq(str, begin, pos - 1) \o dest \o from[pos + Len(src)]
  IN from[1]

(* Mutant: the search goes on inside the pattern it has found.             *)
splitOverlapping(str, pattern) ==
  LET all == str \o pattern
      from[i \in Nat] ==
        LET pos == Find(all, pattern, i)
        IN IF pos = 0 THEN <<>>
           ELSE <<SubSeq(all, i, pos - 1)>> \o from[pos + 1]
  IN from[1]

(* The pattern is put behind the text, so that each piece ends with one.   *)
(* With an empty pattern the loop never ends.  splitWithVector is the same.*)
split(str, pattern) ==
  LET all == str \o pattern
      from[i \in Nat] ==
        LET pos == Find(all, pattern, i)
        IN IF pos = 0 THEN <<>>
           ELSE <<SubSeq(all, i, pos - 1)>> \o from[pos + Len(pattern)]
  IN from[1]

trim(str) ==
  LET kept == {i \in 1..Len(str) : str[i] # 32}
  IN IF kept = {} THEN <<>> ELSE SubSeq(str, Min(kept), Max(kept))

toupper(c) == IF c \in 97..122 THEN c - 32 ELSE c
AllUpper(str) == [i \in 1..Len(str) |-> toupper(str[i])]

(* The first place of needle in haystack, whatever the case.               *)
strIstr(haystack, needle) ==
  IF needle = <<>> THEN 1
  ELSE LET same(i) == {k \in 1..Len(needle) :
                         i + k - 1 <= Len(haystack)
                         /\ toupper(haystack[i + k - 1]) = toupper(needle[k])}
           places == {i \in 1..Len(haystack) : same(i) = 1..Len(needle)}
       IN IF places = {} THEN 0 ELSE Min(places)

(* From where begin is first found up to where end is first found from     *)
(* there on; the copy must be shorter than the caller's buffer, or 256.    *)
findStringBetween(data, begin, end) ==
  LET b == strIstr(data, begin)
      rest == SubSeq(data, b, Len(data))
      e == strIstr(rest, end)
  IN IF b = 0 \/ e = 0 THEN <<>> ELSE SubSeq(rest, 1, e - 1)
=============================================================================
