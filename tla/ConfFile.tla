------------------------------- MODULE ConfFile -------------------------------
(***************************************************************************)
(* ConfFile (ConfFile.cpp) without a cipher: values by space and key in    *)
(* memory, and a text file they are loaded from and written to.  The file  *)
(* is replaced in three steps, between which the process may die.          *)
(*                                                                         *)
(* A text is a number, 0 the empty one; the same texts serve as spaces,    *)
(* keys and values, and their order is the order of the strings.  A line   *)
(* is a [space] or a key=value; a #comment is an entry with such a key, an *)
(* empty line one with neither.  Keys that begin with '[', and lines that  *)
(* are longer than 4094 characters, are left out.                          *)
(***************************************************************************)
EXTENDS Integers, FiniteSets, SequencesExt

CONSTANTS
  Spaces, Texts,  (* the spaces and the keys and values there are           *)
  Part,           (* what is left of a text when a line is cut inside it    *)
  Commented,      (* the keys that begin with '#'                           *)
  MaxEntries,     (* bounds the entries in memory                           *)
  MaxLines,       (* bounds the lines of a file written by hand             *)
  MaxFds          (* the descriptors a process may have                     *)

ASSUME ConfAssumption ==
  /\ Spaces \subseteq Nat /\ Texts \subseteq Nat
  /\ 0 \in Spaces /\ 0 \in Texts
  /\ Part \in Nat \ (Spaces \cup Texts)
  /\ Commented \subseteq Texts \ {0}
  /\ {MaxEntries, MaxLines, MaxFds} \subseteq Nat

VARIABLES
  m_MapFileSet,   (* the value of each <<space, key>> in memory             *)
  disk,           (* the file's lines, or Absent                            *)
  pc,             (* where UpdateConfFile is                                *)
  fds,            (* descriptors that were never closed                     *)
  last            (* what the last operation did                            *)

vars == <<m_MapFileSet, disk, pc, fds, last>>

Done(what)    == [op |-> what, space |-> 0]
Erased(space) == [op |-> "erased", space |-> space]

Line(kind, key, value) == [kind |-> kind, key |-> key, value |-> value]

Header(space)     == Line("space", space, 0)
Entry(key, value) == Line("entry", key, value)

Absent == <<Line("absent", 0, 0)>>

(* strtok passes over empty tokens: in "=value" the value is the key, and  *)
(* an empty line is an empty key without a value.                          *)
ReadKey(line)   == IF line.key = 0 THEN line.value ELSE line.key
ReadValue(line) == IF line.key = 0 THEN 0 ELSE line.value

-----------------------------------------------------------------------------
(* Loading.  An entry is in the space of the last [space] before it; of    *)
(* two with one name the first is taken, and none replaces what is there.  *)
IsEntry(line) == line.kind = "entry" /\ line.key \notin Commented

SpaceAt(lines, i) ==
  LET headers == {j \in 1..i : lines[j].kind = "space"}
  IN IF headers = {} THEN 0 ELSE lines[Max(headers)].key

NameAt(lines, i) == <<SpaceAt(lines, i), ReadKey(lines[i])>>

Reads(lines) ==
  LET at(name) == {i \in 1..Len(lines) : IsEntry(lines[i]) /\ NameAt(lines, i) = name}
      names    == {NameAt(lines, i) : i \in {j \in 1..Len(lines) : IsEntry(lines[j])}}
  IN [name \in names |-> ReadValue(lines[Min(at(name))])]

(* The names in the order of the map, which is that of the strings.        *)
Before(a, b) == a[1] < b[1] \/ (a[1] = b[1] /\ a[2] < b[2])
Ordered(S) ==
  CHOOSE names \in [1..Cardinality(S) -> S] :
    \A i, j \in 1..Cardinality(S) : i < j => Before(names[i], names[j])

(* The space before the i-th name; before the first it is the empty one.   *)
SpaceBefore(names, i) == IF i = 1 THEN 0 ELSE names[i - 1][1]

(* Mutant: a space is written behind its first entry.                      *)
LinesLate(map) ==
  LET names == Ordered(DOMAIN map)
  IN FlattenSeq([i \in 1..Len(names) |->
       <<Entry(names[i][2], map[names[i]])>> \o
       IF names[i][1] # SpaceBefore(names, i) THEN <<Header(names[i][1])>> ELSE <<>>])

(* Mutant: only the first space is written.                                *)
LinesOneSpace(map) ==
  LET names == Ordered(DOMAIN map)
  IN FlattenSeq([i \in 1..Len(names) |->
       (IF i = 1 /\ names[i][1] # 0 THEN <<Header(names[i][1])>> ELSE <<>>) \o
       <<Entry(names[i][2], map[names[i]])>>])

(* Writing, in the order of the map; a space is written when it is not the *)
(* one before.                                                             *)
Lines(map) ==
  LET names == Ordered(DOMAIN map)
  IN FlattenSeq([i \in 1..Len(names) |->
       (IF names[i][1] # SpaceBefore(names, i) THEN <<Header(names[i][1])>> ELSE <<>>) \o
       <<Entry(names[i][2], map[names[i]])>>])

(* A cut [space] has lost its ']' or its '\n' and is no space to Load.     *)
Rests(line) ==
  IF line.kind = "space" THEN {Entry(Part, 0)}
  ELSE IF line.key \in Commented THEN {line}
  ELSE {Entry(Part, 0), Entry(line.key, 0), Entry(line.key, Part)}

(* What may be in the file when not all of it could be written.            *)
Cuts(lines) ==
  {SubSeq(lines, 1, k) : k \in 0..Len(lines)} \cup
  UNION {{Append(SubSeq(lines, 1, k - 1), rest) : rest \in Rests(lines[k])} :
            k \in 1..Len(lines)}

-----------------------------------------------------------------------------
(* Somebody has written the file, or there is none.                        *)
Init ==
  /\ m_MapFileSet = <<>>
  /\ \/ disk = Absent
     \/ disk \in UNION {[1..n -> {Header(s) : s \in Spaces} \cup
                           {Entry(k, v) : k \in Texts, v \in Texts}] :
                          n \in 0..MaxLines}
  /\ pc = "idle" /\ fds = 0 /\ last = Done("other")

(* Memory changes while no update goes on: whoever shares a ConfFile with  *)
(* another thread brackets its calls with Lock and Unlock.                 *)
Changes(map) ==
  /\ pc = "idle"
  /\ Cardinality(DOMAIN map) <= MaxEntries
  /\ m_MapFileSet' = map
  /\ UNCHANGED <<disk, pc, fds>>

Without(names) ==
  [name \in DOMAIN m_MapFileSet \ names |-> m_MapFileSet[name]]

(* insert: what is there already stays.                                    *)
Joined(map, more) ==
  [name \in DOMAIN map \cup DOMAIN more |->
     IF name \in DOMAIN map THEN map[name] ELSE more[name]]

LoadConfFile ==
  /\ disk # Absent /\ fds < MaxFds
  /\ Changes(Joined(m_MapFileSet, Reads(disk)))
  /\ last' = Done("other")

SetPrivate(space, key, value) ==
  /\ Changes(Joined([name \in {<<space, key>>} |-> value], m_MapFileSet))
  /\ last' = Done("other")

ErasePrivate(space, key) ==
  /\ Changes(Without({<<space, key>>}))
  /\ last' = Done("other")

(* The whole name is compared with the space and the tab behind it, so the *)
(* entry that goes is the one with the empty key.                          *)
EraseSpace(space) ==
  /\ m_MapFileSet # <<>>
  /\ Changes(Without({<<space, 0>>}))
  /\ last' = Erased(space)

EraseAll ==
  /\ Changes(<<>>)
  /\ last' = Done("other")

-----------------------------------------------------------------------------
(* UpdateConfFile.  The old file goes first; unlink may fail.              *)
UpdateUnlink ==
  /\ pc = "idle"
  /\ disk' = Absent
  /\ pc' = "unlinked"
  /\ last' = Done("other")
  /\ UNCHANGED <<m_MapFileSet, fds>>

(* Mutant: there is always a descriptor left.                              *)
UpdateOpenAlways ==
  /\ pc = "unlinked"
  /\ disk' = <<>> /\ pc' = "writing" /\ fds' = fds + 1
  /\ UNCHANGED <<m_MapFileSet, last>>

(* The descriptor is not closed; when there is no other, fopen fails and   *)
(* so does the update, and the old file is gone.                           *)
UpdateOpen ==
  /\ pc = "unlinked"
  /\ \/ fds < MaxFds /\ disk' = <<>> /\ pc' = "writing" /\ fds' = fds + 1
     \/ disk' = Absent /\ pc' = "idle" /\ UNCHANGED fds
  /\ UNCHANGED <<m_MapFileSet, last>>

(* A full disk is noticed by fputs or, unseen by the caller, by fflush.    *)
UpdateWrite ==
  /\ pc = "writing"
  /\ pc' = "idle"
  /\ \/ disk' = Lines(m_MapFileSet) /\ last' = Done("saved")
     \/ disk' \in Cuts(Lines(m_MapFileSet)) /\ last' = Done("other")
  /\ UNCHANGED <<m_MapFileSet, fds>>

(* The process dies and another one begins, with nothing in memory.        *)
Crash ==
  /\ m_MapFileSet' = <<>> /\ pc' = "idle" /\ fds' = 0 /\ last' = Done("other")
  /\ disk' \in IF pc = "writing" THEN Cuts(Lines(m_MapFileSet)) ELSE {disk}

Next ==
  \/ LoadConfFile
  \/ \E s \in Spaces, k, v \in Texts : SetPrivate(s, k, v)
  \/ \E s \in Spaces, k \in Texts : ErasePrivate(s, k)
  \/ \E s \in Spaces : EraseSpace(s)
  \/ EraseAll
  \/ UpdateUnlink \/ UpdateOpen \/ UpdateWrite
  \/ Crash

Spec == Init /\ [][Next]_vars

-----------------------------------------------------------------------------
(* Properties.                                                             *)

Names  == Spaces \X (Texts \cup {Part})
IsMap(f) == DOMAIN f \subseteq Names /\ \A n \in DOMAIN f : f[n] \in Texts \cup {Part}

(* The shape of the variables (ConfFile.hpp:76-78).                        *)
TypeOK ==
  /\ IsMap(m_MapFileSet)
  /\ disk = Absent \/ IsMap(Reads(disk))
  /\ pc \in {"idle", "unlinked", "writing"}
  /\ fds \in 0..MaxFds
  /\ last \in {Done("other"), Done("saved")} \cup {Erased(s) : s \in Spaces}

(* Entries the format has no way to say: with an empty key and a value, or *)
(* with a key that makes a comment of the line.  The first of these reads  *)
(* as an entry named after its value.                                      *)
Odd(map) ==
  {n \in DOMAIN map : n[2] \in Commented \/ (n[2] = 0 /\ map[n] # 0)}

Shadows(map) == {<<n[1], map[n]>> : n \in Odd(map)}

(* What the file has that memory has not.                                  *)
Strange(read, map) ==
  {n \in DOMAIN read : n \notin DOMAIN map \/ map[n] # read[n]}

(* A file that was written to its end reads as what was in memory, space   *)
(* by space and key by key, but for the entries the format cannot say      *)
(* (ConfFile.cpp:80-106, 226-248).                                         *)
SavedReadsBack ==
  last = Done("saved") =>
    LET read == Reads(disk) IN
    /\ Strange(read, m_MapFileSet) \subseteq Shadows(m_MapFileSet)
    /\ DOMAIN m_MapFileSet \ Odd(m_MapFileSet) \subseteq DOMAIN read

(* When the process dies or the disk is full while the file is written, at *)
(* most one entry of it is wrong: the others are what was in memory, in    *)
(* the space they were in (ConfFile.cpp:84-106, 229-249).                  *)
CutKeepsTheRest ==
  [][pc = "writing" =>
       Cardinality(Strange(Reads(disk'), m_MapFileSet) \ Shadows(m_MapFileSet)) <= 1]_vars

(* "erase the specify space" (ConfFile.hpp:63).                            *)
EraseSpaceErases ==
  \A space \in Spaces :
    last = Erased(space) =>
      \A name \in DOMAIN m_MapFileSet : name[1] # space
=============================================================================
