--------------------------- MODULE DirectoriesProof ----------------------------
(***************************************************************************)
(* Proofs about Directories, for any number of processes, any paths and    *)
(* any trees that are there before.                                        *)
(***************************************************************************)
EXTENDS Directories, SequenceTheorems, WellFoundedInduction, TLAPS

-----------------------------------------------------------------------------
(* Numbers.                                                                *)

(* Every set of natural numbers has a least element: the library's theorem *)
(* on well-founded relations, for < on Nat.                                *)
LEMMA LeastElement ==
  ASSUME NEW S, S \subseteq Nat, S # {}
  PROVE  \E x \in S : \A y \in S : x <= y
<1>1. PICK x \in S : \A y \in S : ~(<<y, x>> \in OpToRel(<, Nat))
  BY NatLessThanWellFounded, WFMin, Zenon
<1>2. ASSUME NEW y \in S PROVE x <= y
  <2>1. ~(y < x)
    BY <1>1 DEF OpToRel
  <2> QED BY <2>1
<1> QED BY <1>2

(* What holds of 0 and of the number after each is true up to N.           *)
LEMMA SetInduction ==
  ASSUME NEW S, 0 \in S, NEW N \in Nat,
         \A n \in 1..N : n - 1 \in S => n \in S
  PROVE  0..N \subseteq S
<1> DEFINE T == 0..N \ S
<1> SUFFICES ASSUME T # {} PROVE FALSE
  OBVIOUS
<1>1. PICK x \in T : \A y \in T : x <= y
  <2>1. T \subseteq Nat
    OBVIOUS
  <2> QED BY <2>1, LeastElement
<1>2. x \in 1..N /\ x - 1 \in 0..N
  BY <1>1
<1>3. x - 1 \in S
  BY <1>1, <1>2
<1> QED BY <1>1, <1>2, <1>3

-----------------------------------------------------------------------------
(* Paths.                                                                  *)

AllNames == Names \cup {LogName}
Ways == Seq(AllNames) \ {<<>>}

LEMMA FrontOfAppend ==
  ASSUME NEW S, NEW s \in Seq(S), NEW e \in S
  PROVE  /\ Append(s, e) \in Seq(S) /\ Append(s, e) # <<>>
         /\ Len(Append(s, e)) = Len(s) + 1
         /\ Front(Append(s, e)) = s /\ Last(Append(s, e)) = e
<1>1. /\ Append(s, e) \in Seq(S) /\ Append(s, e) # <<>>
      /\ Len(Append(s, e)) = Len(s) + 1
      /\ Append(s, e)[Len(s) + 1] = e
  BY AppendProperties
<1>2. Len(s) \in Nat
  OBVIOUS
<1>3. SubSeq(Append(s, e), 1, Len(s)) = s
  OBVIOUS
<1> QED BY <1>1, <1>2, <1>3 DEF Front, Last

LEMMA FrontAndLast ==
  ASSUME NEW S, NEW s \in Seq(S), s # <<>>
  PROVE  /\ Front(s) \in Seq(S) /\ Last(s) \in S
         /\ Len(s) \in Nat \ {0} /\ Len(Front(s)) = Len(s) - 1
         /\ s = Append(Front(s), Last(s))
<1>1. PICK t \in Seq(S), e \in S : s = Append(t, e)
  BY SequenceEmptyOrAppend
<1> QED BY <1>1, FrontOfAppend

LEMMA CutOfPath ==
  ASSUME NEW S, NEW s \in Seq(S), NEW n \in 1..Len(s)
  PROVE  /\ SubSeq(s, 1, n) \in Seq(S) /\ SubSeq(s, 1, n) # <<>>
         /\ Len(SubSeq(s, 1, n)) = n
         /\ Last(SubSeq(s, 1, n)) = s[n]
         /\ Front(SubSeq(s, 1, n)) = SubSeq(s, 1, n - 1)
<1>1. /\ SubSeq(s, 1, n) \in Seq(S) /\ Len(SubSeq(s, 1, n)) = n
      /\ \A i \in 1..n : SubSeq(s, 1, n)[i] = s[i]
  OBVIOUS
<1>2. SubSeq(SubSeq(s, 1, n), 1, n - 1) = SubSeq(s, 1, n - 1)
  OBVIOUS
<1> QED BY <1>1, <1>2 DEF Front, Last

LEMMA FullCut ==
  ASSUME NEW S, NEW s \in Seq(S)
  PROVE  SubSeq(s, 1, Len(s)) = s
BY SubSeqFull

LEMMA FirstCut ==
  ASSUME NEW S, NEW s \in Seq(S), Len(s) \in Nat \ {0}
  PROVE  SubSeq(s, 1, 1) = <<s[1]>>
<1>1. /\ SubSeq(s, 1, 1) \in Seq(S) /\ Len(SubSeq(s, 1, 1)) = 1
      /\ SubSeq(s, 1, 1)[1] = s[1]
  OBVIOUS
<1>2. /\ <<s[1]>> \in Seq(S) /\ Len(<<s[1]>>) = 1 /\ <<s[1]>>[1] = s[1]
  <2>1. s[1] \in S
    BY ElementOfSeq
  <2> QED BY <2>1
<1> DEFINE t == SubSeq(s, 1, 1)
           u == <<s[1]>>
<1> HIDE DEF t, u
<1>3. \A i \in 1..Len(t) : t[i] = u[i]
  BY <1>1, <1>2 DEF t, u
<1>4. t = u
  BY <1>1, <1>2, <1>3, SeqEqual DEF t, u
<1> QED BY <1>4 DEF t, u

LEMMA PathsAreWays ==
  ASSUME NEW path \in Paths
  PROVE  /\ path \in Seq(Names) /\ path # <<>> /\ path \in Ways
         /\ Len(path) \in Nat \ {0}
         /\ \A i \in 1..Len(path) : path[i] # LogName
<1>1. path \in Seq(Names) /\ path # <<>> /\ LogName \notin Range(path)
  BY DirectoryAssumption
<1>2. path \in Seq(AllNames)
  BY <1>1, SeqMonotonic DEF AllNames
<1>3. \A i \in 1..Len(path) : path[i] # LogName
  BY <1>1 DEF Range
<1>4. Len(path) \in Nat \ {0}
  BY <1>1, EmptySeq
<1> QED BY <1>1, <1>2, <1>3, <1>4 DEF Ways

(* A cut of a path never ends in a log's name.                             *)
LEMMA CutsAreWays ==
  ASSUME NEW path \in Paths, NEW n \in 1..Len(path)
  PROVE  /\ SubSeq(path, 1, n) \in Ways /\ Len(SubSeq(path, 1, n)) = n
         /\ Last(SubSeq(path, 1, n)) # LogName
         /\ Front(SubSeq(path, 1, n)) = SubSeq(path, 1, n - 1)
<1>1. path \in Seq(AllNames) /\ path[n] # LogName
  BY PathsAreWays DEF Ways
<1> QED BY <1>1, CutOfPath DEF Ways

-----------------------------------------------------------------------------
(* Trees.                                                                  *)

IsTree(t) ==
  /\ DOMAIN t \subseteq Ways /\ t \in [DOMAIN t -> Kinds]
  /\ \A q \in DOMAIN t : Last(q) = LogName => t[q] = "file"

(* What is in a directory is nowhere without it.                           *)
Closed(t) ==
  \A q \in DOMAIN t : Len(q) > 1 => Front(q) \in DOMAIN t /\ t[Front(q)] = "dir"

LEMMA TreesAreTrees ==
  ASSUME NEW t \in Trees
  PROVE  IsTree(t) /\ Closed(t)
<1>1. ASSUME NEW q \in DOMAIN t PROVE q \in Ways
  <2>1. q \in Seq(Names) /\ q # <<>>
    BY DirectoryAssumption
  <2>2. q \in Seq(AllNames)
    BY <2>1, SeqMonotonic DEF AllNames
  <2> QED BY <2>1, <2>2 DEF Ways
<1>2. t \in [DOMAIN t -> Kinds]
  BY DirectoryAssumption
<1>3. \A q \in DOMAIN t : Last(q) = LogName => t[q] = "file"
  BY DirectoryAssumption
<1>4. Closed(t)
  BY DirectoryAssumption DEF Closed
<1> QED BY <1>1, <1>2, <1>3, <1>4 DEF IsTree

(* Only a log is added where something may be already, and that is a file, *)
(* so that what is there stays what it is.                                 *)
LEMMA AddsToTree ==
  ASSUME IsTree(tree), NEW path \in Ways, NEW kind \in Kinds,
         Last(path) = LogName <=> kind = "file",
         kind = "dir" => ~Exists(path),
         Adds(path, kind)
  PROVE  /\ IsTree(tree')
         /\ DOMAIN tree' = DOMAIN tree \cup {path} /\ tree'[path] = kind
         /\ \A q \in DOMAIN tree : tree'[q] = tree[q]
<1>1. DOMAIN tree' = DOMAIN tree \cup {path}
  BY DEF Adds
<1>2. \A q \in DOMAIN tree' : tree'[q] = IF q = path THEN kind ELSE tree[q]
  BY DEF Adds
<1>3. tree' \in [DOMAIN tree' -> Kinds]
  BY <1>1, <1>2 DEF IsTree, Adds
<1>4. \A q \in DOMAIN tree : tree'[q] = tree[q]
  BY <1>1, <1>2 DEF IsTree, Exists, Kinds
<1>5. \A q \in DOMAIN tree' : Last(q) = LogName => tree'[q] = "file"
  BY <1>1, <1>2 DEF IsTree
<1> QED BY <1>1, <1>2, <1>3, <1>4, <1>5 DEF IsTree

LEMMA RemovesFromTree ==
  ASSUME IsTree(tree), NEW path, Removes(path)
  PROVE  /\ IsTree(tree') /\ DOMAIN tree' = DOMAIN tree \ {path}
         /\ \A q \in DOMAIN tree' : tree'[q] = tree[q]
<1>1. tree' = [q \in DOMAIN tree \ {path} |-> tree[q]]
  BY DEF Removes, Restrict
<1> QED BY <1>1 DEF IsTree

-----------------------------------------------------------------------------
(* Calls.  None changes what it is to do, nor another.                     *)

Cleans == {"enter", "read", "unlink"}
StepsOf(op) ==
  CASE op \in {"Mkdirs", "MkDir"} -> {"look", "make", "done"}
    [] op = "MakeDir" -> {"advance", "look", "make", "done"}
    [] op = "CreateLog" -> {"opendir", "look", "make", "fopen", "done"}
    [] op \in Removers -> Cleans \cup {"isdir", "done"}

Steps ==
  Cleans \cup {"advance", "look", "make", "opendir", "fopen", "isdir", "done"}

Frames == [path : Ways, left : SUBSET AllNames]
Calls ==
  [op : Makers \cup Removers, path : Paths, at : Steps, level : Nat,
   stack : Seq(Frames), sub : Seq(AllNames), result : BOOLEAN]

OneCall(p) ==
  /\ call' \in [Processes -> Calls]
  /\ call'[p].op = call[p].op /\ call'[p].path = call[p].path
  /\ \A r \in Processes \ {p} : call'[r] = call[r]

LEMMA BecomesOne ==
  ASSUME call \in [Processes -> Calls], NEW p \in Processes, NEW c \in Calls,
         c.op = call[p].op, c.path = call[p].path, Becomes(p, c)
  PROVE  OneCall(p) /\ call'[p] = c
BY DEF Becomes, OneCall

LEMMA GotoOne ==
  ASSUME call \in [Processes -> Calls], NEW p \in Processes, NEW step \in Steps,
         Goto(p, step)
  PROVE  /\ OneCall(p) /\ call'[p].at = step /\ call'[p].level = call[p].level
         /\ call'[p].stack = call[p].stack /\ call'[p].sub = call[p].sub
         /\ call'[p].result = call[p].result
<1> DEFINE c == [call[p] EXCEPT !.at = step]
<1>1. /\ c \in Calls /\ c.op = call[p].op /\ c.path = call[p].path
      /\ c.at = step /\ c.level = call[p].level
      /\ c.stack = call[p].stack /\ c.sub = call[p].sub
      /\ c.result = call[p].result
  BY DEF Calls
<1>2. Becomes(p, c)
  BY DEF Goto
<1> HIDE DEF c
<1> QED BY <1>1, <1>2, BecomesOne

LEMMA ReturnOne ==
  ASSUME call \in [Processes -> Calls], NEW p \in Processes, NEW result \in BOOLEAN,
         Return(p, result)
  PROVE  /\ OneCall(p) /\ call'[p].at = "done" /\ call'[p].level = call[p].level
         /\ call'[p].result = result
<1> DEFINE c == [call[p] EXCEPT !.at = "done", !.result = result]
<1>1. /\ c \in Calls /\ c.op = call[p].op /\ c.path = call[p].path
      /\ c.at = "done" /\ c.level = call[p].level /\ c.result = result
  BY DEF Calls, Steps
<1>2. Becomes(p, c)
  BY DEF Return
<1> HIDE DEF c
<1> QED BY <1>1, <1>2, BecomesOne

(* What comes of the last level.                                           *)
LEMMA EndOne ==
  ASSUME call \in [Processes -> Calls], NEW p \in Processes, NEW result \in BOOLEAN,
         End(p, result)
  PROVE  /\ OneCall(p) /\ call'[p].level = call[p].level
         /\ \/ /\ call[p].op = "CreateLog" /\ call'[p].at = "fopen"
               /\ call'[p].result = call[p].result
            \/ /\ call[p].op # "CreateLog" /\ call'[p].at = "done"
               /\ call'[p].result = result
<1>1. CASE call[p].op = "CreateLog"
  <2>1. Goto(p, "fopen")
    BY <1>1 DEF End
  <2> QED BY <1>1, <2>1, GotoOne DEF Steps
<1>2. CASE call[p].op # "CreateLog"
  <2>1. Return(p, result)
    BY <1>2 DEF End
  <2> QED BY <1>2, <2>1, ReturnOne
<1> QED BY <1>1, <1>2

LEMMA DownOne ==
  ASSUME call \in [Processes -> Calls], NEW p \in Processes,
         call[p].level \in 1..Len(call[p].path), Down(p)
  PROVE  /\ OneCall(p)
         /\ \/ /\ call[p].level < Len(call[p].path) /\ call'[p].at = "look"
               /\ call'[p].level = call[p].level + 1
               /\ call'[p].result = call[p].result
            \/ /\ call[p].level = Len(call[p].path)
               /\ call'[p].level = call[p].level
               /\ \/ /\ call[p].op = "CreateLog" /\ call'[p].at = "fopen"
                     /\ call'[p].result = call[p].result
                  \/ /\ call[p].op # "CreateLog" /\ call'[p].at = "done"
                     /\ call'[p].result = TRUE
<1>1. CASE call[p].level = Len(call[p].path)
  <2>1. End(p, TRUE)
    BY <1>1 DEF Down
  <2> QED BY <1>1, <2>1, EndOne
<1>2. CASE call[p].level # Len(call[p].path)
  <2> DEFINE m == call[p].level + 1
             c == [call[p] EXCEPT !.level = m, !.at = "look"]
  <2>1. Becomes(p, c)
    BY <1>2 DEF Down
  <2>2. m \in Nat /\ m = call[p].level + 1
    BY DEF Calls
  <2> HIDE DEF m
  <2>3. /\ c \in Calls /\ c.op = call[p].op /\ c.path = call[p].path
        /\ c.at = "look" /\ c.level = m /\ c.result = call[p].result
    BY <2>2 DEF Calls, Steps
  <2>4. Len(call[p].path) \in Nat
    BY PathsAreWays DEF Calls
  <2> HIDE DEF c
  <2>5. OneCall(p) /\ call'[p] = c
    BY <2>1, <2>3, BecomesOne
  <2> QED BY <1>2, <2>2, <2>3, <2>4, <2>5
<1> QED BY <1>1, <1>2

-----------------------------------------------------------------------------
(* Types.                                                                  *)

Typed(c) ==
  /\ c.at \in StepsOf(c.op)
  /\ c.level \in 1..Len(c.path)
  /\ c.op = "MakeDir" /\ c.at \in {"look", "make"} => c.level > 1
  /\ c.at \in {"advance", "opendir"} => c.level = 1
  /\ c.at = "isdir" => c.stack = <<>>
  /\ c.at \in Cleans => c.stack # <<>>
  /\ c.op \in Makers /\ c.result => c.at = "done"

TypeInv ==
  /\ before \in Trees /\ IsTree(tree)
  /\ call \in [Processes -> Calls]
  /\ \A p \in Processes : Typed(call[p])

(* The names in a directory.                                               *)
Kids(t, path) == {name \in AllNames : Append(path, name) \in DOMAIN t}
ToRead(path) == IF IsDir(path) THEN Kids(tree, path) ELSE {}

LEMMA ChildrenAreKids ==
  ASSUME IsTree(tree), NEW path \in Seq(AllNames)
  PROVE  Children(path) = Kids(tree, path)
<1>1. ASSUME NEW name \in Children(path) PROVE name \in Kids(tree, path)
  <2>1. PICK q \in DOMAIN tree : Front(q) = path /\ Last(q) = name
    BY <1>1 DEF Children
  <2>2. q \in Seq(AllNames) /\ q # <<>>
    BY DEF IsTree, Ways
  <2>3. name \in AllNames /\ q = Append(path, name)
    BY <2>1, <2>2, FrontAndLast
  <2> QED BY <2>3 DEF Kids
<1>2. ASSUME NEW name \in Kids(tree, path) PROVE name \in Children(path)
  <2>1. name \in AllNames /\ Append(path, name) \in DOMAIN tree
    BY DEF Kids
  <2>2. /\ Len(Append(path, name)) = Len(path) + 1
        /\ Front(Append(path, name)) = path /\ Last(Append(path, name)) = name
    BY <2>1, FrontOfAppend
  <2> QED BY <2>1, <2>2 DEF Children
<1> QED BY <1>1, <1>2

(* A remover's stack, with other names to be read at its top.              *)
WithLeft(stack, left) == [stack EXCEPT ![Len(stack)].left = left]

LEMMA TopOfStack ==
  ASSUME NEW stack \in Seq(Frames), stack # <<>>, NEW left \in SUBSET AllNames
  PROVE  /\ Len(stack) \in Nat \ {0}
         /\ WithLeft(stack, left) \in Seq(Frames)
         /\ Len(WithLeft(stack, left)) = Len(stack)
         /\ \A i \in 1..Len(stack) :
              /\ stack[i] \in Frames
              /\ WithLeft(stack, left)[i].path = stack[i].path
              /\ WithLeft(stack, left)[i].left =
                   IF i = Len(stack) THEN left ELSE stack[i].left
<1> DEFINE n == Len(stack)
           e == [stack[n] EXCEPT !.left = left]
<1>1. n \in Nat \ {0} /\ n \in 1..Len(stack)
  BY EmptySeq
<1>2. \A i \in 1..Len(stack) : stack[i] \in Frames
  BY ElementOfSeq
<1>3. e \in Frames /\ e.path = stack[n].path /\ e.left = left
  BY <1>1, <1>2 DEF Frames
<1>4. WithLeft(stack, left) = [stack EXCEPT ![n] = e]
  BY DEF WithLeft
<1> HIDE DEF e, n
<1>5. /\ [stack EXCEPT ![n] = e] \in Seq(Frames)
      /\ Len([stack EXCEPT ![n] = e]) = Len(stack)
      /\ \A i \in 1..Len(stack) :
           [stack EXCEPT ![n] = e][i] = IF i = n THEN e ELSE stack[i]
  BY <1>1, <1>3, ExceptSeq
<1> QED BY <1>1, <1>2, <1>3, <1>4, <1>5 DEF n

LEMMA EnterOne ==
  ASSUME call \in [Processes -> Calls], NEW p \in Processes, NEW path \in Ways,
         Enter(p, path)
  PROVE  /\ OneCall(p) /\ call'[p].at = "enter" /\ call'[p].level = call[p].level
         /\ call'[p].stack = Append(call[p].stack, [path |-> path, left |-> {}])
<1> DEFINE s == Append(call[p].stack, [path |-> path, left |-> {}])
           c == [call[p] EXCEPT !.at = "enter", !.stack = s]
<1>1. Becomes(p, c)
  BY DEF Enter
<1>2. s \in Seq(Frames)
  <2>1. [path |-> path, left |-> {}] \in Frames /\ call[p].stack \in Seq(Frames)
    BY DEF Frames, Calls
  <2> QED BY <2>1, AppendProperties
<1> HIDE DEF s
<1>3. /\ c \in Calls /\ c.op = call[p].op /\ c.path = call[p].path
      /\ c.at = "enter" /\ c.level = call[p].level /\ c.stack = s
  BY <1>2 DEF Calls, Steps, Cleans
<1> HIDE DEF c
<1> QED BY <1>1, <1>3, BecomesOne DEF s

LEMMA EnterDirOne ==
  ASSUME IsTree(tree), call \in [Processes -> Calls], NEW p \in Processes,
         call[p].stack # <<>>, EnterDir(p)
  PROVE  /\ OneCall(p) /\ call'[p].at = "read" /\ call'[p].level = call[p].level
         /\ call'[p].stack = WithLeft(call[p].stack, ToRead(Top(p).path))
<1> DEFINE left == ToRead(Top(p).path)
           is == IsDir(Top(p).path)
           s == WithLeft(call[p].stack, left)
           c == [call[p] EXCEPT !.at = "read", !.stack = s, !.result = is]
<1>1. Top(p) \in Frames
  <2>1. call[p].stack \in Seq(Frames)
    BY DEF Calls
  <2> QED BY <2>1, FrontAndLast DEF Top
<1>2. left = IF IsDir(Top(p).path) THEN Children(Top(p).path) ELSE {}
  BY <1>1, ChildrenAreKids DEF ToRead, Frames, Ways
<1>3. Becomes(p, c)
  BY <1>2 DEF EnterDir, WithLeft
<1>4. left \in SUBSET AllNames /\ is \in BOOLEAN
  BY DEF ToRead, Kids, IsDir, Exists
<1> HIDE DEF left, is
<1>5. s \in Seq(Frames)
  BY <1>4, TopOfStack DEF Calls
<1> HIDE DEF s
<1>6. /\ c \in Calls /\ c.op = call[p].op /\ c.path = call[p].path
      /\ c.at = "read" /\ c.level = call[p].level /\ c.stack = s
  BY <1>4, <1>5 DEF Calls, Steps, Cleans
<1> HIDE DEF c
<1> QED BY <1>3, <1>6, BecomesOne DEF s, left

(* Without(p, name), as far as it says where p is.                         *)
LEMMA WithoutIs ==
  ASSUME call \in [Processes -> Calls], NEW p \in Processes, NEW name,
         call[p].stack # <<>>
  PROVE  /\ Without(p, name) \in Calls
         /\ Without(p, name).op = call[p].op /\ Without(p, name).path = call[p].path
         /\ Without(p, name).at = "read"
         /\ Without(p, name).level = call[p].level
         /\ Without(p, name).stack = WithLeft(call[p].stack, Top(p).left \ {name})
<1> DEFINE left == Top(p).left \ {name}
           s == WithLeft(call[p].stack, left)
           c == [call[p] EXCEPT !.at = "read", !.stack = s]
<1>1. Without(p, name) = c
  BY DEF Without, WithLeft, Top, Last
<1>2. left \in SUBSET AllNames
  <2>1. call[p].stack \in Seq(Frames)
    BY DEF Calls
  <2>2. Top(p) \in Frames
    BY <2>1, FrontAndLast DEF Top
  <2> QED BY <2>2 DEF Frames
<1> HIDE DEF left
<1>3. s \in Seq(Frames)
  BY <1>2, TopOfStack DEF Calls
<1> HIDE DEF s
<1>4. /\ c \in Calls /\ c.op = call[p].op /\ c.path = call[p].path
      /\ c.at = "read" /\ c.level = call[p].level /\ c.stack = s
  BY <1>3 DEF Calls, Steps, Cleans
<1> HIDE DEF c
<1> QED BY <1>1, <1>4 DEF s, left

(* What reading a name comes to: its directory is entered, or its file is  *)
(* to be removed, or it is gone.                                           *)
LEMMA ReadDirOne ==
  ASSUME call \in [Processes -> Calls], NEW p \in Processes,
         call[p].stack # <<>>, ReadDir(p)
  PROVE  \E name \in Top(p).left, s \in Seq(Frames) :
           /\ s = WithLeft(call[p].stack, Top(p).left \ {name})
           /\ OneCall(p) /\ call'[p].level = call[p].level
           /\ \/ /\ IsDir(Append(Top(p).path, name)) /\ call'[p].at = "enter"
                 /\ call'[p].stack =
                      Append(s, [path |-> Append(Top(p).path, name), left |-> {}])
              \/ /\ ~IsDir(Append(Top(p).path, name))
                 /\ Exists(Append(Top(p).path, name)) /\ call'[p].at = "unlink"
                 /\ call'[p].sub = Append(Top(p).path, name) /\ call'[p].stack = s
              \/ /\ ~Exists(Append(Top(p).path, name)) /\ call'[p].at = "read"
                 /\ call'[p].stack = s
<1>1. PICK name \in Top(p).left :
        LET sub == Append(Top(p).path, name)
            c == Without(p, name)
        IN IF IsDir(sub)
             THEN Becomes(p, [c EXCEPT !.at = "enter",
                                       !.stack = Append(@, [path |-> sub, left |-> {}])])
             ELSE Becomes(p, IF Exists(sub) THEN [c EXCEPT !.at = "unlink", !.sub = sub]
                                            ELSE c)
  BY DEF ReadDir
<1> DEFINE c == Without(p, name)
           sub == Append(Top(p).path, name)
           s == WithLeft(call[p].stack, Top(p).left \ {name})
           frame == [path |-> sub, left |-> {}]
           t == Append(s, frame)
<1>2. /\ c \in Calls /\ c.op = call[p].op /\ c.path = call[p].path
      /\ c.at = "read" /\ c.level = call[p].level /\ c.stack = s
  BY WithoutIs
<1>3. s \in Seq(Frames)
  BY <1>2 DEF Calls
<1>4. sub \in Ways
  <2>1. call[p].stack \in Seq(Frames)
    BY DEF Calls
  <2>2. Top(p) \in Frames
    BY <2>1, FrontAndLast DEF Top
  <2>3. Top(p).path \in Seq(AllNames) /\ name \in AllNames
    BY <2>2 DEF Frames, Ways
  <2> QED BY <2>3, FrontOfAppend DEF Ways
<1>5. t \in Seq(Frames)
  <2>1. frame \in Frames
    BY <1>4 DEF Frames
  <2> QED BY <1>3, <2>1, AppendProperties
<1>6. CASE IsDir(sub)
  <2> DEFINE d == [c EXCEPT !.at = "enter", !.stack = t]
  <2>1. Becomes(p, d)
    BY <1>1, <1>2, <1>6
  <2> HIDE DEF c, s, t, sub
  <2>2. /\ d \in Calls /\ d.op = call[p].op /\ d.path = call[p].path
        /\ d.at = "enter" /\ d.level = call[p].level /\ d.stack = t
    BY <1>2, <1>5 DEF Calls, Steps, Cleans
  <2> HIDE DEF d
  <2>3. OneCall(p) /\ call'[p] = d
    BY <2>1, <2>2, BecomesOne
  <2> QED BY <1>3, <1>6, <2>2, <2>3 DEF s, t, sub
<1>7. CASE ~IsDir(sub) /\ Exists(sub)
  <2> DEFINE d == [c EXCEPT !.at = "unlink", !.sub = sub]
  <2>1. Becomes(p, d)
    BY <1>1, <1>7
  <2> HIDE DEF c, s, sub
  <2>2. /\ d \in Calls /\ d.op = call[p].op /\ d.path = call[p].path
        /\ d.at = "unlink" /\ d.level = call[p].level /\ d.stack = s /\ d.sub = sub
    BY <1>2, <1>4 DEF Calls, Steps, Cleans, Ways
  <2> HIDE DEF d
  <2>3. OneCall(p) /\ call'[p] = d
    BY <2>1, <2>2, BecomesOne
  <2> QED BY <1>3, <1>7, <2>2, <2>3 DEF s, sub
<1>8. CASE ~Exists(sub)
  <2>1. Becomes(p, c)
    BY <1>1, <1>8 DEF IsDir
  <2> HIDE DEF c, s, sub
  <2>2. OneCall(p) /\ call'[p] = c
    BY <1>2, <2>1, BecomesOne
  <2> QED BY <1>2, <1>3, <1>8, <2>2 DEF s, sub
<1> QED BY <1>6, <1>7, <1>8 DEF IsDir

(* The removal of a directory that is left, but for CleanDir's own.        *)
LEMMA LeaveDirOne ==
  ASSUME call \in [Processes -> Calls], NEW p \in Processes,
         call[p].stack # <<>>, LeaveDir(p)
  PROVE  /\ OneCall(p) /\ call'[p].level = call[p].level
         /\ \/ Len(call[p].stack) = 1 /\ call'[p].at = "done"
            \/ /\ Len(call[p].stack) # 1 /\ call'[p].at = "read"
               /\ call'[p].stack = Front(call[p].stack)
<1>1. CASE Len(call[p].stack) = 1
  <2>1. \E result \in BOOLEAN : Return(p, result)
    BY <1>1 DEF LeaveDir, Calls, IsDir, Exists
  <2> QED BY <1>1, <2>1, ReturnOne
<1>2. CASE Len(call[p].stack) # 1
  <2> DEFINE s == Front(call[p].stack)
             c == [call[p] EXCEPT !.stack = s]
  <2>1. Becomes(p, c)
    BY <1>2 DEF LeaveDir
  <2>2. call[p].at = "read"
    BY DEF LeaveDir, At
  <2>3. s \in Seq(Frames)
    BY FrontAndLast DEF Calls
  <2> HIDE DEF s
  <2>4. /\ c \in Calls /\ c.op = call[p].op /\ c.path = call[p].path
        /\ c.at = "read" /\ c.level = call[p].level /\ c.stack = s
    BY <2>2, <2>3 DEF Calls
  <2> HIDE DEF c
  <2> QED BY <1>2, <2>1, <2>4, BecomesOne DEF s
<1> QED BY <1>1, <1>2

-----------------------------------------------------------------------------
(* The types are kept.                                                     *)

(* Who comes to which step.                                                *)
LEMMA StepsOfOps ==
  ASSUME NEW op \in Makers \cup Removers
  PROVE  /\ "done" \in StepsOf(op)
         /\ "look" \in StepsOf(op) <=> op \in Makers
         /\ "make" \in StepsOf(op) <=> op \in Makers
         /\ "advance" \in StepsOf(op) <=> op = "MakeDir"
         /\ "opendir" \in StepsOf(op) <=> op = "CreateLog"
         /\ "fopen" \in StepsOf(op) <=> op = "CreateLog"
         /\ "isdir" \in StepsOf(op) <=> op \in Removers
         /\ \A step \in Cleans : step \in StepsOf(op) <=> op \in Removers
         /\ op \in Makers <=> op \notin Removers
         /\ "MakeDir" \in Makers /\ "CreateLog" \in Makers /\ "Mkdirs" \in Makers
BY DEF StepsOf, Makers, Removers, Cleans

LEMMA LevelIsCut ==
  ASSUME NEW c \in Calls, Typed(c)
  PROVE  /\ Level(c) = <<>> \/ Level(c) = SubSeq(c.path, 1, c.level)
         /\ Level(c) # <<>> =>
              Level(c) \in Ways /\ Len(Level(c)) = c.level /\ Last(Level(c)) # LogName
<1>1. c.path \in Paths /\ c.level \in 1..Len(c.path)
  BY DEF Calls, Typed
<1>2. Level(c) = <<>> \/ Level(c) = SubSeq(c.path, 1, c.level)
  BY DEF Level
<1> QED BY <1>1, <1>2, CutsAreWays

LEMMA LogIsWay ==
  ASSUME NEW path \in Ways
  PROVE  Append(path, LogName) \in Ways /\ Last(Append(path, LogName)) = LogName
BY FrontOfAppend DEF Ways, AllNames

LEMMA InitTyped ==
  Init => TypeInv
<1> SUFFICES ASSUME Init PROVE TypeInv
  OBVIOUS
<1>1. before \in Trees /\ tree = before
  BY DEF Init
<1>2. PICK op \in [Processes -> Makers \cup Removers], path \in [Processes -> Paths] :
        call = [p \in Processes |->
                  [op |-> op[p], path |-> path[p], at |-> FirstStep(op[p]),
                   level |-> 1, stack |-> <<>>, sub |-> <<>>, result |-> FALSE]]
  BY DEF Init
<1>3. \A o \in Makers \cup Removers : FirstStep(o) \in Steps
  BY DEF FirstStep, Makers, Removers, Steps, Cleans
<1>4. <<>> \in Seq(Frames) /\ <<>> \in Seq(AllNames)
  OBVIOUS
<1>5. ASSUME NEW p \in Processes PROVE call[p] \in Calls /\ Typed(call[p])
  <2> DEFINE c == [op |-> op[p], path |-> path[p], at |-> FirstStep(op[p]),
                   level |-> 1, stack |-> <<>>, sub |-> <<>>, result |-> FALSE]
  <2>1. op[p] \in Makers \cup Removers /\ path[p] \in Paths
    OBVIOUS
  <2>2. c \in Calls
    BY <2>1, <1>3, <1>4 DEF Calls
  <2>3. 1 \in 1..Len(path[p])
    BY <2>1, PathsAreWays
  <2>4. /\ FirstStep(op[p]) \in StepsOf(op[p])
        /\ FirstStep(op[p]) \notin Cleans \cup {"make"}
        /\ op[p] = "MakeDir" => FirstStep(op[p]) # "look"
    BY <2>1 DEF FirstStep, StepsOf, Makers, Removers, Cleans
  <2>5. Typed(c)
    BY <2>3, <2>4 DEF Typed
  <2>6. call[p] = c
    BY <1>2, Zenon
  <2> HIDE DEF c
  <2> QED BY <2>2, <2>5, <2>6
<1>6. call \in [Processes -> Calls]
  BY <1>2, <1>5
<1> QED BY <1>1, <1>5, <1>6, TreesAreTrees DEF TypeInv

LEMMA DownTyped ==
  ASSUME call \in [Processes -> Calls], NEW p \in Processes, Typed(call[p]),
         call[p].op \in Makers, call[p].at # "done", Down(p)
  PROVE  Typed(call'[p])
<1> DEFINE c == call[p]
           d == call'[p]
<1>1. /\ c.op \in Makers /\ c.path \in Paths /\ c.level \in 1..Len(c.path)
      /\ c.op \in Makers \cup Removers /\ c.result \in BOOLEAN
      /\ c.op \in Makers /\ c.result => c.at = "done"
  BY DEF Calls, Typed
<1>2. Len(c.path) \in Nat \ {0}
  BY <1>1, PathsAreWays
<1>3. /\ d.op = c.op /\ d.path = c.path
      /\ \/ c.level < Len(c.path) /\ d.at = "look" /\ d.level = c.level + 1
            /\ d.result = c.result
         \/ /\ c.level = Len(c.path) /\ d.level = c.level
            /\ \/ c.op = "CreateLog" /\ d.at = "fopen" /\ d.result = c.result
               \/ c.op # "CreateLog" /\ d.at = "done"
  BY <1>1, DownOne DEF OneCall
<1>4. d.at \in StepsOf(d.op)
  BY <1>1, <1>3, StepsOfOps
<1>5. d.level \in 1..Len(d.path) /\ (d.at = "look" => d.level > 1)
  BY <1>1, <1>2, <1>3
<1> QED BY <1>1, <1>3, <1>4, <1>5 DEF Typed, Cleans

LEMMA ReturnTyped ==
  ASSUME call \in [Processes -> Calls], NEW p \in Processes, Typed(call[p]),
         NEW result \in BOOLEAN, Return(p, result)
  PROVE  OneCall(p) /\ Typed(call'[p])
<1> DEFINE c == call[p]
           d == call'[p]
<1>1. OneCall(p) /\ d.at = "done" /\ d.level = c.level
  BY ReturnOne
<1>2. d.op = c.op /\ d.path = c.path /\ c.op \in Makers \cup Removers
  BY <1>1 DEF OneCall, Calls
<1> QED BY <1>1, <1>2, StepsOfOps DEF Typed, Cleans

LEMMA GotoTyped ==
  ASSUME call \in [Processes -> Calls], NEW p \in Processes, Typed(call[p]),
         NEW step \in Steps, step \in StepsOf(call[p].op),
         step \notin Cleans \cup {"advance", "opendir", "isdir"},
         call[p].op = "MakeDir" /\ step \in {"look", "make"} => call[p].level > 1,
         call[p].at # "done", call[p].op \in Makers, Goto(p, step)
  PROVE  OneCall(p) /\ Typed(call'[p])
<1> DEFINE c == call[p]
           d == call'[p]
<1>1. /\ OneCall(p) /\ d.at = step /\ d.level = c.level
      /\ d.result = c.result
  BY GotoOne
<1>2. d.op = c.op /\ d.path = c.path
  BY <1>1 DEF OneCall
<1> QED BY <1>1, <1>2 DEF Typed

LEMMA RemoverTyped ==
  ASSUME call \in [Processes -> Calls], NEW p \in Processes, Typed(call[p]),
         OneCall(p), call[p].op \in Removers, call'[p].level = call[p].level,
         call'[p].at \in Cleans \cup {"done"},
         call'[p].at \in Cleans => call'[p].stack # <<>>
  PROVE  Typed(call'[p])
<1>1. call'[p].op = call[p].op /\ call'[p].path = call[p].path
  BY DEF OneCall
<1>2. call[p].op \in Makers \cup Removers /\ call[p].op \notin Makers
  BY StepsOfOps DEF Calls
<1> QED BY <1>1, <1>2, StepsOfOps DEF Typed, Cleans

(* What every step of a process p leaves as it is.                         *)
OneStep(p) ==
  /\ before' = before /\ IsTree(tree')
  /\ OneCall(p) /\ Typed(call'[p])

LEMMA StepTyped ==
  ASSUME TypeInv, NEW p \in Processes, Step(p)
  PROVE  OneStep(p)
<1> DEFINE c == call[p]
<1>1. /\ IsTree(tree) /\ call \in [Processes -> Calls]
      /\ c \in Calls /\ Typed(c) /\ c.level \in 1..Len(c.path)
  BY DEF TypeInv, Typed
<1>2. c.op \in Makers \cup Removers /\ c.path \in Paths /\ c.stack \in Seq(Frames)
  BY <1>1 DEF Calls
<1>3. Len(c.path) \in Nat \ {0}
  BY <1>2, PathsAreWays
<1>4. ASSUME Advance(p) PROVE OneStep(p)
  <2>1. c.at = "advance" /\ Down(p) /\ before' = before /\ tree' = tree
    BY <1>4 DEF Advance, At
  <2>2. OneCall(p)
    BY <1>1, <2>1, DownOne
  <2>3. c.op = "MakeDir" /\ c.op \in Makers
    BY <1>1, <1>2, <2>1, StepsOfOps DEF Typed
  <2>4. Typed(call'[p])
    BY <1>1, <2>1, <2>3, DownTyped
  <2> QED BY <1>1, <2>1, <2>2, <2>4 DEF OneStep
<1>5. ASSUME Look(p) PROVE OneStep(p)
  <2>1. /\ c.at = "look" /\ before' = before /\ tree' = tree
        /\ Down(p) \/ (c.op = "MkDir" /\ Return(p, FALSE)) \/ Goto(p, "make")
    BY <1>5 DEF Look, At
  <2>2. c.op \in Makers
    BY <1>1, <1>2, <2>1, StepsOfOps DEF Typed
  <2>3. CASE Down(p)
    <3>1. OneCall(p) /\ Typed(call'[p])
      BY <1>1, <2>1, <2>2, <2>3, DownOne, DownTyped
    <3> QED BY <1>1, <2>1, <3>1 DEF OneStep
  <2>4. CASE Return(p, FALSE)
    <3>1. OneCall(p) /\ Typed(call'[p])
      BY <1>1, <2>2, <2>4, ReturnTyped
    <3> QED BY <1>1, <2>1, <3>1 DEF OneStep
  <2>5. CASE Goto(p, "make")
    <3>1. OneCall(p) /\ Typed(call'[p])
      BY <1>1, <1>2, <2>1, <2>2, <2>5, GotoTyped, StepsOfOps DEF Steps, Typed, Cleans
    <3> QED BY <1>1, <2>1, <3>1 DEF OneStep
  <2> QED BY <2>1, <2>3, <2>4, <2>5
<1>6. ASSUME Make(p) PROVE OneStep(p)
  <2> DEFINE level == Level(c)
  <2>1. /\ c.at = "make" /\ before' = before
        /\ \/ level # <<>> /\ ~Exists(level) /\ Adds(level, "dir")
           \/ tree' = tree
        /\ Down(p) \/ Return(p, FALSE) \/ End(p, FALSE)
    BY <1>6 DEF Make, At
  <2>2. c.op \in Makers
    BY <1>1, <1>2, <2>1, StepsOfOps DEF Typed
  <2>3. IsTree(tree')
    <3>1. level # <<>> => level \in Ways /\ Last(level) # LogName
      BY <1>1, LevelIsCut
    <3> HIDE DEF level
    <3>2. CASE level # <<>> /\ ~Exists(level) /\ Adds(level, "dir")
      BY <1>1, <3>1, <3>2, AddsToTree DEF Kinds
    <3> QED BY <1>1, <2>1, <3>2
  <2>4. OneCall(p) /\ Typed(call'[p])
    <3>1. CASE Down(p)
      BY <1>1, <2>1, <2>2, <3>1, DownOne, DownTyped
    <3>2. CASE Return(p, FALSE)
      BY <1>1, <2>2, <3>2, ReturnTyped
    <3>3. CASE End(p, FALSE)
      <4>1. CASE c.op = "CreateLog"
        <5>1. Goto(p, "fopen")
          BY <3>3, <4>1 DEF End
        <5> QED BY <1>1, <1>2, <2>1, <4>1, <5>1, GotoTyped, StepsOfOps
                DEF Steps, Typed, Cleans
      <4>2. CASE c.op # "CreateLog"
        <5>1. Return(p, FALSE)
          BY <3>3, <4>2 DEF End
        <5> QED BY <1>1, <2>2, <5>1, ReturnTyped
      <4> QED BY <4>1, <4>2
    <3> QED BY <2>1, <3>1, <3>2, <3>3
  <2> QED BY <2>1, <2>3, <2>4 DEF OneStep
<1>7. ASSUME OpenDir(p) PROVE OneStep(p)
  <2>1. /\ c.at = "opendir" /\ before' = before /\ tree' = tree
        /\ Goto(p, "fopen") \/ Goto(p, "look")
    BY <1>7 DEF OpenDir, At
  <2>2. c.op = "CreateLog" /\ c.op \in Makers /\ c.op # "MakeDir"
    BY <1>1, <1>2, <2>1, StepsOfOps DEF Typed
  <2>3. OneCall(p) /\ Typed(call'[p])
    BY <1>1, <1>2, <2>1, <2>2, GotoTyped, StepsOfOps DEF Steps, Typed, Cleans
  <2> QED BY <1>1, <2>1, <2>3 DEF OneStep
<1>8. ASSUME OpenFile(p) PROVE OneStep(p)
  <2> DEFINE log == Append(c.path, LogName)
  <2>1. /\ c.at = "fopen" /\ before' = before
        /\ Adds(log, "file") \/ tree' = tree
        /\ Return(p, TRUE) \/ Return(p, FALSE)
    BY <1>8 DEF OpenFile, At
  <2>2. log \in Ways /\ Last(log) = LogName
    BY <1>2, PathsAreWays, LogIsWay
  <2> HIDE DEF log
  <2>3. IsTree(tree')
    <3>1. CASE Adds(log, "file")
      BY <1>1, <2>2, <3>1, AddsToTree DEF Kinds
    <3> QED BY <1>1, <2>1, <3>1
  <2>4. OneCall(p) /\ Typed(call'[p])
    BY <1>1, <2>1, ReturnTyped
  <2> QED BY <2>1, <2>3, <2>4 DEF OneStep
<1>9. ASSUME c.at \in Cleans \cup {"isdir"} PROVE c.op \in Removers
  BY <1>1, <1>2, <1>9, StepsOfOps DEF Typed
<1>10. ASSUME c.at \in Cleans PROVE c.stack # <<>>
  BY <1>1, <1>10 DEF Typed
<1>11. ASSUME IsDirExist(p) PROVE OneStep(p)
  <2>1. /\ c.at = "isdir" /\ before' = before /\ tree' = tree
        /\ Enter(p, c.path) \/ Return(p, FALSE)
    BY <1>11 DEF IsDirExist, At
  <2>2. CASE Enter(p, c.path)
    <3> DEFINE frame == [path |-> c.path, left |-> {}]
    <3>1. c.path \in Ways /\ frame \in Frames
      BY <1>2, PathsAreWays DEF Frames
    <3>2. /\ OneCall(p) /\ call'[p].at = "enter" /\ call'[p].level = c.level
          /\ call'[p].stack = Append(c.stack, frame)
      BY <1>1, <2>2, <3>1, EnterOne
    <3> HIDE DEF frame
    <3>3. call'[p].stack # <<>>
      BY <1>2, <3>1, <3>2, AppendProperties
    <3> QED BY <1>1, <1>9, <2>1, <3>2, <3>3, RemoverTyped DEF OneStep, Cleans
  <2>3. CASE Return(p, FALSE)
    BY <1>1, <2>1, <2>3, ReturnTyped DEF OneStep
  <2> QED BY <2>1, <2>2, <2>3
<1>12. ASSUME EnterDir(p) PROVE OneStep(p)
  <2>1. c.at = "enter" /\ before' = before /\ tree' = tree
    BY <1>12 DEF EnterDir, At
  <2>2. c.stack # <<>>
    BY <1>10, <2>1 DEF Cleans
  <2>3. /\ OneCall(p) /\ call'[p].at = "read" /\ call'[p].level = c.level
        /\ call'[p].stack = WithLeft(c.stack, ToRead(Top(p).path))
    BY <1>1, <1>12, <2>2, EnterDirOne
  <2>4. call'[p].stack # <<>>
    BY <1>2, <2>2, <2>3, TopOfStack, EmptySeq DEF ToRead, Kids
  <2> QED BY <1>1, <1>9, <2>1, <2>3, <2>4, RemoverTyped DEF OneStep, Cleans
<1>13. ASSUME ReadDir(p) PROVE OneStep(p)
  <2>1. c.at = "read" /\ before' = before /\ tree' = tree
    BY <1>13 DEF ReadDir, At
  <2>2. c.stack # <<>>
    BY <1>10, <2>1 DEF Cleans
  <2>3. Top(p) \in Frames
    BY <1>2, <2>2, FrontAndLast DEF Top
  <2>4. PICK name \in Top(p).left, s \in Seq(Frames) :
          /\ s = WithLeft(c.stack, Top(p).left \ {name})
          /\ OneCall(p) /\ call'[p].level = c.level
          /\ \/ /\ IsDir(Append(Top(p).path, name)) /\ call'[p].at = "enter"
                /\ call'[p].stack =
                     Append(s, [path |-> Append(Top(p).path, name), left |-> {}])
             \/ call'[p].at = "unlink" /\ call'[p].stack = s
             \/ call'[p].at = "read" /\ call'[p].stack = s
    BY <1>1, <1>13, <2>2, ReadDirOne
  <2>5. s # <<>>
    <3>1. Top(p).left \ {name} \in SUBSET AllNames
      BY <2>3 DEF Frames
    <3> QED BY <1>2, <2>2, <2>4, <3>1, TopOfStack, EmptySeq
  <2>6. call'[p].stack # <<>>
    <3>1. CASE call'[p].stack = s
      BY <2>5, <3>1
    <3>2. CASE /\ IsDir(Append(Top(p).path, name))
               /\ call'[p].stack =
                    Append(s, [path |-> Append(Top(p).path, name), left |-> {}])
      <4>1. Append(Top(p).path, name) \in Ways
        BY <1>1, <3>2 DEF IsDir, Exists, IsTree
      <4>2. [path |-> Append(Top(p).path, name), left |-> {}] \in Frames
        BY <4>1 DEF Frames
      <4> QED BY <3>2, <4>2, AppendProperties
    <3> QED BY <2>4, <3>1, <3>2
  <2> QED BY <1>1, <1>9, <2>1, <2>4, <2>6, RemoverTyped DEF OneStep, Cleans
<1>14. ASSUME Unlink(p) PROVE OneStep(p)
  <2>1. /\ c.at = "unlink" /\ before' = before /\ Goto(p, "read")
        /\ Removes(c.sub) \/ tree' = tree
    BY <1>14 DEF Unlink, At
  <2>2. IsTree(tree')
    BY <1>1, <2>1, RemovesFromTree
  <2>3. /\ OneCall(p) /\ call'[p].at = "read" /\ call'[p].level = c.level
        /\ call'[p].stack = c.stack
    BY <1>1, <2>1, GotoOne DEF Steps, Cleans
  <2>4. call'[p].stack # <<>>
    BY <1>10, <2>1, <2>3 DEF Cleans
  <2> QED BY <1>1, <1>9, <2>1, <2>2, <2>3, <2>4, RemoverTyped DEF OneStep, Cleans
<1>15. ASSUME LeaveDir(p) PROVE OneStep(p)
  <2>1. c.at = "read" /\ before' = before
    BY <1>15 DEF LeaveDir, At
  <2>2. Removes(Top(p).path) \/ tree' = tree
    BY <1>15 DEF LeaveDir
  <2>3. IsTree(tree')
    BY <1>1, <2>2, RemovesFromTree
  <2>4. c.stack # <<>>
    BY <1>10, <2>1 DEF Cleans
  <2>5. /\ OneCall(p) /\ call'[p].level = c.level
        /\ \/ Len(c.stack) = 1 /\ call'[p].at = "done"
           \/ /\ Len(c.stack) # 1 /\ call'[p].at = "read"
              /\ call'[p].stack = Front(c.stack)
    BY <1>1, <1>15, <2>4, LeaveDirOne
  <2>6. call'[p].at # "done" => call'[p].stack # <<>>
    <3>1. /\ Len(c.stack) \in Nat \ {0}
          /\ Len(Front(c.stack)) = Len(c.stack) - 1
      BY <1>2, <2>4, FrontAndLast
    <3>2. Len(c.stack) # 1 => Front(c.stack) # <<>>
      <4> DEFINE n == Len(c.stack)
                 m == Len(Front(c.stack))
      <4>1. n \in Nat \ {0} /\ m = n - 1
        BY <3>1
      <4>2. Front(c.stack) = <<>> => m = 0
        OBVIOUS
      <4> HIDE DEF n, m
      <4>3. n # 1 => m # 0
        BY <4>1
      <4> QED BY <4>2, <4>3 DEF n
    <3> QED BY <2>5, <3>2
  <2> QED BY <1>1, <1>9, <2>1, <2>3, <2>5, <2>6, RemoverTyped DEF OneStep, Cleans
<1> QED BY <1>4, <1>5, <1>6, <1>7, <1>8, <1>11, <1>12, <1>13, <1>14, <1>15 DEF Step

LEMMA StepKeepsTypes ==
  TypeInv /\ [Next]_vars => TypeInv'
<1> SUFFICES ASSUME TypeInv, [Next]_vars PROVE TypeInv'
  OBVIOUS
<1>1. CASE UNCHANGED vars
  BY <1>1 DEF vars, TypeInv, IsTree
<1>2. CASE Next
  <2>1. PICK p \in Processes : Step(p)
    BY <1>2 DEF Next
  <2>2. OneStep(p)
    BY <2>1, StepTyped
  <2> QED BY <2>2 DEF TypeInv, OneStep, OneCall
<1> QED BY <1>1, <1>2

-----------------------------------------------------------------------------
(* The removers among themselves.  The tree only loses what was there, and *)
(* never what is below something.  A remover has yet to remove, from each  *)
(* directory it is in, nothing but the names it will still read, the one   *)
(* it has gone into and the file at hand.                                  *)

Removing == \A p \in Processes : call[p].op \in Removers

Shrunk ==
  /\ DOMAIN tree \subseteq DOMAIN before
  /\ \A q \in DOMAIN tree : tree[q] = before[q]

ToGo(c, i, name) ==
  \/ name \in c.stack[i].left
  \/ i < Len(c.stack) /\ Append(c.stack[i].path, name) = c.stack[i + 1].path
  \/ i = Len(c.stack) /\ c.at = "unlink" /\ Append(c.stack[i].path, name) = c.sub
  \/ i = Len(c.stack) /\ c.at = "enter"

Cleaning(c, b, t) ==
  /\ c.stack[1].path = c.path
  /\ \A i \in 1..Len(c.stack) :
       /\ c.stack[i].path \in DOMAIN b /\ b[c.stack[i].path] = "dir"
       /\ \A name \in Kids(t, c.stack[i].path) : ToGo(c, i, name)
  /\ c.at = "unlink" => c.sub \in DOMAIN b /\ b[c.sub] # "dir"

Cleaned(c, b, t) ==
  c.path \in DOMAIN b /\ b[c.path] = "dir" =>
    IF c.op = "CleanDir" THEN Kids(t, c.path) = {} ELSE c.path \notin DOMAIN t

Removed(c, b, t) ==
  /\ c.at \in Cleans => Cleaning(c, b, t)
  /\ c.at = "done" => Cleaned(c, b, t)

RemoversInv ==
  /\ Shrunk /\ Closed(tree)
  /\ \A p \in Processes : Removed(call[p], before, tree)

LEMMA FewerToRemove ==
  ASSUME NEW c, NEW b, NEW t, NEW u, DOMAIN u \subseteq DOMAIN t, Removed(c, b, t)
  PROVE  Removed(c, b, u)
<1>1. \A path : Kids(u, path) \subseteq Kids(t, path)
  BY DEF Kids
<1>2. c.at \in Cleans => Cleaning(c, b, u)
  BY <1>1 DEF Removed, Cleaning
<1>3. c.at = "done" => Cleaned(c, b, u)
  BY <1>1 DEF Removed, Cleaned
<1> QED BY <1>2, <1>3 DEF Removed

LEMMA WhatIsWas ==
  ASSUME Shrunk, NEW path, IsDir(path)
  PROVE  WasDir(path)
BY DEF Shrunk, IsDir, Exists, WasDir

LEMMA NothingWithout ==
  ASSUME IsTree(tree), Closed(tree), NEW path \in Ways, ~IsDir(path)
  PROVE  Kids(tree, path) = {}
<1> SUFFICES ASSUME NEW name \in Kids(tree, path) PROVE FALSE
  OBVIOUS
<1> DEFINE q == Append(path, name)
<1>1. name \in AllNames /\ q \in DOMAIN tree /\ path \in Seq(AllNames) /\ path # <<>>
  BY DEF Kids, Ways
<1>2. Front(q) = path /\ Len(q) = Len(path) + 1
  BY <1>1, FrontOfAppend
<1>3. Len(path) \in Nat \ {0}
  BY <1>1, EmptySeq
<1> HIDE DEF q
<1>4. Len(q) > 1
  BY <1>2, <1>3
<1> QED BY <1>1, <1>2, <1>4 DEF Closed, IsDir, Exists

LEMMA RemovesLast ==
  ASSUME IsTree(tree), Shrunk, Closed(tree), NEW path, Removes(path),
         ~IsDir(path) \/ Kids(tree, path) = {}
  PROVE  /\ DOMAIN tree' \subseteq DOMAIN tree /\ path \notin DOMAIN tree'
         /\ Closed(tree')
         /\ before' = before => Shrunk'
<1>1. /\ IsTree(tree') /\ DOMAIN tree' = DOMAIN tree \ {path}
      /\ \A q \in DOMAIN tree' : tree'[q] = tree[q]
  BY RemovesFromTree
<1>2. before' = before => Shrunk'
  BY <1>1 DEF Shrunk
<1>3. ASSUME NEW q \in DOMAIN tree', Len(q) > 1
      PROVE  Front(q) \in DOMAIN tree' /\ tree'[Front(q)] = "dir"
  <2>1. q \in DOMAIN tree /\ q \in Seq(AllNames) /\ q # <<>>
    BY <1>1 DEF IsTree, Ways
  <2>2. Front(q) \in DOMAIN tree /\ tree[Front(q)] = "dir"
    BY <1>3, <2>1 DEF Closed
  <2>3. Last(q) \in AllNames /\ q = Append(Front(q), Last(q))
    BY <2>1, FrontAndLast
  <2>4. Last(q) \in Kids(tree, Front(q))
    BY <2>1, <2>3 DEF Kids
  <2>5. Front(q) # path
    BY <2>2, <2>4 DEF IsDir, Exists
  <2> QED BY <1>1, <2>2, <2>5
<1>4. Closed(tree')
  BY <1>3 DEF Closed
<1> QED BY <1>1, <1>2, <1>4

LEMMA RemoverStep ==
  ASSUME TypeInv, RemoversInv, NEW p \in Processes, call[p].op \in Removers, Step(p)
  PROVE  /\ DOMAIN tree' \subseteq DOMAIN tree /\ Shrunk' /\ Closed(tree')
         /\ Removed(call'[p], before', tree')
<1> DEFINE c == call[p]
           d == call'[p]
           n == Len(c.stack)
<1>1. /\ before' = before /\ OneCall(p)
      /\ d.op = c.op /\ d.path = c.path
  BY StepTyped DEF OneStep, OneCall
<1>2. /\ IsTree(tree) /\ call \in [Processes -> Calls] /\ c \in Calls /\ Typed(c)
      /\ c.op \in Makers \cup Removers /\ c.path \in Paths /\ c.path \in Ways
      /\ c.stack \in Seq(Frames)
  BY PathsAreWays DEF TypeInv, Calls
<1>3. c.at \in Cleans \cup {"isdir", "done"} /\ c.op \notin Makers
  BY <1>2, StepsOfOps DEF Typed, StepsOf
<1>4. c.at \in Cleans =>
        /\ c.stack # <<>> /\ n \in Nat \ {0} /\ n \in 1..n
        /\ Top(p) \in Frames /\ Top(p) = c.stack[n]
        /\ \A i \in 1..n : c.stack[i] \in Frames
        /\ Cleaning(c, before, tree)
  <2>1. c.at \in Cleans => c.stack # <<>> /\ Cleaning(c, before, tree)
    BY <1>2 DEF Typed, RemoversInv, Removed
  <2>2. c.stack # <<>> =>
          /\ n \in Nat \ {0} /\ Top(p) \in Frames /\ Top(p) = c.stack[n]
    BY <1>2, FrontAndLast DEF Top, Last
  <2>3. \A i \in 1..n : c.stack[i] \in Frames
    BY <1>2, ElementOfSeq
  <2> QED BY <2>1, <2>2, <2>3
<1>5. Shrunk /\ Closed(tree)
  BY DEF RemoversInv
<1>6. ASSUME tree' = tree
      PROVE  DOMAIN tree' \subseteq DOMAIN tree /\ Shrunk' /\ Closed(tree')
  BY <1>1, <1>5, <1>6 DEF Shrunk
<1> HIDE DEF c, d, n
<1>7. CASE IsDirExist(p)
  <2>1. /\ c.at = "isdir" /\ c.stack = <<>> /\ tree' = tree
        /\ IF IsDir(c.path) THEN Enter(p, c.path) ELSE Return(p, FALSE)
    BY <1>2, <1>7 DEF IsDirExist, At, Typed, c
  <2>2. CASE IsDir(c.path)
    <3> DEFINE frame == [path |-> c.path, left |-> {}]
    <3>1. d.at = "enter" /\ d.stack = Append(<<>>, frame)
      BY <1>2, <2>1, <2>2, EnterOne DEF c, d
    <3>2. Append(<<>>, frame) = <<frame>>
      OBVIOUS
    <3>3. Len(d.stack) = 1 /\ d.stack[1].path = c.path
      BY <3>1, <3>2
    <3>4. WasDir(c.path)
      BY <1>5, <2>2, WhatIsWas
    <3>5. Cleaning(d, before, tree)
      BY <1>1, <3>1, <3>3, <3>4 DEF Cleaning, ToGo, WasDir
    <3> QED BY <1>1, <1>6, <2>1, <3>1, <3>5 DEF Removed, d
  <2>3. CASE ~IsDir(c.path)
    <3>1. d.at = "done"
      BY <1>2, <2>1, <2>3, ReturnOne DEF d
    <3>2. Kids(tree, c.path) = {}
      BY <1>2, <1>5, <2>3, NothingWithout
    <3>3. WasDir(c.path) => c.path \notin DOMAIN tree
      BY <1>5, <2>3 DEF Shrunk, IsDir, Exists, WasDir
    <3>4. Cleaned(d, before, tree)
      BY <1>1, <3>2, <3>3 DEF Cleaned, WasDir
    <3> QED BY <1>1, <1>6, <2>1, <3>1, <3>4 DEF Removed, Cleans, d
  <2> QED BY <2>2, <2>3
<1>8. CASE EnterDir(p)
  <2>1. c.at = "enter" /\ tree' = tree
    BY <1>8 DEF EnterDir, At, c
  <2>2. /\ c.stack # <<>> /\ n \in Nat \ {0} /\ n \in 1..n /\ Cleaning(c, before, tree)
        /\ Top(p) \in Frames /\ Top(p) = c.stack[n]
    BY <1>4, <2>1 DEF Cleans
  <2> DEFINE left == ToRead(Top(p).path)
  <2>3. d.at = "read" /\ d.stack = WithLeft(c.stack, left)
    BY <1>2, <1>8, <2>2, EnterDirOne DEF c, d
  <2>4. left \in SUBSET AllNames
    BY DEF ToRead, Kids
  <2>5. Kids(tree, Top(p).path) \subseteq left
    <3>1. Top(p).path \in Ways
      BY <2>2 DEF Frames
    <3> QED BY <1>2, <1>5, <3>1, NothingWithout DEF ToRead
  <2> HIDE DEF left
  <2>6. /\ Len(d.stack) = n
        /\ \A i \in 1..n : /\ d.stack[i].path = c.stack[i].path
                           /\ d.stack[i].left = IF i = n THEN left ELSE c.stack[i].left
    BY <1>2, <2>2, <2>3, <2>4, TopOfStack DEF n
  <2>7. ASSUME NEW i \in 1..n, NEW name \in Kids(tree, d.stack[i].path)
        PROVE  ToGo(d, i, name)
    <3>1. CASE i = n
      BY <2>2, <2>5, <2>6, <2>7, <3>1 DEF ToGo
    <3>2. CASE i # n
      <4>1. ToGo(c, i, name)
        BY <2>2, <2>6, <2>7 DEF Cleaning, n
      <4>2. i < n /\ i + 1 \in 1..n
        BY <2>2, <2>7, <3>2
      <4>3. \/ name \in c.stack[i].left
            \/ Append(c.stack[i].path, name) = c.stack[i + 1].path
        BY <3>2, <4>1 DEF ToGo, n
      <4> QED BY <2>6, <3>2, <4>2, <4>3 DEF ToGo
    <3> QED BY <3>1, <3>2
  <2>8. Cleaning(d, before, tree)
    <3>1. d.stack[1].path = c.path
      <4>1. 1 \in 1..n
        BY <2>2
      <4> QED BY <2>2, <2>6, <4>1 DEF Cleaning
    <3>2. \A i \in 1..n : WasDir(d.stack[i].path)
      BY <2>2, <2>6 DEF Cleaning, WasDir, n
    <3> QED BY <1>1, <2>3, <2>6, <2>7, <3>1, <3>2 DEF Cleaning, WasDir
  <2> QED BY <1>1, <1>6, <2>1, <2>3, <2>8 DEF Removed, d
<1>9. CASE ReadDir(p)
  <2>1. c.at = "read" /\ tree' = tree
    BY <1>9 DEF ReadDir, At, c
  <2>2. /\ c.stack # <<>> /\ n \in Nat \ {0} /\ n \in 1..n /\ Cleaning(c, before, tree)
        /\ Top(p) \in Frames /\ Top(p) = c.stack[n]
    BY <1>4, <2>1 DEF Cleans
  <2> DEFINE Sub(name) == Append(Top(p).path, name)
             Frame(name) == [path |-> Sub(name), left |-> {}]
  <2>3. PICK name \in Top(p).left, s \in Seq(Frames) :
          /\ s = WithLeft(c.stack, Top(p).left \ {name})
          /\ \/ /\ IsDir(Sub(name)) /\ d.at = "enter"
                /\ d.stack = Append(s, Frame(name))
             \/ /\ ~IsDir(Sub(name)) /\ Exists(Sub(name)) /\ d.at = "unlink"
                /\ d.sub = Sub(name) /\ d.stack = s
             \/ ~Exists(Sub(name)) /\ d.at = "read" /\ d.stack = s
    BY <1>2, <1>9, <2>2, ReadDirOne DEF c, d
  <2> DEFINE left == Top(p).left \ {name}
  <2>4. left \in SUBSET AllNames
    BY <2>2 DEF Frames
  <2> HIDE DEF left
  <2>5. /\ Len(s) = n
        /\ \A i \in 1..n : /\ s[i].path = c.stack[i].path
                           /\ s[i].left = IF i = n THEN left ELSE c.stack[i].left
    BY <1>2, <2>2, <2>3, <2>4, TopOfStack DEF n, left
  (* What is to go at each level of the old stack, but for the name.       *)
  <2>6. ASSUME NEW i \in 1..n, NEW other \in Kids(tree, s[i].path)
        PROVE  \/ other \in s[i].left
               \/ i < n /\ Append(s[i].path, other) = s[i + 1].path
               \/ i = n /\ other = name
    <3>1. ToGo(c, i, other)
      BY <2>2, <2>5, <2>6 DEF Cleaning, n
    <3>2. CASE i = n
      BY <2>1, <2>2, <2>5, <3>1, <3>2 DEF ToGo, left, n
    <3>3. CASE i # n
      <4>1. i < n /\ i + 1 \in 1..n
        BY <2>2, <2>6, <3>3
      <4> QED BY <2>5, <3>1, <3>3, <4>1 DEF ToGo, n
    <3> QED BY <3>2, <3>3
  <2>7. s[1].path = c.path /\ \A i \in 1..n : WasDir(s[i].path)
    <3>1. 1 \in 1..n
      BY <2>2
    <3> QED BY <2>2, <2>5, <3>1 DEF Cleaning, WasDir, n
  <2>8. s[n].path = Top(p).path
    BY <2>2, <2>5
  <2>9. Cleaning(d, before, tree)
    <3>1. CASE IsDir(Sub(name)) /\ d.at = "enter" /\ d.stack = Append(s, Frame(name))
      <4>1. Frame(name) \in Frames
        BY <1>2, <3>1 DEF IsDir, Exists, IsTree, Frames
      <4>2. /\ Len(d.stack) = n + 1 /\ \A i \in 1..n : d.stack[i] = s[i]
            /\ d.stack[n + 1] = Frame(name)
        BY <2>5, <3>1, <4>1, AppendProperties
      <4>3. d.stack[n + 1].path = Sub(name)
        BY <4>2
      <4>4. d.stack[1].path = d.path
        <5>1. 1 \in 1..n
          BY <2>2
        <5> QED BY <1>1, <2>7, <4>2, <5>1 DEF c, d
      <4> HIDE DEF Sub, Frame
      <4>5. ASSUME NEW i \in 1..Len(d.stack)
            PROVE  /\ WasDir(d.stack[i].path)
                   /\ \A other \in Kids(tree, d.stack[i].path) : ToGo(d, i, other)
        <5>1. CASE i = n + 1
          BY <1>5, <3>1, <4>2, <4>3, <5>1, WhatIsWas DEF ToGo
        <5>2. CASE i = n
          <6>1. n < n + 1 /\ d.stack[n] = s[n]
            BY <2>2, <4>2
          <6>2. ASSUME NEW other \in Kids(tree, s[n].path)
                PROVE  other \in s[n].left \/ other = name
            BY <2>2, <2>6
          <6>3. Append(s[n].path, name) = d.stack[n + 1].path
            BY <2>8, <4>3 DEF Sub
          <6> QED BY <2>2, <2>7, <4>2, <5>2, <6>1, <6>2, <6>3 DEF ToGo
        <5>3. CASE i # n + 1 /\ i # n
          <6>1. i \in 1..n /\ i < n /\ i + 1 \in 1..n /\ i < n + 1
            BY <2>2, <4>2, <4>5, <5>3
          <6>2. d.stack[i] = s[i] /\ d.stack[i + 1] = s[i + 1]
            BY <4>2, <6>1
          <6>3. \A other \in Kids(tree, s[i].path) :
                  other \in s[i].left \/ Append(s[i].path, other) = s[i + 1].path
            BY <2>6, <5>3, <6>1
          <6> QED BY <2>7, <4>2, <6>1, <6>2, <6>3 DEF ToGo
        <5> QED BY <5>1, <5>2, <5>3
      <4> QED BY <3>1, <4>4, <4>5 DEF Cleaning, WasDir
    <3>2. CASE d.stack = s /\ d.at \in {"unlink", "read"}
      <4>1. d.at = "unlink" => /\ d.sub = Sub(name) /\ ~IsDir(Sub(name))
                               /\ Exists(Sub(name))
        BY <2>3, <3>2
      <4>2. d.at = "read" => ~Exists(Sub(name))
        BY <2>3, <3>2
      <4>3. d.at = "unlink" => d.sub \in DOMAIN before /\ before[d.sub] # "dir"
        BY <1>5, <4>1 DEF Shrunk, IsDir, Exists
      <4>4. ASSUME NEW i \in 1..n, NEW other \in Kids(tree, s[i].path)
            PROVE  ToGo(d, i, other)
        <5>1. CASE i = n /\ other = name
          <6>1. Sub(name) \in DOMAIN tree
            BY <2>8, <4>4, <5>1 DEF Kids
          <6> QED BY <2>5, <2>8, <3>2, <4>1, <4>2, <5>1, <6>1 DEF ToGo, Exists
        <5>2. CASE ~(i = n /\ other = name)
          <6>1. \/ other \in s[i].left
                \/ i < n /\ Append(s[i].path, other) = s[i + 1].path
            BY <2>6, <4>4, <5>2
          <6> QED BY <2>5, <3>2, <6>1 DEF ToGo
        <5> QED BY <5>1, <5>2
      <4> QED BY <1>1, <2>5, <2>7, <3>2, <4>3, <4>4 DEF Cleaning, WasDir, c, d
    <3> QED BY <2>3, <3>1, <3>2
  <2> QED BY <1>1, <1>6, <2>1, <2>3, <2>9 DEF Removed, Cleans, d
<1>10. CASE Unlink(p)
  <2>1. /\ c.at = "unlink" /\ Goto(p, "read")
        /\ IF Exists(c.sub) /\ ~IsDir(c.sub) THEN Removes(c.sub) ELSE tree' = tree
    BY <1>10 DEF Unlink, At, c
  <2>2. /\ n \in Nat \ {0} /\ Cleaning(c, before, tree)
        /\ c.sub \in DOMAIN before /\ before[c.sub] # "dir"
    BY <1>4, <2>1 DEF Cleans, Cleaning
  <2>3. ~IsDir(c.sub)
    BY <1>5, <2>2 DEF Shrunk, IsDir, Exists
  <2>4. /\ DOMAIN tree' \subseteq DOMAIN tree /\ Shrunk' /\ Closed(tree')
        /\ c.sub \notin DOMAIN tree'
    <3>1. CASE Removes(c.sub)
      BY <1>1, <1>2, <1>5, <2>3, <3>1, RemovesLast
    <3>2. CASE ~Exists(c.sub) /\ tree' = tree
      BY <1>6, <3>2 DEF Exists
    <3> QED BY <2>1, <2>3, <3>1, <3>2
  <2>5. d.at = "read" /\ d.stack = c.stack
    BY <1>2, <2>1, GotoOne DEF Steps, Cleans, c, d
  <2>6. ASSUME NEW i \in 1..n, NEW name \in Kids(tree', c.stack[i].path)
        PROVE  ToGo(d, i, name)
    <3>1. name \in Kids(tree, c.stack[i].path) /\ Append(c.stack[i].path, name) # c.sub
      BY <2>4, <2>6 DEF Kids
    <3>2. ToGo(c, i, name)
      BY <2>2, <3>1 DEF Cleaning, n
    <3> QED BY <2>1, <2>5, <3>1, <3>2 DEF ToGo
  <2>7. Cleaning(d, before, tree')
    BY <1>1, <2>2, <2>5, <2>6 DEF Cleaning, n
  <2> QED BY <1>1, <2>4, <2>5, <2>7 DEF Removed, d
<1>11. CASE LeaveDir(p)
  <2>1. c.at = "read" /\ Top(p).left = {}
    BY <1>11 DEF LeaveDir, At, c
  <2>2. /\ c.stack # <<>> /\ n \in Nat \ {0} /\ n \in 1..n /\ Cleaning(c, before, tree)
        /\ Top(p) \in Frames /\ Top(p) = c.stack[n]
    BY <1>4, <2>1 DEF Cleans
  <2> DEFINE path == Top(p).path
  <2>3. Kids(tree, path) = {}
    <3> SUFFICES ASSUME NEW name \in Kids(tree, c.stack[n].path) PROVE FALSE
      BY <2>2
    <3>1. ToGo(c, n, name)
      BY <2>2 DEF Cleaning, n
    <3>2. c.stack[n].left = {} /\ ~(n < n)
      BY <2>1, <2>2
    <3> QED BY <2>1, <3>1, <3>2 DEF ToGo, n
  <2>4. path \in Ways
    BY <2>2 DEF Frames
  <2>5. IsDir(path) \/ ~Exists(path)
    BY <1>5, <2>2 DEF Shrunk, IsDir, Exists, Cleaning, n
  <2>6. Children(path) = {}
    BY <1>2, <2>3, <2>4, ChildrenAreKids DEF Ways
  <2> HIDE DEF path
  <2>7. CASE n = 1 /\ c.op = "CleanDir"
    <3>1. tree' = tree /\ Return(p, c.result)
      BY <1>11, <2>7 DEF LeaveDir, c, n
    <3>2. c.result \in BOOLEAN
      BY <1>2 DEF Calls
    <3>3. d.at = "done"
      BY <1>2, <3>1, <3>2, ReturnOne DEF c, d
    <3>4. path = c.path
      BY <2>2, <2>7 DEF Cleaning, path
    <3>5. Cleaned(d, before, tree)
      BY <1>1, <2>3, <2>7, <3>4 DEF Cleaned
    <3> QED BY <1>1, <1>6, <3>1, <3>3, <3>5 DEF Removed, Cleans, d
  <2>8. CASE ~(n = 1 /\ c.op = "CleanDir")
    <3>1. IF IsDir(path) THEN Removes(path) ELSE tree' = tree
      BY <1>11, <2>6, <2>8 DEF LeaveDir, c, n, path
    <3>2. /\ DOMAIN tree' \subseteq DOMAIN tree /\ Shrunk' /\ Closed(tree')
          /\ path \notin DOMAIN tree'
      <4>1. CASE Removes(path)
        BY <1>1, <1>2, <1>5, <2>3, <4>1, RemovesLast
      <4>2. CASE ~Exists(path) /\ tree' = tree
        BY <1>6, <4>2 DEF Exists
      <4> QED BY <2>5, <3>1, <4>1, <4>2
    <3>3. \/ n = 1 /\ d.at = "done"
          \/ n # 1 /\ d.at = "read" /\ d.stack = Front(c.stack)
      BY <1>2, <1>11, <2>2, LeaveDirOne DEF c, d, n
    <3>4. CASE n = 1 /\ d.at = "done"
      <4>1. path = c.path /\ c.op # "CleanDir"
        BY <2>2, <2>8, <3>4 DEF Cleaning, path
      <4>2. Cleaned(d, before, tree')
        BY <1>1, <3>2, <4>1 DEF Cleaned
      <4> QED BY <1>1, <3>2, <3>4, <4>2 DEF Removed, Cleans, d
    <3>5. CASE n # 1 /\ d.at = "read" /\ d.stack = Front(c.stack)
      <4> DEFINE m == n - 1
      <4>1. m \in 1..n /\ 1 \in 1..m /\ m < n /\ m + 1 = n /\ 1..m \subseteq 1..n
        BY <2>2, <3>5
      <4>2. Len(d.stack) = m /\ \A i \in 1..m : d.stack[i] = c.stack[i]
        BY <1>2, <2>2, <3>5 DEF Front, n
      <4> HIDE DEF m
      <4>3. ASSUME NEW i \in 1..m, NEW name \in Kids(tree', c.stack[i].path)
            PROVE  ToGo(d, i, name)
        <5>1. /\ name \in Kids(tree, c.stack[i].path)
              /\ Append(c.stack[i].path, name) \in DOMAIN tree'
          BY <3>2, <4>3 DEF Kids
        <5>2. ToGo(c, i, name) /\ i # n
          <6>1. i \in 1..n /\ i # n
            BY <2>2, <4>1
          <6> QED BY <2>2, <5>1, <6>1 DEF Cleaning, n
        <5>3. \/ name \in c.stack[i].left
              \/ Append(c.stack[i].path, name) = c.stack[i + 1].path
          BY <5>2 DEF ToGo, n
        <5>4. CASE i = m
          <6>1. c.stack[i + 1].path = path
            BY <2>2, <4>1, <5>4 DEF path
          <6>2. name \in c.stack[i].left
            BY <3>2, <5>1, <5>3, <6>1
          <6> QED BY <4>2, <6>2 DEF ToGo
        <5>5. CASE i # m
          <6>1. i < m /\ i + 1 \in 1..m
            BY <2>2, <4>1, <5>5
          <6> QED BY <4>2, <5>3, <6>1 DEF ToGo
        <5> QED BY <5>4, <5>5
      <4>4. \A i \in 1..m : WasDir(c.stack[i].path)
        BY <2>2, <4>1 DEF Cleaning, WasDir, n
      <4>5. d.stack[1].path = d.path
        BY <1>1, <2>2, <4>1, <4>2 DEF Cleaning
      <4>6. Cleaning(d, before, tree')
        BY <3>5, <4>2, <4>3, <4>4, <4>5 DEF Cleaning, WasDir
      <4> QED BY <1>1, <3>2, <3>5, <4>6 DEF Removed, d
    <3> QED BY <3>3, <3>4, <3>5
  <2> QED BY <2>7, <2>8
<1>12. \/ IsDirExist(p) \/ EnterDir(p) \/ ReadDir(p) \/ Unlink(p) \/ LeaveDir(p)
  BY <1>3 DEF Step, Advance, Look, Make, OpenDir, OpenFile, At, Cleans, c
<1> QED BY <1>7, <1>8, <1>9, <1>10, <1>11, <1>12

LEMMA InitIsFresh ==
  ASSUME Init, NEW p \in Processes
  PROVE  /\ call[p].at \notin Cleans \cup {"make", "fopen", "done"}
         /\ call[p].at = "look" => call[p].op \in {"Mkdirs", "MkDir"}
         /\ call[p].level = 1 /\ ~call[p].result
<1>1. PICK op \in [Processes -> Makers \cup Removers], path \in [Processes -> Paths] :
        call = [r \in Processes |->
                  [op |-> op[r], path |-> path[r], at |-> FirstStep(op[r]),
                   level |-> 1, stack |-> <<>>, sub |-> <<>>, result |-> FALSE]]
  BY DEF Init
<1>2. /\ call[p].op = op[p] /\ call[p].at = FirstStep(op[p])
      /\ call[p].level = 1 /\ call[p].result = FALSE
  BY <1>1
<1>3. op[p] \in Makers \cup Removers
  OBVIOUS
<1>4. /\ FirstStep(op[p]) \notin Cleans \cup {"make", "fopen", "done"}
      /\ FirstStep(op[p]) = "look" => op[p] \in {"Mkdirs", "MkDir"}
  BY <1>3 DEF FirstStep, Makers, Removers, Cleans
<1> QED BY <1>2, <1>4

LEMMA InitRemovers ==
  Init => RemoversInv
<1> SUFFICES ASSUME Init PROVE RemoversInv
  OBVIOUS
<1>1. before \in Trees /\ tree = before
  BY DEF Init
<1>2. Shrunk /\ Closed(tree)
  BY <1>1, TreesAreTrees DEF Shrunk
<1>3. \A p \in Processes : Removed(call[p], before, tree)
  BY InitIsFresh DEF Removed, Cleans
<1> QED BY <1>2, <1>3 DEF RemoversInv

LEMMA StepRemovers ==
  TypeInv /\ Removing /\ RemoversInv /\ [Next]_vars => RemoversInv'
<1> SUFFICES ASSUME TypeInv, Removing, RemoversInv, [Next]_vars PROVE RemoversInv'
  OBVIOUS
<1>1. CASE UNCHANGED vars
  BY <1>1 DEF vars, RemoversInv, Shrunk
<1>2. CASE Next
  <2>1. PICK p \in Processes : Step(p)
    BY <1>2 DEF Next
  <2>2. before' = before /\ \A r \in Processes \ {p} : call'[r] = call[r]
    BY <2>1, StepTyped DEF OneStep, OneCall
  <2>3. /\ DOMAIN tree' \subseteq DOMAIN tree /\ Shrunk' /\ Closed(tree')
        /\ Removed(call'[p], before', tree')
    BY <2>1, RemoverStep DEF Removing
  <2>4. ASSUME NEW r \in Processes \ {p} PROVE Removed(call'[r], before', tree')
    BY <2>2, <2>3, <2>4, FewerToRemove DEF RemoversInv
  <2> QED BY <2>3, <2>4 DEF RemoversInv
<1> QED BY <1>1, <1>2

(* Where a path is, all that it goes through is.                           *)
LEMMA CutsAreThere ==
  ASSUME IsTree(tree), Closed(tree), NEW q \in DOMAIN tree, NEW n \in 1..Len(q)
  PROVE  SubSeq(q, 1, n) \in DOMAIN tree
<1> DEFINE N == Len(q)
           S == {k \in 0..N - 1 : SubSeq(q, 1, N - k) \in DOMAIN tree}
<1>1. q \in Seq(AllNames) /\ q # <<>> /\ N \in Nat \ {0}
  BY EmptySeq DEF IsTree, Ways
<1>2. 0 \in S
  <2>1. SubSeq(q, 1, N) = q /\ 0 \in 0..N - 1 /\ N - 0 = N
    BY <1>1, SubSeqFull
  <2> QED BY <2>1
<1>3. ASSUME NEW k \in 1..N - 1, k - 1 \in S PROVE k \in S
  <2> DEFINE i == N - (k - 1)
             r == SubSeq(q, 1, i)
  <2>1. i \in 1..N /\ i > 1 /\ i - 1 = N - k /\ k \in 0..N - 1
    BY <1>1
  <2>2. r \in DOMAIN tree
    BY <1>3
  <2> HIDE DEF i
  <2>3. Len(r) = i /\ Front(r) = SubSeq(q, 1, i - 1)
    BY <1>1, <2>1, CutOfPath
  <2> HIDE DEF r
  <2>4. Front(r) \in DOMAIN tree
    BY <2>1, <2>2, <2>3 DEF Closed
  <2> QED BY <2>1, <2>3, <2>4
<1>4. 0..N - 1 \subseteq S
  <2>1. N - 1 \in Nat
    BY <1>1
  <2> HIDE DEF S, N
  <2> QED BY <1>2, <1>3, <2>1, SetInduction
<1>5. N - n \in 0..N - 1 /\ N - (N - n) = n
  BY <1>1
<1> QED BY <1>4, <1>5

LEMMA NothingStays ==
  TypeInv /\ RemoversInv /\ Ended(Removers) => RemovedIsGone
<1> SUFFICES ASSUME TypeInv, RemoversInv, Ended(Removers),
                    NEW p \in Processes, NEW q \in DOMAIN before,
                    WasDir(call[p].path), IsPrefix(call[p].path, q),
                    call[p].op = "CleanDir" => q # call[p].path, Exists(q)
             PROVE  FALSE
  BY DEF RemovedIsGone
<1> DEFINE path == call[p].path
           n == Len(path)
<1>1. IsTree(tree) /\ Closed(tree) /\ q \in DOMAIN tree /\ path \in Paths
  BY DEF TypeInv, RemoversInv, Exists, Calls
<1>2. path \in Ways /\ n \in Nat \ {0} /\ path \in Seq(AllNames)
  BY <1>1, PathsAreWays DEF Ways
<1>3. q \in Seq(AllNames) /\ q # <<>> /\ Len(q) \in Nat
  BY <1>1 DEF IsTree, Ways
<1>4. n <= Len(q) /\ SubSeq(q, 1, n) = path
  <2>1. SubSeq(path, 1, n) = path
    BY <1>2, SubSeqFull
  <2> QED BY <2>1 DEF IsPrefix
<1>5. Cleaned(call[p], before, tree)
  BY DEF Ended, At, RemoversInv, Removed
<1> HIDE DEF path, n
<1>6. path \in DOMAIN tree
  <2>1. n \in 1..Len(q)
    BY <1>2, <1>3, <1>4
  <2> QED BY <1>1, <1>4, <2>1, CutsAreThere
<1>7. call[p].op = "CleanDir" /\ Kids(tree, path) = {}
  BY <1>5, <1>6 DEF Cleaned, WasDir, path
<1>8. n < Len(q)
  <2>1. n # Len(q)
    BY <1>3, <1>4, <1>7, SubSeqFull DEF path
  <2> QED BY <1>2, <1>3, <1>4, <2>1
<1> DEFINE r == SubSeq(q, 1, n + 1)
<1>9. n + 1 \in 1..Len(q) /\ (n + 1) - 1 = n
  BY <1>2, <1>3, <1>8
<1>10. r \in DOMAIN tree
  BY <1>1, <1>9, CutsAreThere
<1>11. r \in Seq(AllNames) /\ r # <<>> /\ Front(r) = path
  BY <1>3, <1>4, <1>9, CutOfPath
<1> HIDE DEF r
<1>12. Last(r) \in AllNames /\ r = Append(path, Last(r))
  BY <1>11, FrontAndLast
<1> QED BY <1>7, <1>10, <1>12 DEF Kids

-----------------------------------------------------------------------------
(* The makers among themselves.  The tree only grows, and what is there    *)
(* stays what it is.                                                       *)

Making == \A p \in Processes : call[p].op \in Makers
AllAble == \A p \in Processes : Able(call[p])

Cut(c, n) == SubSeq(c.path, 1, n)
HasDir(t, q) == q \in DOMAIN t /\ t[q] = "dir"

Grown ==
  /\ DOMAIN before \subseteq DOMAIN tree
  /\ \A q \in DOMAIN before : tree[q] = before[q]

Grows(t, u) ==
  /\ DOMAIN t \subseteq DOMAIN u /\ \A q \in DOMAIN t : u[q] = t[q]
  /\ \A q \in DOMAIN u \ DOMAIN t : Last(q) # LogName => u[q] = "dir"

(* Where only missing levels are in the way, whatever is there of a path   *)
(* is a directory; the level above the one at hand is there; and that one  *)
(* was not there before, once it is to be made.                            *)
OnItsWay(c, b, t) ==
  /\ \A n \in 1..Len(c.path) : Cut(c, n) \in DOMAIN t => t[Cut(c, n)] = "dir"
  /\ c.op = "CreateLog" /\ c.at \in {"look", "make"} => ~HasDir(b, c.path)
  /\ c.at \in {"look", "make"} /\ c.level > 1 => HasDir(t, Cut(c, c.level - 1))
  /\ c.at = "make" => Cut(c, c.level) \notin DOMAIN b

(* One process has not failed, and no directory that was made is longer    *)
(* than what it has passed: what it is still to make, nobody has made.     *)
Passed(c) == IF c.at \in {"fopen", "done"} THEN Len(c.path) ELSE c.level - 1
Succeeds(c, b, t) ==
  /\ c.at = "done" => c.result
  /\ c.at = "fopen" => HasDir(t, c.path)
  /\ \A q \in DOMAIN t \ DOMAIN b : t[q] = "dir" => Len(q) <= Passed(c)

MakersInv ==
  /\ Grown /\ MadeIsThere
  /\ AllAble =>
       /\ \A p \in Processes : OnItsWay(call[p], before, tree)
       /\ \E p \in Processes : Succeeds(call[p], before, tree)

LEMMA InitMakers ==
  Init => MakersInv
<1> SUFFICES ASSUME Init PROVE MakersInv
  OBVIOUS
<1>1. before \in Trees /\ tree = before
  BY DEF Init
<1>2. Grown
  BY <1>1 DEF Grown
<1>3. MadeIsThere
  BY InitIsFresh DEF MadeIsThere
<1>4. ASSUME AllAble, NEW p \in Processes PROVE OnItsWay(call[p], before, tree)
  <2>1. \A n \in 1..Len(call[p].path) :
          Cut(call[p], n) \in DOMAIN tree => tree[Cut(call[p], n)] = "dir"
    BY <1>1, <1>4 DEF AllAble, Able, WasDir, Cut
  <2>2. /\ call[p].at # "make" /\ ~(call[p].level > 1)
        /\ call[p].at = "look" => call[p].op # "CreateLog"
    BY InitIsFresh
  <2> QED BY <2>1, <2>2 DEF OnItsWay
<1>5. ASSUME NEW p \in Processes PROVE Succeeds(call[p], before, tree)
  BY <1>1, InitIsFresh DEF Succeeds
<1>6. Processes # {}
  BY DirectoryAssumption
<1> QED BY <1>2, <1>3, <1>4, <1>5, <1>6 DEF MakersInv

LEMMA GrowsOnItsWay ==
  ASSUME NEW c \in Calls, NEW b, NEW t, NEW u, Grows(t, u), OnItsWay(c, b, t)
  PROVE  OnItsWay(c, b, u)
<1>1. ASSUME NEW n \in 1..Len(c.path), Cut(c, n) \in DOMAIN u
      PROVE  u[Cut(c, n)] = "dir"
  <2>1. Last(Cut(c, n)) # LogName
    BY CutsAreWays DEF Calls, Cut
  <2> QED BY <1>1, <2>1 DEF OnItsWay, Grows
<1>2. \A q : HasDir(t, q) => HasDir(u, q)
  BY DEF Grows, HasDir
<1> QED BY <1>1, <1>2 DEF OnItsWay

LEMMA AddsGrows ==
  ASSUME IsTree(tree), NEW path \in Ways, NEW kind \in Kinds,
         Last(path) = LogName <=> kind = "file",
         kind = "dir" => ~Exists(path),
         Adds(path, kind)
  PROVE  Grows(tree, tree') /\ DOMAIN tree' = DOMAIN tree \cup {path}
BY AddsToTree DEF Grows, Kinds

(* A step of a maker, whatever is in its way.                              *)
LEMMA MakerGrows ==
  ASSUME TypeInv, NEW p \in Processes, call[p].op \in Makers, Step(p)
  PROVE  /\ Grows(tree, tree')
         /\ call'[p].result /\ ~(call[p].op = "MakeDir" /\ Len(call[p].path) = 1)
              => call[p].path \in DOMAIN tree'
<1> DEFINE c == call[p]
           d == call'[p]
           Made == d.result /\ ~(c.op = "MakeDir" /\ Len(c.path) = 1)
                     => c.path \in DOMAIN tree'
<1>1. /\ IsTree(tree) /\ call \in [Processes -> Calls] /\ c \in Calls /\ Typed(c)
      /\ c.level \in 1..Len(c.path) /\ c.path \in Paths /\ c.path \in Ways
      /\ c.op \in Makers \cup Removers /\ c.result \in BOOLEAN
      /\ Len(c.path) \in Nat \ {0}
  BY PathsAreWays DEF TypeInv, Typed, Calls
<1>2. c.at \notin Cleans \cup {"isdir"} /\ c.op \notin Removers
  BY <1>1, StepsOfOps DEF Typed
<1>3. c.at # "done" => ~c.result
  BY <1>1 DEF Typed
<1>4. tree' = tree => Grows(tree, tree')
  BY DEF Grows
<1>5. ASSUME Down(p) PROVE d.result => c.level = Len(c.path) \/ c.result
  BY <1>1, <1>5, DownOne
<1>6. Cut(c, Len(c.path)) = c.path
  BY <1>1, SubSeqFull DEF Ways, Cut
<1> HIDE DEF c, d
<1>7. CASE Advance(p)
  <2>1. c.at = "advance" /\ tree' = tree /\ Down(p)
    BY <1>7 DEF Advance, At, c
  <2>2. c.level = 1 /\ c.op = "MakeDir"
    BY <1>1, <2>1, StepsOfOps DEF Typed
  <2>3. Made
    BY <1>3, <1>5, <2>1, <2>2
  <2> QED BY <1>4, <2>1, <2>3 DEF c, d
<1>8. CASE Look(p)
  <2>1. c.at = "look" /\ tree' = tree
        /\ \/ Exists(Level(c)) /\ Down(p)
           \/ Return(p, FALSE)
           \/ Goto(p, "make")
    BY <1>8 DEF Look, At, c, IsDir
  <2>2. CASE Exists(Level(c)) /\ Down(p)
    <3>1. Level(c) # <<>>
      BY <1>1, <2>2 DEF Exists, IsTree, Ways
    <3>2. Level(c) = Cut(c, c.level)
      BY <1>1, <3>1, LevelIsCut DEF Cut
    <3>3. Made
      BY <1>3, <1>5, <1>6, <2>1, <2>2, <3>2 DEF Exists
    <3> QED BY <1>4, <2>1, <3>3 DEF c, d
  <2>3. CASE Return(p, FALSE)
    <3>1. ~d.result
      BY <1>1, <2>3, ReturnOne DEF d
    <3> QED BY <1>4, <2>1, <3>1 DEF d
  <2>4. CASE Goto(p, "make")
    <3>1. ~d.result
      BY <1>1, <1>3, <2>1, <2>4, GotoOne DEF Steps, c, d
    <3> QED BY <1>4, <2>1, <3>1 DEF d
  <2> QED BY <2>1, <2>2, <2>3, <2>4
<1>9. CASE Make(p)
  <2>1. c.at = "make"
        /\ \/ /\ Level(c) # <<>> /\ ~Exists(Level(c)) /\ Adds(Level(c), "dir")
              /\ Down(p) \/ Return(p, FALSE)
           \/ tree' = tree /\ End(p, FALSE)
    BY <1>9 DEF Make, At, c
  <2>2. CASE /\ Level(c) # <<>> /\ ~Exists(Level(c)) /\ Adds(Level(c), "dir")
             /\ Down(p) \/ Return(p, FALSE)
    <3>1. Level(c) = Cut(c, c.level) /\ Level(c) \in Ways /\ Last(Level(c)) # LogName
      BY <1>1, <2>2, LevelIsCut DEF Cut
    <3>2. Grows(tree, tree') /\ Level(c) \in DOMAIN tree'
      BY <1>1, <2>2, <3>1, AddsGrows DEF Kinds
    <3>3. CASE Down(p)
      <4>1. Made
        BY <1>3, <1>5, <1>6, <2>1, <3>1, <3>2, <3>3
      <4> QED BY <3>2, <4>1 DEF c, d
    <3>4. CASE Return(p, FALSE)
      <4>1. ~d.result
        BY <1>1, <3>4, ReturnOne DEF d
      <4> QED BY <3>2, <4>1 DEF d
    <3> QED BY <2>2, <3>3, <3>4
  <2>3. CASE tree' = tree /\ End(p, FALSE)
    <3>1. ~d.result
      BY <1>1, <1>3, <2>1, <2>3, EndOne DEF c, d
    <3> QED BY <1>4, <2>3, <3>1 DEF d
  <2> QED BY <2>1, <2>2, <2>3
<1>10. CASE OpenDir(p)
  <2>1. c.at = "opendir" /\ tree' = tree /\ (Goto(p, "fopen") \/ Goto(p, "look"))
    BY <1>10 DEF OpenDir, At, c
  <2>2. ~d.result
    BY <1>1, <1>3, <2>1, GotoOne DEF Steps, c, d
  <2> QED BY <1>4, <2>1, <2>2 DEF d
<1>11. CASE OpenFile(p)
  <2> DEFINE log == Append(c.path, LogName)
  <2>1. \/ Exists(c.path) /\ Adds(log, "file")
        \/ tree' = tree /\ Return(p, FALSE)
    BY <1>11 DEF OpenFile, IsDir, c
  <2>2. CASE Exists(c.path) /\ Adds(log, "file")
    <3>1. log \in Ways /\ Last(log) = LogName
      BY <1>1, LogIsWay
    <3> HIDE DEF log
    <3>2. Grows(tree, tree')
      BY <1>1, <2>2, <3>1, AddsGrows DEF Kinds
    <3> QED BY <2>2, <3>2 DEF Grows, Exists, c
  <2>3. CASE tree' = tree /\ Return(p, FALSE)
    <3>1. ~d.result
      BY <1>1, <2>3, ReturnOne DEF d
    <3> QED BY <1>4, <2>3, <3>1 DEF d
  <2> QED BY <2>1, <2>2, <2>3
<1>12. \/ Advance(p) \/ Look(p) \/ Make(p) \/ OpenDir(p) \/ OpenFile(p)
  BY <1>2 DEF Step, IsDirExist, EnterDir, ReadDir, Unlink, LeaveDir, At, Cleans, c
<1> QED BY <1>7, <1>8, <1>9, <1>10, <1>11, <1>12

(* What a maker that is able to comes to.                                  *)
AbleStep(p, cut, log) ==
  \/ /\ call[p].at \in {"advance", "look"} /\ tree' = tree
     /\ IsDir(cut) /\ Down(p)
  \/ /\ call[p].at = "look" /\ tree' = tree
     /\ ~Exists(cut) /\ Goto(p, "make")
  \/ call[p].at = "make" /\ ~Exists(cut) /\ Adds(cut, "dir") /\ Down(p)
  \/ call[p].at = "make" /\ tree' = tree /\ Exists(cut) /\ End(p, FALSE)
  \/ /\ call[p].at = "opendir" /\ tree' = tree
     /\ IsDir(call[p].path) /\ Goto(p, "fopen")
  \/ /\ call[p].at = "opendir" /\ tree' = tree
     /\ ~IsDir(call[p].path) /\ Goto(p, "look")
  \/ /\ call[p].at = "fopen" /\ Adds(log, "file")
     /\ IsDir(call[p].path) /\ Return(p, TRUE)
  \/ /\ call[p].at = "fopen" /\ tree' = tree
     /\ ~IsDir(call[p].path) /\ Return(p, FALSE)

LEMMA AbleMaker ==
  ASSUME TypeInv, Grown, NEW p \in Processes, call[p].op \in Makers,
         Able(call[p]), OnItsWay(call[p], before, tree), Step(p)
  PROVE  AbleStep(p, Cut(call[p], call[p].level), Append(call[p].path, LogName))
<1> DEFINE c == call[p]
           cut == Cut(c, c.level)
           log == Append(c.path, LogName)
<1>1. /\ IsTree(tree) /\ c \in Calls /\ Typed(c)
      /\ c.level \in 1..Len(c.path) /\ c.path \in Paths /\ c.path \in Ways
      /\ c.op \in Makers \cup Removers /\ Len(c.path) \in Nat \ {0}
  BY PathsAreWays DEF TypeInv, Typed, Calls
<1>2. c.at \notin Cleans \cup {"isdir"}
  BY <1>1, StepsOfOps DEF Typed
<1>3. Exists(cut) => IsDir(cut)
  BY <1>1 DEF OnItsWay, Exists, IsDir
<1>4. c.at \in {"look", "make"} => Level(c) = cut /\ cut # <<>>
  <2>1. c.op = "Mkdirs" => c.path[1] # Root
    BY DEF Able
  <2>2. c.op = "CreateLog" /\ c.at \in {"look", "make"} => c.path[1] # Root
    BY DEF Able, OnItsWay, WasDir, HasDir
  <2>3. c.at \in {"look", "make"} => Level(c) = cut
    BY <2>1, <2>2 DEF Level, IsMkdirs, Cut
  <2> QED BY <1>1, <2>3, CutsAreWays DEF Cut, Ways
<1>5. c.op \in {"MakeDir", "MkDir"} /\ c.level = 1
        => IsDir(cut) /\ cut \in DOMAIN before
  <2>1. c.op \in {"MakeDir", "MkDir"} => WasDir(<<c.path[1]>>)
    BY DEF Able
  <2>2. c.level = 1 => cut = <<c.path[1]>>
    <3>1. c.path \in Seq(AllNames)
      BY <1>1 DEF Ways
    <3>2. SubSeq(c.path, 1, 1) = <<c.path[1]>>
      BY <1>1, <3>1, FirstCut
    <3> QED BY <3>2 DEF Cut
  <2> QED BY <2>1, <2>2 DEF WasDir, Grown, IsDir, Exists
<1>6. c.at = "make" => cut \notin DOMAIN before
  BY DEF OnItsWay
<1>7. c.at = "make" /\ c.level > 1 => IsDir(Front(cut)) /\ Len(cut) = c.level
  BY <1>1, CutsAreWays DEF OnItsWay, HasDir, IsDir, Exists, Cut
<1>8. c.op \in {"Mkdirs", "MakeDir", "MkDir", "CreateLog"}
  BY DEF Makers
<1> HIDE DEF c, cut, log
<1>9. CASE Advance(p)
  <2>1. c.at = "advance" /\ tree' = tree /\ Down(p)
    BY <1>9 DEF Advance, At, c
  <2>2. c.level = 1 /\ c.op = "MakeDir"
    BY <1>1, <2>1, StepsOfOps DEF Typed
  <2> QED BY <1>5, <2>1, <2>2 DEF AbleStep, c, cut
<1>10. CASE Look(p)
  <2>1. c.at = "look" /\ tree' = tree
    BY <1>10 DEF Look, At, c
  <2>2. IF IsDir(cut) THEN Down(p) ELSE Goto(p, "make")
    BY <1>3, <1>4, <1>10, <2>1 DEF Look, c
  <2> QED BY <1>3, <2>1, <2>2 DEF AbleStep, c, cut
<1>11. CASE Make(p)
  <2>1. c.at = "make"
    BY <1>11 DEF Make, At, c
  <2>2. c.op = "MkDir" => c.level # 1
    BY <1>5, <1>6, <2>1
  <2>3. Level(c) = cut /\ cut # <<>>
    BY <1>4, <2>1
  <2>4. ~(Len(cut) > 1 /\ ~IsDir(Front(cut)))
    <3>1. CASE c.level > 1
      BY <1>7, <2>1, <3>1
    <3>2. CASE ~(c.level > 1)
      <4>1. Len(cut) = c.level
        BY <1>1, CutsAreWays DEF Cut, cut
      <4> QED BY <3>2, <4>1
    <3> QED BY <3>1, <3>2
  <2>5. \/ ~Exists(cut) /\ Adds(cut, "dir") /\ Down(p)
        \/ Exists(cut) /\ End(p, FALSE) /\ tree' = tree
    BY <1>11, <2>2, <2>3, <2>4 DEF Make, c
  <2> QED BY <2>1, <2>5 DEF AbleStep, c, cut
<1>12. CASE OpenDir(p)
  BY <1>12 DEF OpenDir, At, AbleStep
<1>13. CASE OpenFile(p)
  BY <1>13 DEF OpenFile, At, AbleStep, log, c
<1>14. \/ Advance(p) \/ Look(p) \/ Make(p) \/ OpenDir(p) \/ OpenFile(p)
  BY <1>2 DEF Step, IsDirExist, EnterDir, ReadDir, Unlink, LeaveDir, At, Cleans, c
<1> QED BY <1>9, <1>10, <1>11, <1>12, <1>13, <1>14 DEF c, cut, log

LEMMA AbleGoesOn ==
  ASSUME TypeInv, Grown, NEW p \in Processes, call[p].op \in Makers,
         Able(call[p]), OnItsWay(call[p], before, tree), Step(p)
  PROVE  OnItsWay(call'[p], before, tree')
<1> DEFINE c == call[p]
           d == call'[p]
           cut == Cut(c, c.level)
           log == Append(c.path, LogName)
<1>1. /\ IsTree(tree) /\ call \in [Processes -> Calls] /\ c \in Calls /\ Typed(c)
      /\ c.level \in 1..Len(c.path) /\ c.path \in Paths /\ c.path \in Ways
      /\ c.op \in Makers \cup Removers /\ Len(c.path) \in Nat \ {0}
  BY PathsAreWays DEF TypeInv, Typed, Calls
<1>2. AbleStep(p, cut, log)
  BY AbleMaker
<1>3. d.op = c.op /\ d.path = c.path
  BY StepTyped DEF OneStep, OneCall
<1>4. cut \in Ways /\ Last(cut) # LogName
  BY <1>1, CutsAreWays DEF Cut
<1>5. Grows(tree, tree') /\ OnItsWay(c, before, tree')
  BY <1>1, MakerGrows, GrowsOnItsWay
<1> DEFINE Clear == \A n \in 1..Len(d.path) : Cut(d, n) \in DOMAIN tree'
                                                => tree'[Cut(d, n)] = "dir"
<1>6. Clear
  BY <1>3, <1>5 DEF OnItsWay, Cut
<1>7. \A n : Cut(d, n) = Cut(c, n)
  BY <1>3 DEF Cut
<1> HIDE DEF c, d, cut, log
<1>8. ASSUME d.at \in {"fopen", "done"} PROVE OnItsWay(d, before, tree')
  BY <1>6, <1>8 DEF OnItsWay
<1>9. ASSUME Down(p), HasDir(tree', cut), c.at \in {"advance", "look", "make"}
      PROVE  OnItsWay(d, before, tree')
  <2>1. CASE d.at \in {"fopen", "done"}
    BY <1>8, <2>1
  <2>2. CASE d.at = "look" /\ d.level = c.level + 1
    <3>1. d.level - 1 = c.level
      BY <1>1, <2>2
    <3>2. HasDir(tree', Cut(d, d.level - 1))
      BY <1>7, <1>9, <3>1 DEF cut
    <3>3. c.op = "CreateLog" => c.at # "advance"
      BY <1>1, StepsOfOps DEF Typed
    <3>4. d.op = "CreateLog" => ~HasDir(before, d.path)
      BY <1>3, <1>5, <1>9, <3>3 DEF OnItsWay
    <3> QED BY <1>6, <2>2, <3>2, <3>4 DEF OnItsWay
  <2> QED BY <1>1, <1>9, <2>1, <2>2, DownOne DEF c, d
<1>10. ASSUME NEW q, IsDir(q) PROVE HasDir(tree', q)
  BY <1>5, <1>10 DEF IsDir, Exists, Grows, HasDir
<1>11. CASE /\ c.at \in {"advance", "look"} /\ IsDir(cut) /\ Down(p)
  BY <1>9, <1>10, <1>11 DEF d
<1>12. CASE c.at = "look" /\ tree' = tree /\ ~Exists(cut) /\ Goto(p, "make")
  <2>1. d.at = "make" /\ d.level = c.level
    BY <1>1, <1>12, GotoOne DEF Steps, c, d
  <2>2. Cut(d, d.level) \notin DOMAIN before
    BY <1>7, <1>12, <2>1 DEF Grown, Exists, cut
  <2>3. d.level > 1 => HasDir(tree', Cut(d, d.level - 1))
    BY <1>5, <1>7, <1>12, <2>1 DEF OnItsWay
  <2>4. d.op = "CreateLog" => ~HasDir(before, d.path)
    BY <1>3, <1>5, <1>12 DEF OnItsWay
  <2> QED BY <1>6, <2>1, <2>2, <2>3, <2>4 DEF OnItsWay, d
<1>13. CASE c.at = "make" /\ ~Exists(cut) /\ Adds(cut, "dir") /\ Down(p)
  <2>1. HasDir(tree', cut)
    BY <1>1, <1>4, <1>13, AddsToTree DEF Kinds, HasDir
  <2> QED BY <1>9, <1>13, <2>1 DEF d
<1>14. CASE End(p, FALSE)
  BY <1>1, <1>8, <1>14, EndOne DEF c, d
<1>15. CASE Goto(p, "fopen")
  BY <1>1, <1>8, <1>15, GotoOne DEF Steps, c, d
<1>16. CASE c.at = "opendir" /\ ~IsDir(c.path) /\ Goto(p, "look")
  <2>1. d.at = "look" /\ d.level = 1
    BY <1>1, <1>16, GotoOne DEF Steps, Typed, c, d
  <2>2. ~HasDir(before, d.path)
    BY <1>3, <1>16 DEF Grown, IsDir, Exists, HasDir
  <2> QED BY <1>6, <2>1, <2>2 DEF OnItsWay, d
<1>17. CASE Return(p, TRUE) \/ Return(p, FALSE)
  BY <1>1, <1>8, <1>17, ReturnOne DEF c, d
<1> QED BY <1>2, <1>11, <1>12, <1>13, <1>14, <1>15, <1>16, <1>17 DEF AbleStep, c, d, cut, log

(* Who has made the longest directory does not fail, and who makes a       *)
(* longer one takes its place.                                             *)
LEMMA SomeoneSucceeds ==
  ASSUME TypeInv, Grown, Making, AllAble,
         \A r \in Processes : OnItsWay(call[r], before, tree),
         NEW w \in Processes, Succeeds(call[w], before, tree),
         NEW p \in Processes, Step(p)
  PROVE  \E v \in Processes : Succeeds(call'[v], before, tree')
<1> DEFINE c == call[p]
           d == call'[p]
           cut == Cut(c, c.level)
           log == Append(c.path, LogName)
           New(t) == {q \in DOMAIN t \ DOMAIN before : t[q] = "dir"}
<1>1. /\ IsTree(tree) /\ call \in [Processes -> Calls] /\ c \in Calls /\ Typed(c)
      /\ c.level \in 1..Len(c.path) /\ c.path \in Paths /\ c.path \in Ways
      /\ c.op \in Makers /\ Len(c.path) \in Nat \ {0} /\ OnItsWay(c, before, tree)
  BY PathsAreWays DEF TypeInv, Typed, Calls, Making
<1>2. AbleStep(p, cut, log)
  BY AbleMaker DEF Making, AllAble
<1>3. d.op = c.op /\ d.path = c.path /\ \A r \in Processes \ {p} : call'[r] = call[r]
  BY StepTyped DEF OneStep, OneCall
<1>4. cut \in Ways /\ Last(cut) # LogName /\ Len(cut) = c.level
  BY <1>1, CutsAreWays DEF Cut
<1>5. log \in Ways /\ Last(log) = LogName
  BY <1>1, LogIsWay
<1>6. Grows(tree, tree')
  BY MakerGrows DEF Making
<1>7. c.level = Len(c.path) => cut = c.path
  BY <1>1, SubSeqFull DEF Ways, Cut
<1>8. \A q \in DOMAIN tree : Len(q) \in Nat
  BY EmptySeq DEF IsTree, Ways
<1>9. /\ Passed(call[w]) \in Nat
      /\ \A q \in New(tree) : Len(q) <= Passed(call[w])
  <2>1. /\ call[w].level \in 1..Len(call[w].path)
        /\ Len(call[w].path) \in Nat
    BY PathsAreWays DEF TypeInv, Typed, Calls
  <2> QED BY <2>1 DEF Passed, Succeeds
<1> HIDE DEF c, d, cut, log
(* Another's success stands, as long as nothing longer is made.            *)
<1>10. ASSUME w # p, \A q \in New(tree') : Len(q) <= Passed(call[w])
       PROVE  Succeeds(call'[w], before, tree')
  BY <1>3, <1>6, <1>10 DEF Succeeds, HasDir, Grows
<1>11. ASSUME Down(p), HasDir(tree', cut), c.at \in {"advance", "look", "make"},
              \A q \in New(tree') : Len(q) <= c.level
       PROVE  Succeeds(d, before, tree')
  <2>1. \/ /\ d.at = "look" /\ d.level = c.level + 1
        \/ /\ c.level = Len(c.path)
           /\ d.at = "fopen" \/ d.at = "done"
    BY <1>1, <1>11, DownOne DEF c, d
  <2>2. Passed(d) = c.level
    BY <1>1, <1>3, <2>1 DEF Passed
  <2>3. d.at = "fopen" => HasDir(tree', d.path)
    BY <1>3, <1>7, <1>11, <2>1
  <2>4. d.at = "done" => d.result
    BY <1>1, <1>11, DownOne DEF c, d
  <2> QED BY <1>11, <2>1, <2>2, <2>3, <2>4 DEF Succeeds
<1>12. ASSUME w = p PROVE \A q \in New(tree) : Len(q) <= Passed(c)
  BY <1>9, <1>12 DEF c
<1>13. Passed(c) <= c.level \/ c.at \in {"fopen", "done"}
  BY <1>1 DEF Passed
<1>14. CASE c.at \in {"advance", "look"} /\ tree' = tree /\ IsDir(cut) /\ Down(p)
  <2>1. CASE w = p
    <3>1. \A q \in New(tree') : Len(q) <= c.level
      BY <1>1, <1>8, <1>12, <1>14, <2>1 DEF Passed
    <3> QED BY <1>11, <1>14, <3>1 DEF IsDir, Exists, HasDir, d
  <2>2. CASE w # p
    BY <1>9, <1>10, <1>14, <2>2
  <2> QED BY <2>1, <2>2
<1>15. CASE c.at = "look" /\ tree' = tree /\ Goto(p, "make")
  <2>1. CASE w = p
    <3>1. d.at = "make" /\ d.level = c.level
      BY <1>1, <1>15, GotoOne DEF Steps, c, d
    <3> QED BY <1>12, <1>15, <2>1, <3>1 DEF Succeeds, Passed, d
  <2>2. CASE w # p
    BY <1>9, <1>10, <1>15, <2>2
  <2> QED BY <2>1, <2>2
<1>16. CASE c.at = "make" /\ ~Exists(cut) /\ Adds(cut, "dir") /\ Down(p)
  <2>1. DOMAIN tree' = DOMAIN tree \cup {cut} /\ HasDir(tree', cut)
        /\ \A q \in DOMAIN tree : tree'[q] = tree[q]
    BY <1>1, <1>4, <1>16, AddsToTree DEF Kinds, HasDir
  <2>2. New(tree') \subseteq New(tree) \cup {cut}
    BY <2>1
  <2>3. CASE w # p /\ c.level <= Passed(call[w])
    BY <1>4, <1>9, <1>10, <2>2, <2>3
  <2>4. CASE w = p \/ ~(c.level <= Passed(call[w]))
    <3>1. Passed(c) = c.level - 1
      BY <1>16 DEF Passed
    <3>2. Passed(call[w]) <= c.level
      BY <1>1, <1>9, <2>4, <3>1 DEF c
    <3>3. \A q \in New(tree') : Len(q) <= c.level
      BY <1>1, <1>4, <1>8, <1>9, <2>2, <3>2
    <3> QED BY <1>11, <1>16, <2>1, <3>3 DEF d
  <2> QED BY <2>3, <2>4
<1>17. CASE c.at = "make" /\ tree' = tree /\ Exists(cut) /\ End(p, FALSE)
  (* What is in its way was made, and by none but itself.                  *)
  <2>1. cut \in New(tree)
    BY <1>1, <1>17 DEF OnItsWay, Exists, cut
  <2>2. w # p
    <3>1. Passed(c) = c.level - 1
      BY <1>17 DEF Passed
    <3> QED BY <1>1, <1>4, <1>12, <2>1, <3>1
  <2> QED BY <1>9, <1>10, <1>17, <2>2
<1>18. CASE c.at = "opendir" /\ tree' = tree /\ IsDir(c.path) /\ Goto(p, "fopen")
  <2>1. CASE w = p
    <3>1. d.at = "fopen" /\ Passed(d) = Len(c.path)
      BY <1>1, <1>3, <1>18, GotoOne DEF Steps, Passed, c, d
    <3>2. \A q \in New(tree') : Len(q) <= Passed(d)
      BY <1>1, <1>8, <1>12, <1>18, <2>1, <3>1 DEF Passed
    <3> QED BY <1>3, <1>18, <3>1, <3>2 DEF Succeeds, IsDir, Exists, HasDir, d
  <2>2. CASE w # p
    BY <1>9, <1>10, <1>18, <2>2
  <2> QED BY <2>1, <2>2
<1>19. CASE c.at = "opendir" /\ tree' = tree /\ Goto(p, "look")
  <2>1. CASE w = p
    <3>1. d.at = "look" /\ d.level = c.level
      BY <1>1, <1>19, GotoOne DEF Steps, c, d
    <3> QED BY <1>12, <1>19, <2>1, <3>1 DEF Succeeds, Passed, d
  <2>2. CASE w # p
    BY <1>9, <1>10, <1>19, <2>2
  <2> QED BY <2>1, <2>2
<1>20. CASE c.at = "fopen" /\ Adds(log, "file") /\ Return(p, TRUE)
  <2>1. DOMAIN tree' = DOMAIN tree \cup {log} /\ tree'[log] = "file"
        /\ \A q \in DOMAIN tree : tree'[q] = tree[q]
    BY <1>1, <1>5, <1>20, AddsToTree DEF Kinds
  <2>2. New(tree') \subseteq New(tree)
    BY <2>1
  <2>3. CASE w = p
    <3>1. d.at = "done" /\ d.result /\ Passed(d) = Len(c.path)
      BY <1>1, <1>3, <1>20, ReturnOne DEF Passed, c, d
    <3>2. \A q \in New(tree') : Len(q) <= Passed(d)
      BY <1>12, <1>20, <2>2, <2>3, <3>1 DEF Passed
    <3> QED BY <3>1, <3>2 DEF Succeeds, d
  <2>4. CASE w # p
    BY <1>9, <1>10, <2>2, <2>4
  <2> QED BY <2>3, <2>4
<1>21. CASE c.at = "fopen" /\ tree' = tree /\ ~IsDir(c.path) /\ Return(p, FALSE)
  <2>1. w # p
    BY <1>21 DEF Succeeds, HasDir, IsDir, Exists, c
  <2> QED BY <1>9, <1>10, <1>21, <2>1
<1> QED BY <1>2, <1>14, <1>15, <1>16, <1>17, <1>18, <1>19, <1>20, <1>21
    DEF AbleStep, c, cut, log

LEMMA StepMakers ==
  TypeInv /\ Making /\ MakersInv /\ [Next]_vars => MakersInv'
<1> SUFFICES ASSUME TypeInv, Making, MakersInv, [Next]_vars PROVE MakersInv'
  OBVIOUS
<1>1. CASE UNCHANGED vars
  BY <1>1 DEF vars, MakersInv, Grown, MadeIsThere, Exists, AllAble, Able, WasDir
<1>2. CASE Next
  <2>1. PICK p \in Processes : Step(p)
    BY <1>2 DEF Next
  <2>2. /\ before' = before
        /\ call'[p].op = call[p].op /\ call'[p].path = call[p].path
        /\ \A r \in Processes \ {p} : call'[r] = call[r]
    BY <2>1, StepTyped DEF OneStep, OneCall
  <2>3. \A r \in Processes : call'[r].op = call[r].op /\ call'[r].path = call[r].path
    BY <2>2
  <2>4. /\ Grows(tree, tree')
        /\ call'[p].result /\ ~(call[p].op = "MakeDir" /\ Len(call[p].path) = 1)
             => call[p].path \in DOMAIN tree'
    BY <2>1, MakerGrows DEF Making
  <2>5. Grown'
    BY <2>2, <2>4 DEF MakersInv, Grown, Grows
  <2>6. MadeIsThere'
    <3>1. ASSUME NEW r \in Processes, call'[r].result,
                 ~(call'[r].op = "MakeDir" /\ Len(call'[r].path) = 1)
          PROVE  call'[r].path \in DOMAIN tree'
      <4>1. CASE r = p
        BY <2>3, <2>4, <3>1, <4>1
      <4>2. CASE r # p
        <5>1. call[r].path \in DOMAIN tree
          BY <2>2, <3>1, <4>2 DEF MakersInv, MadeIsThere, Exists
        <5> QED BY <2>3, <2>4, <5>1 DEF Grows
      <4> QED BY <4>1, <4>2
    <3> QED BY <3>1 DEF MadeIsThere, Exists
  <2>7. ASSUME AllAble'
        PROVE  /\ \A r \in Processes : OnItsWay(call'[r], before', tree')
               /\ \E r \in Processes : Succeeds(call'[r], before', tree')
    <3>1. AllAble
      <4>1. ASSUME NEW r \in Processes PROVE Able(call[r])
        <5>1. Able(call[r])'
          BY <2>7 DEF AllAble
        <5> QED BY <2>2, <2>3, <5>1 DEF Able, WasDir
      <4> QED BY <4>1 DEF AllAble
    <3>2. \A r \in Processes : OnItsWay(call[r], before, tree)
      BY <3>1 DEF MakersInv
    <3>3. ASSUME NEW r \in Processes PROVE OnItsWay(call'[r], before', tree')
      <4>1. CASE r = p
        BY <2>1, <2>2, <3>1, <3>2, <4>1, AbleGoesOn DEF Making, MakersInv, AllAble
      <4>2. CASE r # p
        <5>1. call[r] \in Calls
          BY DEF TypeInv
        <5> QED BY <2>2, <2>4, <3>2, <4>2, <5>1, GrowsOnItsWay
      <4> QED BY <4>1, <4>2
    <3>4. PICK w \in Processes : Succeeds(call[w], before, tree)
      BY <3>1 DEF MakersInv
    <3>5. \E v \in Processes : Succeeds(call'[v], before, tree')
      BY <2>1, <3>1, <3>2, <3>4, SomeoneSucceeds DEF MakersInv
    <3> QED BY <2>2, <3>3, <3>5
  <2> QED BY <2>5, <2>6, <2>7 DEF MakersInv
<1> QED BY <1>1, <1>2

-----------------------------------------------------------------------------
(* Both, and what the calls promise.                                       *)

Inv ==
  /\ TypeInv
  /\ Making => MakersInv
  /\ Removing => RemoversInv

LEMMA InitInv ==
  Init => Inv
BY InitTyped, InitMakers, InitRemovers DEF Inv

LEMMA StepInv ==
  Inv /\ [Next]_vars => Inv'
<1> SUFFICES ASSUME Inv, [Next]_vars PROVE Inv'
  OBVIOUS
<1>1. \A r \in Processes : call'[r].op = call[r].op
  <2>1. CASE UNCHANGED vars
    BY <2>1 DEF vars
  <2>2. CASE Next
    <3>1. PICK p \in Processes : Step(p)
      BY <2>2 DEF Next
    <3> QED BY <3>1, StepTyped DEF Inv, OneStep, OneCall
  <2> QED BY <2>1, <2>2
<1>2. (Making' <=> Making) /\ (Removing' <=> Removing)
  BY <1>1 DEF Making, Removing
<1> QED BY <1>2, StepKeepsTypes, StepMakers, StepRemovers DEF Inv

LEMMA InvDelivers ==
  Inv => CallsDeliver
<1> SUFFICES ASSUME Inv PROVE CallsDeliver
  OBVIOUS
<1>1. ASSUME Ended(Makers) PROVE MadeIsThere /\ SomeMakerSucceeds
  <2>1. MakersInv
    BY <1>1 DEF Inv, Making, Ended
  <2>2. ASSUME AllAble PROVE \E p \in Processes : call[p].result
    <3>1. PICK w \in Processes : Succeeds(call[w], before, tree)
      BY <2>1, <2>2 DEF MakersInv
    <3> QED BY <1>1, <3>1 DEF Succeeds, Ended, At
  <2> QED BY <2>1, <2>2 DEF MakersInv, SomeMakerSucceeds, AllAble
<1>2. ASSUME Ended(Removers) PROVE RemovedIsGone
  <2>1. Removing
    BY <1>2 DEF Removing, Ended
  <2> QED BY <1>2, <2>1, NothingStays DEF Inv
<1> QED BY <1>1, <1>2 DEF CallsDeliver

(* Makers among themselves, and removers among themselves, do what they    *)
(* promise, however many there are, whatever their paths and whatever is   *)
(* there before, at every interleaving of their system calls               *)
(* (LogFile.cpp:107, 295-322, CommonFunc.cpp:75-139, 207-285,              *)
(* LogManager.cpp:283-319).                                                *)
THEOREM CallsAlwaysDeliver == Spec => []CallsDeliver
<1>1. Spec => []Inv
  BY InitInv, StepInv, PTL DEF Spec
<1> QED BY <1>1, InvDelivers, PTL
=============================================================================
