------------------------------ MODULE Directories ------------------------------
(***************************************************************************)
(* Several processes make and remove directories under the same place, a   *)
(* system call at a time: Mkdirs and CreateLog of CFileCtrl, MakeDir,      *)
(* RemoveDir and CleanDir of CommonFunc, MkDir of LogManager.  Each        *)
(* process makes one call.                                                 *)
(*                                                                         *)
(* A path is the sequence of its names.  An absolute one begins with Root, *)
(* which is there; all others begin in the working directory.  Looking     *)
(* twice at one path in a row is one step.  A system call fails only for   *)
(* what is there or missing: permissions and symbolic links are left out.  *)
(***************************************************************************)
EXTENDS Naturals, Sequences, FiniteSets, SequencesExt, Functions

CONSTANTS
  Processes,
  Root,         (* the name of /                                            *)
  LogName,      (* the name of a log file                                   *)
  Paths,        (* the paths of the calls                                   *)
  Trees         (* what may be there before, as functions to Kinds          *)

Kinds == {"dir", "file"}

Names == UNION {Range(q) : q \in Paths \cup UNION {DOMAIN t : t \in Trees}}

(* What is in a directory is nowhere without it.  A log's name is made of  *)
(* the time, and no directory is called so.  No call is for / alone, which *)
(* Mkdirs and IsDirExist cut to the empty text.                            *)
ASSUME DirectoryAssumption ==
  /\ Processes # {}
  /\ \A path \in Paths :
       /\ path \in Seq(Names) /\ path \notin {<<>>, <<Root>>}
       /\ LogName \notin Range(path)
  /\ \A t \in Trees :
       /\ <<Root>> \in DOMAIN t /\ t \in [DOMAIN t -> Kinds]
       /\ \A q \in DOMAIN t :
            /\ q \in Seq(Names) /\ q # <<>>
            /\ Len(q) > 1 => Front(q) \in DOMAIN t /\ t[Front(q)] = "dir"
            /\ Last(q) = LogName => t[q] = "file"

VARIABLES
  before, tree,     (* what was there, and what is                          *)
  call              (* what each process does                               *)

vars == <<before, tree, call>>

(* A new file, or an old one that is emptied.                              *)
Adds(path, kind) ==
  tree' = [q \in DOMAIN tree \cup {path} |-> IF q = path THEN kind ELSE tree[q]]
Removes(path) == tree' = Restrict(tree, DOMAIN tree \ {path})

Makers == {"Mkdirs", "MakeDir", "MkDir", "CreateLog"}
Removers == {"RemoveDir", "CleanDir"}

Exists(path) == path \in DOMAIN tree
IsDir(path) == Exists(path) /\ tree[path] = "dir"
Children(path) ==
  {Last(q) : q \in {r \in DOMAIN tree : Len(r) = Len(path) + 1 /\ Front(r) = path}}

(* MakeDir does not look at the first level.                               *)
FirstStep(op) ==
  CASE op \in {"Mkdirs", "MkDir"} -> "look" [] op = "MakeDir" -> "advance"
    [] op = "CreateLog" -> "opendir" [] op \in Removers -> "isdir"

Init ==
  /\ before \in Trees /\ tree = before
  /\ \E op \in [Processes -> Makers \cup Removers], path \in [Processes -> Paths] :
       call = [p \in Processes |->
                 [op |-> op[p], path |-> path[p], at |-> FirstStep(op[p]),
                  level |-> 1, stack |-> <<>>, sub |-> <<>>, result |-> FALSE]]

At(p, step) == call[p].at = step
Becomes(p, c) == call' = [call EXCEPT ![p] = c]
Goto(p, step) == Becomes(p, [call[p] EXCEPT !.at = step])
Return(p, result) == Becomes(p, [call[p] EXCEPT !.at = "done", !.result = result])

-----------------------------------------------------------------------------
(* The makers go down the path.  Mkdirs cuts an absolute one at its first  *)
(* slash too, which leaves the empty text.                                 *)
IsMkdirs(c) == c.op \in {"Mkdirs", "CreateLog"}
Level(c) ==
  IF IsMkdirs(c) /\ c.level = 1 /\ c.path[1] = Root
    THEN <<>> ELSE SubSeq(c.path, 1, c.level)

(* CreateLog goes on to its file whatever has become of the directory.     *)
End(p, result) ==
  IF call[p].op = "CreateLog" THEN Goto(p, "fopen") ELSE Return(p, result)

Down(p) ==
  IF call[p].level = Len(call[p].path) THEN End(p, TRUE)
  ELSE Becomes(p, [call[p] EXCEPT !.level = @ + 1, !.at = "look"])

Advance(p) == At(p, "advance") /\ Down(p) /\ UNCHANGED <<before, tree>>

(* Mutant: mkdir without a look.                                           *)
LookNot(p) == At(p, "look") /\ Goto(p, "make") /\ UNCHANGED <<before, tree>>

(* Mkdirs takes whatever is there, the others a directory; MkDir gives up  *)
(* when there is something else.                                           *)
Look(p) ==
  /\ At(p, "look")
  /\ LET level == Level(call[p])
     IN IF IsDir(level) \/ (IsMkdirs(call[p]) /\ Exists(level)) THEN Down(p)
        ELSE IF call[p].op = "MkDir" /\ Exists(level) THEN Return(p, FALSE)
        ELSE Goto(p, "make")
  /\ UNCHANGED <<before, tree>>

(* mkdir.  MkDir then tests a mode that stat has not filled in: that of    *)
(* the level before, or, at the first one, whatever is on the stack.       *)
Make(p) ==
  /\ At(p, "make")
  /\ LET level == Level(call[p])
     IN \/ /\ level # <<>> /\ ~Exists(level)
           /\ Len(level) = 1 \/ IsDir(Front(level))
           /\ Adds(level, "dir") /\ UNCHANGED before
           /\ \/ Down(p)
              \/ call[p].op = "MkDir" /\ call[p].level = 1 /\ Return(p, FALSE)
        \/ /\ level = <<>> \/ Exists(level) \/ (Len(level) > 1 /\ ~IsDir(Front(level)))
           /\ End(p, FALSE)
           /\ UNCHANGED <<before, tree>>

OpenDir(p) ==
  /\ At(p, "opendir")
  /\ Goto(p, IF IsDir(call[p].path) THEN "fopen" ELSE "look")
  /\ UNCHANGED <<before, tree>>

OpenFile(p) ==
  /\ At(p, "fopen")
  /\ \/ /\ IsDir(call[p].path)
        /\ Adds(Append(call[p].path, LogName), "file") /\ UNCHANGED before
        /\ Return(p, TRUE)
     \/ ~IsDir(call[p].path) /\ Return(p, FALSE) /\ UNCHANGED <<before, tree>>

-----------------------------------------------------------------------------
(* The removers go down with a stack of the directories they are in, each  *)
(* with the names still to be read from it.                                *)
Top(p) == Last(call[p].stack)
Enter(p, path) ==
  Becomes(p, [call[p] EXCEPT !.at = "enter", !.stack = Append(@, [path |-> path, left |-> {}])])
Without(p, name) ==
  [call[p] EXCEPT !.at = "read", !.stack[Len(call[p].stack)].left = @ \ {name}]

IsDirExist(p) ==
  /\ At(p, "isdir")
  /\ IF IsDir(call[p].path) THEN Enter(p, call[p].path) ELSE Return(p, FALSE)
  /\ UNCHANGED <<before, tree>>

(* opendir.  Names added later are not read.                               *)
EnterDir(p) ==
  /\ At(p, "enter")
  /\ LET left == IF IsDir(Top(p).path) THEN Children(Top(p).path) ELSE {}
     IN Becomes(p, [call[p] EXCEPT !.at = "read", !.stack[Len(call[p].stack)].left = left,
                                   !.result = IsDir(Top(p).path)])
  /\ UNCHANGED <<before, tree>>

ReadDir(p) ==
  /\ At(p, "read")
  /\ \E name \in Top(p).left :
       LET sub == Append(Top(p).path, name)
           c == Without(p, name)
       IN IF IsDir(sub)
            THEN Becomes(p, [c EXCEPT !.at = "enter",
                                      !.stack = Append(@, [path |-> sub, left |-> {}])])
            ELSE Becomes(p, IF Exists(sub) THEN [c EXCEPT !.at = "unlink", !.sub = sub]
                                           ELSE c)
  /\ UNCHANGED <<before, tree>>

(* What remove and rmdir of a sub path give is not looked at.              *)
Unlink(p) ==
  /\ At(p, "unlink")
  /\ IF Exists(call[p].sub) /\ ~IsDir(call[p].sub)
       THEN Removes(call[p].sub) ELSE UNCHANGED tree
  /\ Goto(p, "read") /\ UNCHANGED before

(* CleanDir leaves its own directory there.                                *)
LeaveDir(p) ==
  /\ At(p, "read") /\ Top(p).left = {} /\ UNCHANGED before
  /\ LET path == Top(p).path
         last == Len(call[p].stack) = 1
         removed == IsDir(path) /\ Children(path) = {}
     IN IF last /\ call[p].op = "CleanDir"
          THEN Return(p, call[p].result) /\ UNCHANGED tree
          ELSE /\ IF removed THEN Removes(path) ELSE UNCHANGED tree
               /\ IF last THEN Return(p, removed)
                  ELSE Becomes(p, [call[p] EXCEPT !.stack = Front(@)])

Step(p) ==
  \/ Advance(p) \/ Look(p) \/ Make(p) \/ OpenDir(p) \/ OpenFile(p)
  \/ IsDirExist(p) \/ EnterDir(p) \/ ReadDir(p) \/ Unlink(p) \/ LeaveDir(p)

Next == \E p \in Processes : Step(p)

Spec == Init /\ [][Next]_vars

-----------------------------------------------------------------------------
(* Properties.                                                             *)

WasDir(path) == path \in DOMAIN before /\ before[path] = "dir"
Ended(ops) == \A p \in Processes : At(p, "done") /\ call[p].op \in ops

(* Where nothing but missing levels is in the way.  The first level must   *)
(* be there for MakeDir and MkDir, and an absolute path for CreateLog;     *)
(* Mkdirs makes none.                                                      *)
Able(c) ==
  /\ \A n \in 1..Len(c.path) :
       SubSeq(c.path, 1, n) \in DOMAIN before => WasDir(SubSeq(c.path, 1, n))
  /\ CASE c.op = "Mkdirs" -> c.path[1] # Root
       [] c.op = "CreateLog" -> c.path[1] # Root \/ WasDir(c.path)
       [] OTHER -> WasDir(<<c.path[1]>>)

(* A maker that says so has made its path, but for MakeDir at one level.   *)
MadeIsThere ==
  \A p \in Processes :
    call[p].result /\ ~(call[p].op = "MakeDir" /\ Len(call[p].path) = 1)
      => Exists(call[p].path)

(* However they get in each other's way, the makers do not all fail: who   *)
(* finds a directory made in between gives up, but its maker goes on.      *)
SomeMakerSucceeds ==
  (\A p \in Processes : Able(call[p])) => \E p \in Processes : call[p].result

(* What was there is gone with all that was below it, whoever removed it,  *)
(* unless a file was to be removed as a directory.                         *)
RemovedIsGone ==
  \A p \in Processes :
    \A q \in DOMAIN before :
      WasDir(call[p].path) /\ IsPrefix(call[p].path, q)
        /\ (call[p].op = "CleanDir" => q # call[p].path) => ~Exists(q)

(* Makers among themselves, and removers among themselves, do what they    *)
(* promise at every interleaving of their system calls (LogFile.cpp:107,   *)
(* 295-322, CommonFunc.cpp:75-139, 207-285, LogManager.cpp:283-319).       *)
CallsDeliver ==
  /\ Ended(Makers) => MadeIsThere /\ SomeMakerSucceeds
  /\ Ended(Removers) => RemovedIsGone
=============================================================================
