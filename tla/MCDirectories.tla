------------------------------ MODULE MCDirectories ----------------------------
(* Two levels below one of two places, relative and absolute; nothing      *)
(* there, the first level, both with a file, or a file in the way.         *)
EXTENDS Directories, TLC

Was == <<Root>> :> "dir"
MCPaths == {<<"a">>, <<"a", "b">>, <<"a", "c">>, <<Root, "a", "b">>}
MCTrees ==
  {Was, Was @@ (<<"a">> :> "dir"), Was @@ (<<"a">> :> "file"),
   Was @@ (<<"a">> :> "dir") @@ (<<"a", "b">> :> "dir") @@ (<<"a", "b", "f">> :> "file")
     @@ (<<"a", "d">> :> "file") @@ (<<Root, "a">> :> "dir")}

Symmetry == Permutations(Processes)
=============================================================================
