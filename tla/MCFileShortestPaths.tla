------------------------ MODULE MCFileShortestPaths ------------------------
(* Small instances of FileShortestPaths. *)
EXTENDS FileShortestPaths, TLC

(* Two threads insert, one after the other: 0 -> 1 -> 2. *)
Path == {(<<0, 1>> :> 1) @@ (<<1, 2>> :> 1)}
=============================================================================
