------------------------------- MODULE MCVmm -------------------------------
(***************************************************************************)
(* Two sets of variables for the memory manager.  Arena: "d", two short   *)
(* slices that are saved, and "b", one long slice that is not.  File: "a"  *)
(* (MUSTEXIST) and "b" (two slices), both saved.                           *)
(***************************************************************************)
EXTENDS Vmm, TLC

ArenaVarOf  == ("b1" :> "b") @@ ("d1" :> "d") @@ ("d2" :> "d")
ArenaPiece  == ("b1" :> 0) @@ ("d1" :> 0) @@ ("d2" :> 1)
ArenaLength == ("b" :> 4) @@ ("d" :> 2)
ArenaWeight == ("b" :> 2) @@ ("d" :> 1)

FileVarOf  == ("a1" :> "a") @@ ("b1" :> "b") @@ ("b2" :> "b")
FilePiece  == ("a1" :> 0) @@ ("b1" :> 0) @@ ("b2" :> 1)
FileLength == ("a" :> 2) @@ ("b" :> 2)
FileWeight == ("a" :> 1) @@ ("b" :> 1)
=============================================================================
