----------------------------- MODULE MCXdfFile -----------------------------
(***************************************************************************)
(* Instances of XdfFile for TLC: keys are interchangeable, and so are the  *)
(* applications when all of them may write.                                *)
(***************************************************************************)
EXTENDS XdfStore, TLC

SymmetricKeys  == Permutations(Keys)
SymmetricProcs == Permutations(Procs)

=============================================================================
