------------------------------ MODULE MCDualFS ------------------------------
(***************************************************************************)
(* Model-checking parameters of DualFS.                                    *)
(***************************************************************************)
EXTENDS DualFS, TLC

Symmetry ==
  Permutations(File) \cup Permutations(Literal) \cup Permutations(Source)

\* where every process is strict
SymmetryOfAll == Symmetry \cup Permutations(Process)

===========================================================================
