--------------------------- MODULE MCSymbolTable ---------------------------
(***************************************************************************)
(* Model-checking parameters of SymbolTable.                               *)
(***************************************************************************)
EXTENDS SymbolTable, TLC

Symmetry ==
  Permutations(Process) \cup Permutations(Name) \cup Permutations(Value)

===========================================================================
