--------------------------- MODULE MCPolicyManager ---------------------------
(***************************************************************************)
(* Model-checking parameters of PolicyManager.                             *)
(***************************************************************************)
EXTENDS PolicyManager, TLC

CONSTANTS dir, sub, f1, f2

Symmetry == Permutations(Text)

\* sub is a directory in dir.
Nested == [e \in {dir, sub} |-> IF e = dir THEN {f1, f2} ELSE {f2}]

===========================================================================
