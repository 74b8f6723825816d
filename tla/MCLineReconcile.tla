-------------------------- MODULE MCLineReconcile --------------------------
(***************************************************************************)
(* Model-checking parameters of LineReconcile: texts with one or two       *)
(* multi-line symbols among literal lines, each symbol used once.          *)
(***************************************************************************)
EXTENDS LineReconcile, TLC

CONSTANTS d1, d2, o1

Heights == d1 :> 3 @@ d2 :> 1

A == SymbolOf(d1, 1, 3)
B == SymbolOf(d2, 1, 1)

SingleUse == {<<A>>, <<o1, A>>, <<A, B>>, <<B, o1, o1>>}

\* A text with a symbol that is not a line of its own
Inline == [beside |-> "text", symbol |-> B]

InlineUse == {<<o1, Inline>>}

\* What the theorems about LineReconcile suppose holds of the texts of the run
\* that passes.
ASSUME SuppositionsHold ==
  Documents = SingleUse => EachBare /\ EachUsedOnce /\ EachCoarse

===========================================================================
