----------------------------- MODULE MCFixedMode -----------------------------
(***************************************************************************)
(* Model-checking parameters of FixedMode: one file behind a symbol, which *)
(* the tools delete, and one that is not there until they or the user make *)
(* it.                                                                     *)
(***************************************************************************)
EXTENDS FixedMode, TLC

CONSTANTS l1, u1, f1, f2

Saved == {l1}
Written == (f1 :> {Absent}) @@ (f2 :> {[symbol |-> u1]})
Views == (f1 :> [symbol |-> u1]) @@ (f2 :> Absent)

===========================================================================
