------------------------------- MODULE Mutex -------------------------------
(***************************************************************************)
(* What a lock promises: one holder, who alone gives it up.                *)
(***************************************************************************)
CONSTANTS Process, Nobody

VARIABLE holder

Init == holder = Nobody

Take(p) == holder = Nobody /\ holder' = p

Give(p) == holder = p /\ holder' = Nobody

Next == \E p \in Process : Take(p) \/ Give(p)

Spec == Init /\ [][Next]_holder

===========================================================================
