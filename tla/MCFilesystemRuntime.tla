------------------------- MODULE MCFilesystemRuntime -------------------------
(***************************************************************************)
(* Model-checking parameters of FilesystemRuntime and CommitLock.          *)
(***************************************************************************)
EXTENDS FilesystemRuntime

CONSTANT First  \* the process that gets two calls, the others get one

Calls == [p \in Process |-> IF p = First THEN 2 ELSE 1]

===========================================================================
