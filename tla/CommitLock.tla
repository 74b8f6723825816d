----------------------------- MODULE CommitLock -----------------------------
(***************************************************************************)
(* commit.lock, the directory by which the handlers of all processes keep  *)
(* each other out: acquireLock and releaseLock (dualview-git.ts, with      *)
(* copies of its own in dualview-filecommit-ondemand.ts and                *)
(* dualview-human-edit.ts).  mkdir takes it or fails, and who fails does   *)
(* not wait; a directory older than LOCK_STALE_MS is removed by whoever    *)
(* comes; rmdir gives it up, whoever made it.  A process that crashes      *)
(* leaves it behind.                                                       *)
(***************************************************************************)
EXTENDS Naturals

CONSTANTS
  Process,     \* the processes that take the lock
  Nobody,      \* no directory
  StaleAfter,  \* LOCK_STALE_MS, in ticks
  MaxHold,     \* the longest that a handler works under the lock
  QuietBreak   \* nobody makes the directory between the look at a stale one
               \* and its removal

ASSUME CommitLockAssumption ==
  /\ Nobody \notin Process
  /\ StaleAfter \in Nat
  /\ MaxHold \in Nat
  /\ MaxHold <= StaleAfter
  /\ QuietBreak \in BOOLEAN

VARIABLES
  dir,  \* who has made the directory that is there
  age,  \* how long ago, as far as it matters
  at    \* where each process is in taking the lock

lockVars == <<dir, age, at>>

LockPlace == {"out", "breaking", "making", "holding", "down"}

LockTypeOK ==
  /\ dir \in Process \cup {Nobody}
  /\ age \in 0..(StaleAfter + 1)
  /\ at \in [Process -> LockPlace]

LockInit ==
  /\ dir = Nobody
  /\ age = 0
  /\ at = [p \in Process |-> "out"]

Stale == dir # Nobody /\ age > StaleAfter

MoveTo(p, l) == at' = [at EXCEPT ![p] = l]

LookAnyAge(p) ==       \* seeded fault: any lock that is there is broken
  /\ at[p] = "out"
  /\ MoveTo(p, IF dir # Nobody THEN "breaking" ELSE "making")
  /\ UNCHANGED <<dir, age>>

\* existsSync and statSync
Look(p) ==
  /\ at[p] = "out"
  /\ MoveTo(p, IF Stale THEN "breaking" ELSE "making")
  /\ UNCHANGED <<dir, age>>

\* rmdirSync removes the directory that is there by now.
Break(p) ==
  /\ at[p] = "breaking"
  /\ dir' = Nobody
  /\ age' = 0
  /\ MoveTo(p, "making")

Quiet == QuietBreak => \A q \in Process : at[q] # "breaking"

MakeAnyway(p) ==       \* seeded fault: mkdirSync(lockDir, { recursive: true })
  /\ at[p] = "making"
  /\ Quiet
  /\ dir' = p
  /\ age' = 0
  /\ MoveTo(p, "holding")

\* mkdirSync
Make(p) ==
  /\ at[p] = "making"
  /\ dir = Nobody
  /\ Quiet
  /\ dir' = p
  /\ age' = 0
  /\ MoveTo(p, "holding")

RefuseReleasing(p) ==  \* seeded fault: acquired inside the try that releases
  /\ at[p] = "making"
  /\ dir # Nobody
  /\ dir' = Nobody
  /\ age' = 0
  /\ MoveTo(p, "out")

\* mkdirSync finds the directory: "commit lock is held by another process".
Refuse(p) ==
  /\ at[p] = "making"
  /\ dir # Nobody
  /\ MoveTo(p, "out")
  /\ UNCHANGED <<dir, age>>

\* releaseLock, in the handler's finally
Release(p) ==
  /\ at[p] = "holding"
  /\ dir' = Nobody
  /\ age' = 0
  /\ MoveTo(p, "out")

CrashHolder(p) ==
  /\ at[p] # "down"
  /\ MoveTo(p, "down")
  /\ UNCHANGED <<dir, age>>

RestartHolder(p) ==
  /\ at[p] = "down"
  /\ MoveTo(p, "out")
  /\ UNCHANGED <<dir, age>>

\* Time passes; a live handler is done before MaxHold.
Tick ==
  /\ dir # Nobody
  /\ age <= StaleAfter
  /\ \A p \in Process : at[p] = "holding" => age < MaxHold
  /\ age' = age + 1
  /\ UNCHANGED <<dir, at>>

LockStep(p) ==
  \/ Look(p) \/ Break(p) \/ Make(p) \/ Refuse(p) \/ Release(p)
  \/ CrashHolder(p) \/ RestartHolder(p)

LockNext == Tick \/ \E p \in Process : LockStep(p)

LockSpec == LockInit /\ [][LockNext]_lockVars

---------------------------------------------------------------------------
\* Never two handlers at once at work on a root, crashes and stale locks
\* included.
MutualExclusion ==
  \A p, q \in Process : at[p] = "holding" /\ at[q] = "holding" => p = q

\* The directory is there as long as its holder works: no release, and no
\* breaking of a stale lock, removes it from under a handler.
HolderKeepsLock ==
  \A p \in Process : at[p] = "holding" => dir = p /\ age <= MaxHold

\* What makes it so: a process about to break a lock finds the stale one, or
\* none, and never one that has been made since.
BreakersFindStale ==
  QuietBreak => \A p \in Process :
    at[p] = "breaking" => dir = Nobody \/ age > StaleAfter

\* The lock is lost to a crash as it is to a release: acquireLock and
\* releaseLock implement a mutex.
Holder ==
  CHOOSE h \in Process \cup {Nobody} :
    IF \E p \in Process : at[p] = "holding"
    THEN h \in Process /\ at[h] = "holding"
    ELSE h = Nobody

M == INSTANCE Mutex WITH holder <- Holder

ImplementsMutex == M!Spec

===========================================================================
