------------------------ MODULE FilesystemRuntimeProofs ------------------------
(***************************************************************************)
(* Theorems about FilesystemRuntime, for any processes, files, texts and   *)
(* number of calls: what the lock promises holds of the wrapper that uses  *)
(* it, the latch stops the calls that wait behind a failed capture, and    *)
(* what the human has saved is neither replaced nor taken for the output   *)
(* of a command.                                                           *)
(***************************************************************************)
EXTENDS FilesystemRuntime, CommitLockProofs

---------------------------------------------------------------------------
(***************************************************************************)
(* The wrapper takes the lock by the steps of CommitLock and no others.    *)
(***************************************************************************)
\* Every step of the wrapper is a step of the lock or leaves the lock alone.
LEMMA StepsOfTheLock == [Next]_vars => [LockNext]_lockVars
<1> SUFFICES ASSUME [Next]_vars PROVE [LockNext]_lockVars
  OBVIOUS
<1>1. CASE UNCHANGED vars
  BY <1>1 DEF vars, lockVars
<1>2. CASE TimePasses
  BY <1>2 DEF TimePasses, LockNext
<1>3. ASSUME NEW f \in File, HumanSaves(f) PROVE UNCHANGED lockVars
  BY <1>3 DEF HumanSaves
<1>4. ASSUME NEW p \in Process, Locks(p) PROVE LockStep(p)
  BY <1>4 DEF Locks, LockStep
<1>5. ASSUME NEW p \in Process, NEW i \in Call(p),
             \/ LockRefused(p, i) \/ Reconcile(p, i) \/ ReconcileFails(p, i)
             \/ Commit(p, i) \/ CommitFails(p, i)
      PROVE  LockStep(p)
  BY <1>5
     DEF LockRefused, Reconcile, ReconcileFails, Commit, CommitFails, LockStep
<1>6. ASSUME NEW p \in Process, NEW i \in Call(p),
             \/ Submit(p, i) \/ Begin(p, i) \/ BeginBlocked(p, i)
             \/ StartWrite(p, i) \/ StartExec(p, i) \/ RequestRefused(p, i)
             \/ ToolReturns(p, i) \/ ToolThrows(p, i)
             \/ NothingAltered(p, i) \/ Capture(p, i) \/ CaptureStops(p, i)
             \/ GitAdd(p, i) \/ GitAddFails(p, i) \/ CommitScan(p, i)
             \/ \E f \in File : ToolWrites(p, i, f) \/ CommandWrites(p, i, f)
      PROVE  UNCHANGED lockVars
  BY <1>6
     DEF Submit, Begin, BeginBlocked, StartWrite, StartExec, RequestRefused,
         ToolReturns, ToolThrows, NothingAltered, Capture, CaptureStops,
         GitAdd, GitAddFails, CommitScan, ToolWrites, CommandWrites
<1>7. ASSUME NEW p \in Process, Crash(p) \/ Restart(p) PROVE LockStep(p)
  BY <1>7 DEF Crash, Restart, LockStep
<1> QED
  BY <1>1, <1>2, <1>3, <1>4, <1>5, <1>6, <1>7
     DEF Next, Proceeds, ToolEnds, ToolActs, LockNext

LEMMA LockTypeKept ==
  ASSUME LockTypeOK, [LockNext]_lockVars
  PROVE  LockTypeOK'
<1> USE CommitLockAssumption DEF LockTypeOK, LockPlace, MoveTo
<1>1. CASE Tick  BY <1>1 DEF Tick
<1>2. ASSUME NEW p \in Process, LockStep(p) PROVE LockTypeOK'
  BY <1>2 DEF LockStep, Look, Break, Make, Refuse, Release, CrashHolder, RestartHolder
<1> QED  BY <1>1, <1>2 DEF LockNext, lockVars

\* What is proved of the lock is therefore true of the wrapper.
LEMMA KeepsTheLock == Spec => LockSpec
<1>1. Init => LockInit  BY DEF Init
<1> QED  BY <1>1, StepsOfTheLock, PTL DEF Spec, LockSpec

\* No two calls, of whatever processes, are at work under the lock at once.
THEOREM CallsExcludeEachOther ==
  ASSUME QuietBreak
  PROVE  Spec => []MutualExclusion
BY KeepsTheLock, LockExcludes, PTL

\* The lock of a call that works stays until it gives it up.
THEOREM CallsKeepTheirLock ==
  ASSUME QuietBreak
  PROVE  Spec => []HolderKeepsLock
BY KeepsTheLock, LockIsKept, PTL

\* The wrapper's use of the lock implements a mutex.
THEOREM RuntimeImplementsMutex ==
  ASSUME QuietBreak
  PROVE  Spec => ImplementsMutex
BY KeepsTheLock, LockImplementsMutex, PTL

---------------------------------------------------------------------------
(***************************************************************************)
(* Types.  The Human view never holds a symbol: what the handlers write    *)
(* there is resolved, so what a capture puts behind a symbol is no symbol. *)
(***************************************************************************)
FilesTyped ==
  /\ agent \in [File -> Text]
  /\ human \in [File -> Plain]
  /\ head \in [File -> Text]
  /\ writer \in [File -> Process \cup {Nobody}]

PlacesTyped ==
  DOMAIN call = Process /\ \A p \in Process : call[p] \in [Call(p) -> CallPlace]

CallsTyped ==
  /\ PlacesTyped
  /\ latch \in [Process -> BOOLEAN]
  /\ op \in [Process -> {"write", "exec"}]
  /\ result \in [Process -> {"ok", "failed"}]
  /\ job \in [Process -> Job]

DownIsIdle ==
  \A p \in Process : at[p] = "down" => \A i \in Call(p) : call[p][i] \in Settled \cup {"new"}

LEMMA TypeParts == TypeOK <=> LockTypeOK /\ FilesTyped /\ CallsTyped /\ DownIsIdle
BY DEF TypeOK, FilesTyped, CallsTyped, PlacesTyped, DownIsIdle

LEMMA ResolvedIsPlain ==
  ASSUME NEW t \in Text
  PROVE  Resolve(t) \in Plain
BY DEF Text, Plain, Resolve, Symbol

LEMMA NoJobTyped == NoJob \in Job
<1>1. [f \in File |-> Absent] \in [File -> Plain]  BY DEF Plain
<1>2. {} \in SUBSET File  OBVIOUS
<1> QED  BY <1>1, <1>2, Zenon DEF NoJob, Job

\* A new todo, own or text keeps a job a job.
LEMMA JobListed ==
  ASSUME job \in [Process -> Job], NEW p \in Process, NEW fs \in SUBSET File
  PROVE  /\ [job EXCEPT ![p].todo = fs] \in [Process -> Job]
         /\ [job EXCEPT ![p].own = fs] \in [Process -> Job]
<1>1. job[p] \in Job  OBVIOUS
<1>2. [job[p] EXCEPT !.todo = fs] \in Job  BY <1>1, Zenon DEF Job
<1>3. [job[p] EXCEPT !.own = fs] \in Job  BY <1>1, Zenon DEF Job
<1> QED  BY <1>2, <1>3

LEMMA JobHashed ==
  ASSUME job \in [Process -> Job], NEW p \in Process, human \in [File -> Plain]
  PROVE  [job EXCEPT ![p].text = human] \in [Process -> Job]
<1>1. job[p] \in Job  OBVIOUS
<1>2. [job[p] EXCEPT !.text = human] \in Job  BY <1>1, Zenon DEF Job
<1> QED  BY <1>2

\* To move a call, and to end one, keeps the types.
LEMMA PlacesKept ==
  ASSUME PlacesTyped, NEW p \in Process, NEW i \in Call(p), NEW place \in CallPlace,
         Becomes(p, i, place)
  PROVE  PlacesTyped'
BY DEF PlacesTyped, Becomes, Call

LEMMA EndsTyped ==
  ASSUME CallsTyped, NEW p \in Process, NEW i \in Call(p), NEW outcome \in Settled,
         Ends(p, i, outcome), latch' \in [Process -> BOOLEAN]
  PROVE  CallsTyped'
<1>1. outcome \in CallPlace  BY DEF CallPlace
<1>2. PlacesTyped'  BY <1>1, PlacesKept DEF Ends, CallsTyped
<1> QED  BY <1>2, NoJobTyped DEF Ends, CallsTyped

LEMMA FailsTyped ==
  ASSUME CallsTyped, NEW p \in Process, NEW i \in Call(p),
         Fails(p, i) \/ CaptureFails(p, i) \/ HandlerFails(p, i)
  PROVE  CallsTyped'
<1>1. "failed" \in Settled  BY DEF Settled
<1>2. CASE Fails(p, i)  BY <1>1, <1>2, EndsTyped DEF Fails, CallsTyped
<1>3. CASE CaptureFails(p, i)
  BY <1>1, <1>3, EndsTyped DEF CaptureFails, CallsTyped
<1> QED  BY <1>2, <1>3 DEF HandlerFails

---------------------------------------------------------------------------
(***************************************************************************)
(* The chain of calls.  A call that is not new was made after those before *)
(* it, and one that has begun found them settled; so one at most is busy,  *)
(* and a latch that is set has been set by the last that was.              *)
(***************************************************************************)
Unsettled(p, i) == call[p][i] \notin {"new", "waiting"} \cup Settled

InOrder ==
  \A p \in Process : \A i, j \in Call(p) :
    j < i => /\ call[p][i] # "new" => call[p][j] # "new"
             /\ call[p][i] \notin {"new", "waiting"} => call[p][j] \in Settled

\* What a step of process p can do to its calls and its latch
CallMade(p, i) ==
  /\ Alive(p)
  /\ call[p][i] = "new"
  /\ \A j \in Call(p) : j < i => call[p][j] # "new"
  /\ Becomes(p, i, "waiting")
  /\ UNCHANGED latch

CallBegun(p, i) ==
  /\ Alive(p)
  /\ call[p][i] = "waiting"
  /\ MayRun(p, i)
  /\ ~latch[p]
  /\ Apart => ~OthersRunCommand(p)
  /\ \E place \in CallPlace \ {"new", "waiting"} : Becomes(p, i, place)
  /\ UNCHANGED latch

CallBlocked(p, i) ==
  /\ Alive(p)
  /\ call[p][i] = "waiting"
  /\ MayRun(p, i)
  /\ Becomes(p, i, "failed")
  /\ UNCHANGED latch

CallAdvanced(p, i) ==
  /\ Unsettled(p, i)
  /\ \E place \in CallPlace \ {"new", "waiting"} : Becomes(p, i, place)
  /\ UNCHANGED latch

CallLatched(p, i) ==
  /\ Unsettled(p, i)
  /\ Becomes(p, i, "failed")
  /\ latch' = [latch EXCEPT ![p] = TRUE]

CallsLost(p) ==
  /\ call' = [call EXCEPT ![p] = [i \in Call(p) |->
       IF @[i] \in Settled \cup {"new"} THEN @[i] ELSE "lost"]]
  /\ latch' = [latch EXCEPT ![p] = FALSE]

CallStep(p) ==
  \/ CallsLost(p)
  \/ \E i \in Call(p) :
       \/ CallMade(p, i) \/ CallBegun(p, i) \/ CallBlocked(p, i)
       \/ CallAdvanced(p, i) \/ CallLatched(p, i)

\* Every step of the wrapper is one of these or leaves calls and latches alone.
LEMMA StepsOfTheCalls ==
  ASSUME result \in [Process -> {"ok", "failed"}], [Next]_vars
  PROVE  (\E p \in Process : CallStep(p)) \/ UNCHANGED <<call, latch>>
<1>1. CASE UNCHANGED vars
  BY <1>1 DEF vars, calls
<1>2. CASE TimePasses
  BY <1>2 DEF TimePasses, calls
<1>3. ASSUME NEW f \in File, HumanSaves(f) PROVE UNCHANGED <<call, latch>>
  BY <1>3 DEF HumanSaves, calls
<1>4. ASSUME NEW p \in Process, Locks(p) \/ Restart(p) PROVE UNCHANGED <<call, latch>>
  BY <1>4 DEF Locks, Restart, calls
<1>5. ASSUME NEW p \in Process, Crash(p) PROVE CallsLost(p)
  BY <1>5 DEF Crash, CallsLost
<1>6. ASSUME NEW p \in Process, NEW i \in Call(p),
             \E f \in File : ToolWrites(p, i, f) \/ CommandWrites(p, i, f)
      PROVE  UNCHANGED <<call, latch>>
  BY <1>6 DEF ToolWrites, CommandWrites, calls
<1>7. ASSUME NEW p \in Process, NEW i \in Call(p), Submit(p, i)
      PROVE  CallMade(p, i)
  BY <1>7 DEF Submit, CallMade, Is
<1>8. ASSUME NEW p \in Process, NEW i \in Call(p), Begin(p, i)
      PROVE  CallBegun(p, i)
  BY <1>8 DEF Begin, CallBegun, Is, CallPlace
<1>9. ASSUME NEW p \in Process, NEW i \in Call(p), BeginBlocked(p, i)
      PROVE  CallBlocked(p, i)
  BY <1>9 DEF BeginBlocked, CallBlocked, Is
<1>10. ASSUME NEW p \in Process, NEW i \in Call(p),
             \/ LockRefused(p, i) \/ Reconcile(p, i) \/ ReconcileFails(p, i)
             \/ StartWrite(p, i) \/ StartExec(p, i) \/ RequestRefused(p, i)
             \/ ToolReturns(p, i) \/ ToolThrows(p, i)
      PROVE  CallAdvanced(p, i) \/ CallLatched(p, i)
  BY <1>10
     DEF LockRefused, Reconcile, ReconcileFails, StartWrite, StartExec,
         RequestRefused, ToolReturns, ToolThrows, HandlerFails, Fails,
         CaptureFails, Ends, Is, CallAdvanced, CallLatched, Unsettled,
         Settled, CallPlace
<1>11. ASSUME NEW p \in Process, NEW i \in Call(p),
             \/ Capture(p, i) \/ CaptureStops(p, i)
             \/ GitAdd(p, i) \/ GitAddFails(p, i) \/ CommitFails(p, i)
      PROVE  CallAdvanced(p, i) \/ CallLatched(p, i)
  BY <1>11
     DEF Capture, CaptureStops, GitAdd, GitAddFails, CommitFails, HandlerFails,
         Fails, CaptureFails, Ends, Is, CallAdvanced, CallLatched, Unsettled,
         Settled, CallPlace
<1>12. ASSUME NEW p \in Process, NEW i \in Call(p),
             NothingAltered(p, i) \/ CommitScan(p, i) \/ Commit(p, i)
      PROVE  CallAdvanced(p, i)
  BY <1>12
     DEF NothingAltered, CommitScan, Commit, CommitDue, Ends, Is, CallAdvanced,
         Unsettled, Settled, CallPlace
<1> QED
  BY <1>1, <1>2, <1>3, <1>4, <1>5, <1>6, <1>7, <1>8, <1>9, <1>10, <1>11, <1>12
     DEF Next, Proceeds, ToolEnds, ToolActs, CallStep

\* A process goes down by a crash.
LEMMA WhoGoesDown ==
  ASSUME LockTypeOK, [Next]_vars, NEW p \in Process, at[p] # "down", at'[p] = "down"
  PROVE  Crash(p)
<1> USE DEF LockTypeOK
<1>1. ~UNCHANGED at  OBVIOUS
<1>2. ASSUME NEW q \in Process, Crash(q) PROVE Crash(p)
  <2>1. q = p  BY <1>2 DEF Crash, CrashHolder, MoveTo
  <2> QED  BY <1>2, <2>1
<1>3. ASSUME NEW q \in Process,
             \/ Look(q) \/ Break(q) \/ Make(q) \/ Refuse(q) \/ Release(q)
             \/ RestartHolder(q)
      PROVE  FALSE
  BY <1>3 DEF Look, Break, Make, Refuse, Release, RestartHolder, MoveTo
<1>4. ~TimePasses /\ ~UNCHANGED vars  BY <1>1 DEF TimePasses, Tick, vars
<1>5. \A f \in File : ~HumanSaves(f)  BY <1>1 DEF HumanSaves, lockVars
<1>6. \A q \in Process : ~Locks(q) /\ ~Restart(q)  BY <1>3 DEF Locks, Restart
<1>7. \A q \in Process : \A i \in Call(q) :
        /\ ~LockRefused(q, i) /\ ~Reconcile(q, i) /\ ~ReconcileFails(q, i)
        /\ ~Commit(q, i) /\ ~CommitFails(q, i)
  BY <1>3 DEF LockRefused, Reconcile, ReconcileFails, Commit, CommitFails
<1>8. \A q \in Process : \A i \in Call(q) :
        /\ ~Submit(q, i) /\ ~Begin(q, i) /\ ~BeginBlocked(q, i)
        /\ ~StartWrite(q, i) /\ ~StartExec(q, i) /\ ~RequestRefused(q, i)
        /\ ~ToolReturns(q, i) /\ ~ToolThrows(q, i)
        /\ ~NothingAltered(q, i) /\ ~Capture(q, i) /\ ~CaptureStops(q, i)
        /\ ~GitAdd(q, i) /\ ~GitAddFails(q, i) /\ ~CommitScan(q, i)
        /\ \A f \in File : ~ToolWrites(q, i, f) /\ ~CommandWrites(q, i, f)
  BY <1>1
     DEF Submit, Begin, BeginBlocked, StartWrite, StartExec, RequestRefused,
         ToolReturns, ToolThrows, NothingAltered, Capture, CaptureStops,
         GitAdd, GitAddFails, CommitScan, ToolWrites, CommandWrites, lockVars
<1> QED
  BY <1>2, <1>4, <1>5, <1>6, <1>7, <1>8 DEF Next, Proceeds, ToolEnds, ToolActs

\* TypeOK is inductive; one step for each action that moves a call.
LEMMA TypesKept ==
  ASSUME TypeOK, [Next]_vars
  PROVE  TypeOK'
<1>0. LockTypeOK /\ FilesTyped /\ CallsTyped /\ DownIsIdle  BY TypeParts
<1>1. LockTypeOK'  BY <1>0, StepsOfTheLock, LockTypeKept
<1>2. FilesTyped'
  <2>1. ASSUME NEW p \in Process, NEW i \in Call(p), Reconcile(p, i) PROVE FilesTyped'
    <3>1. \A f \in File : Merged(f) \in Text  BY <1>0 DEF Merged, FilesTyped, Text
    <3> QED  BY <1>0, <2>1, <3>1 DEF Reconcile, FilesTyped
  <2>2. ASSUME NEW p \in Process, NEW i \in Call(p), NEW f \in File, ToolWrites(p, i, f)
        PROVE  FilesTyped'
    <3>1. Literal \cup {Absent} \cup {agent[g] : g \in File} \subseteq Text
      BY <1>0 DEF FilesTyped, Text, Plain
    <3> QED  BY <1>0, <2>2, <3>1 DEF ToolWrites, FilesTyped, calls
  <2>3. ASSUME NEW p \in Process, NEW i \in Call(p), NEW f \in File, CommandWrites(p, i, f)
        PROVE  FilesTyped'
    BY <1>0, <2>3 DEF CommandWrites, FilesTyped, Plain
  <2>4. ASSUME NEW p \in Process, NEW i \in Call(p), Capture(p, i) \/ CaptureStops(p, i)
        PROVE  FilesTyped'
    <3>1. \A f \in File : human[f] # Link => Captured(f) \in Text
      BY <1>0 DEF Captured, FilesTyped, Text, Plain, Symbol
    <3>2. CASE Capture(p, i)
      BY <1>0, <3>1, <3>2 DEF Capture, FilesTyped
    <3>3. CASE CaptureStops(p, i)
      BY <1>0, <3>1, <3>3 DEF CaptureStops, FilesTyped
    <3> QED  BY <2>4, <3>2, <3>3
  <2>5. ASSUME NEW p \in Process, NEW i \in Call(p), Commit(p, i) PROVE FilesTyped'
    <3>1. \A f \in File : Resolve(agent[f]) \in Plain
      BY <1>0, ResolvedIsPlain DEF FilesTyped
    <3> QED  BY <1>0, <2>5, <3>1 DEF Commit, FilesTyped
  <2>6. ASSUME NEW f \in File, HumanSaves(f) PROVE FilesTyped'
    BY <1>0, <2>6, FilesystemRuntimeAssumption DEF HumanSaves, FilesTyped, Plain
  <2>7. ASSUME NEW p \in Process, Crash(p) PROVE FilesTyped'
    BY <1>0, <2>7 DEF Crash, FilesTyped, files
  <2>8. ASSUME NEW p \in Process, NEW i \in Call(p),
               \/ Submit(p, i) \/ Begin(p, i) \/ BeginBlocked(p, i)
               \/ LockRefused(p, i) \/ ReconcileFails(p, i)
               \/ StartWrite(p, i) \/ StartExec(p, i) \/ RequestRefused(p, i)
               \/ ToolReturns(p, i) \/ ToolThrows(p, i) \/ NothingAltered(p, i)
               \/ GitAdd(p, i) \/ GitAddFails(p, i) \/ CommitScan(p, i)
               \/ CommitFails(p, i)
        PROVE  UNCHANGED <<files, writer>>
    BY <2>8
       DEF Submit, Begin, BeginBlocked, LockRefused, ReconcileFails, StartWrite,
           StartExec, RequestRefused, ToolReturns, ToolThrows, NothingAltered,
           GitAdd, GitAddFails, CommitScan, CommitFails
  <2>9. ASSUME NEW p \in Process, Locks(p) \/ Restart(p) \/ TimePasses
        PROVE  UNCHANGED <<files, writer>>
    BY <2>9 DEF Locks, Restart, TimePasses
  <2>10. CASE UNCHANGED vars  BY <1>0, <2>10 DEF vars, files, FilesTyped
  <2>11. CASE UNCHANGED <<files, writer>>  BY <1>0, <2>11 DEF files, FilesTyped
  <2>12. CASE TimePasses
    BY <1>0, <2>12 DEF TimePasses, files, FilesTyped
  <2> QED
    BY <2>1, <2>2, <2>3, <2>4, <2>5, <2>6, <2>7, <2>8, <2>9, <2>10, <2>11, <2>12
       DEF Next, Proceeds, ToolEnds, ToolActs
<1>3. CallsTyped'
  <2> USE <1>0
  <2>1. ASSUME NEW p \in Process, NEW i \in Call(p), Submit(p, i) \/ BeginBlocked(p, i)
        PROVE  CallsTyped'
    <3>1. {"waiting", "failed"} \subseteq CallPlace  BY DEF CallPlace, Settled
    <3> QED
      BY <2>1, <3>1, PlacesKept DEF Submit, BeginBlocked, CallsTyped
  <2>2. ASSUME NEW p \in Process, NEW i \in Call(p), Begin(p, i) PROVE CallsTyped'
    <3>1. {"ready", "listed"} \subseteq CallPlace  BY DEF CallPlace
    <3>2. Dirty \in SUBSET File  BY DEF Dirty
    <3>3. job' = [job EXCEPT ![p].todo = Dirty]  BY <2>2 DEF Begin
    <3>5. job' \in [Process -> Job]  BY <3>2, <3>3, JobListed DEF CallsTyped
    <3>4. PlacesTyped'  BY <2>2, <3>1, PlacesKept DEF Begin, CallsTyped
    <3> QED  BY <2>2, <3>4, <3>5 DEF Begin, CallsTyped
  <2>3. ASSUME NEW p \in Process, NEW i \in Call(p),
               LockRefused(p, i) \/ ReconcileFails(p, i) \/ RequestRefused(p, i)
               \/ CaptureStops(p, i) \/ GitAddFails(p, i) \/ CommitFails(p, i)
        PROVE  CallsTyped'
    BY <2>3, FailsTyped
       DEF LockRefused, ReconcileFails, RequestRefused, CaptureStops, GitAddFails,
           CommitFails
  <2>4. ASSUME NEW p \in Process, NEW i \in Call(p), Reconcile(p, i) PROVE CallsTyped'
    <3>1. "ready" \in CallPlace  BY DEF CallPlace
    <3>2. PlacesTyped'  BY <2>4, <3>1, PlacesKept DEF Reconcile, CallsTyped
    <3> QED  BY <2>4, <3>2, NoJobTyped DEF Reconcile, CallsTyped
  <2>5. ASSUME NEW p \in Process, NEW i \in Call(p), StartWrite(p, i) PROVE CallsTyped'
    <3>1. "running" \in CallPlace  BY DEF CallPlace
    <3> QED  BY <2>5, <3>1, PlacesKept DEF StartWrite, CallsTyped
  <2>6. ASSUME NEW p \in Process, NEW i \in Call(p), StartExec(p, i) PROVE CallsTyped'
    <3>1. "running" \in CallPlace  BY DEF CallPlace
    <3>2. PlacesTyped'  BY <2>6, <3>1, PlacesKept DEF StartExec, CallsTyped
    <3>3. job' \in [Process -> Job]
      BY <2>6, JobHashed DEF StartExec, CallsTyped, FilesTyped
    <3> QED  BY <2>6, <3>2, <3>3 DEF StartExec, CallsTyped
  <2>7. ASSUME NEW p \in Process, NEW i \in Call(p), ToolReturns(p, i) PROVE CallsTyped'
    <3>1. "ran" \in CallPlace  BY DEF CallPlace
    <3> QED  BY <2>7, <3>1, PlacesKept DEF ToolReturns, CallsTyped
  <2>8. ASSUME NEW p \in Process, NEW i \in Call(p), ToolThrows(p, i) PROVE CallsTyped'
    <3>1. CASE Fails(p, i)  BY <3>1, FailsTyped
    <3>2. CASE ~Fails(p, i)
      <4>1. "ran" \in CallPlace  BY DEF CallPlace
      <4>2. Becomes(p, i, "ran")  BY <2>8, <3>2 DEF ToolThrows
      <4>3. PlacesTyped'  BY <4>1, <4>2, PlacesKept DEF CallsTyped
      <4> QED  BY <2>8, <3>2, <4>3 DEF ToolThrows, CallsTyped
    <3> QED  BY <3>1, <3>2
  <2>9. ASSUME NEW p \in Process, NEW i \in Call(p), NothingAltered(p, i) \/ Commit(p, i)
        PROVE  CallsTyped'
    <3>1. result[p] \in Settled  BY DEF CallsTyped, Settled
    <3>2. Ends(p, i, result[p]) /\ UNCHANGED latch  BY <2>9 DEF NothingAltered, Commit
    <3> QED  BY <3>1, <3>2, EndsTyped DEF CallsTyped
  <2>10. ASSUME NEW p \in Process, NEW i \in Call(p), Capture(p, i) PROVE CallsTyped'
    <3>1. "captured" \in CallPlace  BY DEF CallPlace
    <3>2. Altered(p) \in SUBSET File  BY DEF Altered
    <3>3. job' = [job EXCEPT ![p].own = Altered(p)]  BY <2>10 DEF Capture
    <3>5. job' \in [Process -> Job]  BY <3>2, <3>3, JobListed DEF CallsTyped
    <3>4. PlacesTyped'  BY <2>10, <3>1, PlacesKept DEF Capture, CallsTyped
    <3> QED  BY <2>10, <3>4, <3>5 DEF Capture, CallsTyped
  <2>11. ASSUME NEW p \in Process, NEW i \in Call(p), GitAdd(p, i) PROVE CallsTyped'
    <3>1. "added" \in CallPlace  BY DEF CallPlace
    <3>2. PlacesTyped'  BY <2>11, <3>1, PlacesKept DEF GitAdd, CallsTyped
    <3>3. job' \in [Process -> Job]
      BY <2>11, JobHashed DEF GitAdd, CallsTyped, FilesTyped
    <3> QED  BY <2>11, <3>2, <3>3 DEF GitAdd, CallsTyped
  <2>12. ASSUME NEW p \in Process, NEW i \in Call(p), CommitScan(p, i) PROVE CallsTyped'
    <3> DEFINE changed == {f \in File : agent[f] # head[f]}
    <3>1. CASE changed = {}
      <4>1. result[p] \in Settled  BY DEF CallsTyped, Settled
      <4> QED  BY <2>12, <3>1, <4>1, EndsTyped DEF CommitScan, CallsTyped
    <3>2. CASE changed # {}
      <4>1. "scanned" \in CallPlace  BY DEF CallPlace
      <4>2. PlacesTyped'  BY <2>12, <3>2, <4>1, PlacesKept DEF CommitScan, CallsTyped
      <4>3. job' = [job EXCEPT ![p].todo = changed]  BY <2>12, <3>2 DEF CommitScan
      <4>4. changed \in SUBSET File  OBVIOUS
      <4> HIDE DEF changed
      <4>5. job' \in [Process -> Job]  BY <4>3, <4>4, JobListed DEF CallsTyped
      <4> QED  BY <2>12, <3>2, <4>2, <4>5 DEF CommitScan, CallsTyped, changed
    <3> QED  BY <3>1, <3>2
  <2>13. ASSUME NEW p \in Process, Crash(p) PROVE CallsTyped'
    <3>1. PlacesTyped'
      BY <2>13 DEF Crash, CallsTyped, PlacesTyped, Call, CallPlace, Settled
    <3> QED  BY <2>13, <3>1, NoJobTyped DEF Crash, CallsTyped
  <2>14. CASE UNCHANGED calls
    BY <2>14 DEF calls, CallsTyped, PlacesTyped
  <2>15. ASSUME NEW p \in Process, NEW i \in Call(p), NEW f \in File,
                ToolWrites(p, i, f) \/ CommandWrites(p, i, f)
         PROVE  UNCHANGED calls
    BY <2>15 DEF ToolWrites, CommandWrites
  <2>16. ASSUME NEW p \in Process, Locks(p) \/ Restart(p) PROVE UNCHANGED calls
    BY <2>16 DEF Locks, Restart
  <2>17. CASE TimePasses \/ (\E f \in File : HumanSaves(f)) \/ UNCHANGED vars
    BY <2>14, <2>17 DEF TimePasses, HumanSaves, vars, calls
  <2> QED
    BY <2>1, <2>2, <2>3, <2>4, <2>5, <2>6, <2>7, <2>8, <2>9, <2>10, <2>11,
       <2>12, <2>13, <2>14, <2>15, <2>16, <2>17
       DEF Next, Proceeds, ToolEnds, ToolActs
<1>4. DownIsIdle'
  <2> SUFFICES ASSUME NEW p \in Process, at'[p] = "down", NEW i \in Call(p)
               PROVE  call'[p][i] \in Settled \cup {"new"}
    BY DEF DownIsIdle, Call
  <2>1. call[p] \in [Call(p) -> CallPlace] /\ i \in 1..MaxCalls[p]
    BY <1>0 DEF CallsTyped, PlacesTyped, Call
  <2>2. CASE at[p] # "down"
    <3>1. CallsLost(p)  BY <1>0, <2>2, WhoGoesDown DEF Crash, CallsLost
    <3> QED  BY <1>0, <3>1 DEF CallsLost, CallsTyped, PlacesTyped, Settled
  <2>3. CASE at[p] = "down" /\ UNCHANGED <<call, latch>>
    BY <1>0, <2>3 DEF DownIsIdle
  <2>4. ASSUME at[p] = "down", NEW q \in Process, CallStep(q)
        PROVE  call'[p][i] \in Settled \cup {"new"}
    <3>1. call[p][i] \in Settled \cup {"new"}  BY <1>0, <2>4 DEF DownIsIdle
    <3>2. CASE q # p
      BY <1>0, <2>4, <3>1, <3>2
         DEF CallStep, CallsLost, CallMade, CallBegun, CallBlocked, CallAdvanced,
             CallLatched, Becomes, CallsTyped, PlacesTyped
    <3>3. CASE q = p
      <4>1. CallsLost(p)
        BY <1>0, <2>4, <3>3
           DEF CallStep, CallMade, CallBegun, CallBlocked, CallAdvanced,
               CallLatched, Unsettled, Alive, DownIsIdle
      <4> QED  BY <1>0, <4>1 DEF CallsLost, CallsTyped, PlacesTyped, Settled
    <3> QED  BY <3>2, <3>3
  <2>5. result \in [Process -> {"ok", "failed"}]  BY <1>0 DEF CallsTyped
  <2> QED  BY <2>2, <2>3, <2>4, <2>5, StepsOfTheCalls
<1> QED
  BY <1>1, <1>2, <1>3, <1>4
     DEF TypeOK, FilesTyped, CallsTyped, PlacesTyped, DownIsIdle

\* To begin with nothing is there and nothing runs.
LEMMA TypesInitially == Init => TypeOK
<1> SUFFICES ASSUME Init PROVE TypeOK
  OBVIOUS
<1>1. LockTypeOK  BY CommitLockAssumption DEF Init, LockInit, LockTypeOK, LockPlace
<1>2. FilesTyped  BY DEF Init, FilesTyped, Text, Plain
<1>3. "new" \in CallPlace  BY DEF CallPlace
<1>4. CallsTyped  BY <1>3, NoJobTyped DEF Init, CallsTyped, PlacesTyped
<1>5. DownIsIdle  BY DEF Init, DownIsIdle, Settled
<1> QED  BY <1>1, <1>2, <1>4, <1>5, TypeParts

\* The types; of note is the Human view, where no symbol is ever found.
THEOREM TypesAreKept == Spec => []TypeOK
<1>1. TypeOK /\ [Next]_vars => TypeOK'  BY TypesKept
<1> QED  BY <1>1, TypesInitially, PTL DEF Spec

---------------------------------------------------------------------------
\* A step on the calls keeps their order and the latch above them.
LEMMA ChainKept ==
  ASSUME TypeOK, InOrder, LatchStopsTools, NEW p \in Process, CallStep(p)
  PROVE  InOrder' /\ LatchStopsTools'
<1>0. PICK n \in Nat : Call(p) = 1..n
  BY FilesystemRuntimeAssumption DEF Call
<1>1. call[p] \in [Call(p) -> CallPlace] /\ DOMAIN call = Process
  BY DEF TypeOK
<1>2. latch \in [Process -> BOOLEAN]  BY DEF TypeOK
<1>3. \A q \in Process \ {p} : call'[q] = call[q] /\ latch'[q] = latch[q]
  BY <1>1, <1>2
     DEF CallStep, CallsLost, CallMade, CallBegun, CallBlocked, CallAdvanced,
         CallLatched, Becomes
<1>4. ASSUME \A i, j \in Call(p) :
               j < i => /\ call'[p][i] # "new" => call'[p][j] # "new"
                        /\ call'[p][i] \notin {"new", "waiting"} => call'[p][j] \in Settled,
             latch'[p] => \A i \in Call(p) : ~Unsettled(p, i)'
      PROVE  InOrder' /\ LatchStopsTools'
  <2>1. InOrder'  BY <1>3, <1>4 DEF InOrder, Call
  <2>2. LatchStopsTools'
    BY <1>3, <1>4 DEF LatchStopsTools, Busy, Unsettled, Call
  <2> QED  BY <2>1, <2>2
<1>5. \A i, j \in Call(p) :
        j < i => /\ call[p][i] # "new" => call[p][j] # "new"
                 /\ call[p][i] \notin {"new", "waiting"} => call[p][j] \in Settled
  BY DEF InOrder
<1>6. latch[p] => \A i \in Call(p) : ~Unsettled(p, i)
  BY DEF LatchStopsTools, Busy, Unsettled
<1>7. CASE CallsLost(p)
  <2>1. \A i \in Call(p) :
          call'[p][i] = IF call[p][i] \in Settled \cup {"new"} THEN call[p][i] ELSE "lost"
    BY <1>1, <1>7 DEF CallsLost
  <2>2. ~latch'[p]  BY <1>2, <1>7 DEF CallsLost
  <2> QED  BY <1>4, <1>5, <2>1, <2>2 DEF Settled
<1>8. ASSUME NEW i \in Call(p), NEW place \in CallPlace, Becomes(p, i, place)
      PROVE  \A j \in Call(p) : call'[p][j] = IF j = i THEN place ELSE call[p][j]
  BY <1>1, <1>8 DEF Becomes
<1>9. {"waiting", "failed"} \subseteq CallPlace  BY DEF CallPlace, Settled
<1>10. ASSUME NEW i \in Call(p), MayRun(p, i)
       PROVE  \A j \in Call(p) : j < i => call[p][j] \in Settled
  BY <1>0, <1>5, <1>10 DEF MayRun, Previous, Settled
<1>11. ASSUME NEW i \in Call(p), CallMade(p, i)
       PROVE  InOrder' /\ LatchStopsTools'
  BY <1>0, <1>4, <1>5, <1>6, <1>8, <1>9, <1>11 DEF CallMade, Unsettled, Settled
<1>12. ASSUME NEW i \in Call(p), CallBegun(p, i)
       PROVE  InOrder' /\ LatchStopsTools'
  BY <1>0, <1>4, <1>5, <1>6, <1>8, <1>10, <1>12 DEF CallBegun, Settled
<1>13. ASSUME NEW i \in Call(p), CallBlocked(p, i)
       PROVE  InOrder' /\ LatchStopsTools'
  BY <1>0, <1>4, <1>5, <1>6, <1>8, <1>9, <1>10, <1>13 DEF CallBlocked, Unsettled, Settled
<1>14. ASSUME NEW i \in Call(p), Unsettled(p, i)
       PROVE  /\ ~latch[p]
              /\ \A j \in Call(p) : j < i => call[p][j] \in Settled
              /\ \A j \in Call(p) : j > i => call[p][j] \in {"new", "waiting"}
  BY <1>0, <1>5, <1>6, <1>14 DEF Unsettled
<1>15. ASSUME NEW i \in Call(p), CallAdvanced(p, i)
       PROVE  InOrder' /\ LatchStopsTools'
  BY <1>0, <1>4, <1>5, <1>8, <1>14, <1>15 DEF CallAdvanced, Settled, Unsettled
<1>16. ASSUME NEW i \in Call(p), CallLatched(p, i)
       PROVE  InOrder' /\ LatchStopsTools'
  BY <1>0, <1>4, <1>5, <1>8, <1>9, <1>14, <1>16 DEF CallLatched, Settled, Unsettled
<1> QED  BY <1>7, <1>11, <1>12, <1>13, <1>15, <1>16 DEF CallStep

LEMMA ChainInitially == Init => InOrder /\ LatchStopsTools
BY DEF Init, InOrder, LatchStopsTools, Busy

LEMMA OrderKept ==
  ASSUME TypeOK, InOrder, LatchStopsTools, [Next]_vars
  PROVE  InOrder' /\ LatchStopsTools'
<1>1. CASE UNCHANGED <<call, latch>>
  BY <1>1 DEF InOrder, LatchStopsTools, Busy, Call
<1>2. result \in [Process -> {"ok", "failed"}]  BY DEF TypeOK
<1> QED  BY <1>1, <1>2, StepsOfTheCalls, ChainKept

\* Once the capture of a command has failed no tool is running or about to
\* run: the calls that were waiting behind it are blocked, however many.
THEOREM LatchStops == Spec => []LatchStopsTools
<1>1. TypeOK /\ InOrder /\ LatchStopsTools /\ [Next]_vars => (InOrder /\ LatchStopsTools)'
  BY OrderKept
<1> QED  BY <1>1, TypesAreKept, ChainInitially, PTL DEF Spec

---------------------------------------------------------------------------
(***************************************************************************)
(* What commands leave behind.  The output that a command of p has put in  *)
(* a file is due: it differs from the snapshot, then it is captured, then  *)
(* staged, then among what is committed; and whatever ends the call before *)
(* that sets the latch.  Nobody else writes meanwhile: either there is one *)
(* process, whose calls are one after the other, or, with several, it has  *)
(* to be supposed that no other is busy while a command runs (Apart).      *)
(***************************************************************************)
KeptApart == Apart \/ \A p, q \in Process : p = q

ExecPlace == {"running", "ran", "captured", "added", "scanned"}

\* Only a call that runs its tool, or comes after, has a command, and it has
\* the files for itself.
Alone ==
  \A p \in Process : op[p] = "exec" =>
    /\ \E i \in Call(p) : call[p][i] \in ExecPlace
    /\ \A q \in Process \ {p} : ~Busy(q)

Due(p, i, f) ==
  \/ /\ call[p][i] \in {"running", "ran"}
     /\ human[f] \in Output
     /\ human[f] # job[p].text[f]
  \/ call[p][i] = "captured" /\ f \in job[p].own /\ Resolve(agent[f]) = human[f]
  \/ /\ call[p][i] = "added"
     /\ f \in job[p].own
     /\ Resolve(agent[f]) = human[f]
     /\ human[f] = job[p].text[f]
  \/ /\ call[p][i] = "scanned"
     /\ f \in job[p].own
     /\ f \in job[p].todo
     /\ human[f] = job[p].text[f]

Covered(p, f) ==
  \/ latch[p]
  \/ human[f] = Resolve(head[f])
  \/ op[p] = "exec" /\ \E i \in Call(p) : Due(p, i, f)

Accounted ==
  \A p \in Process, f \in File : writer[f] = p => Alive(p) /\ Covered(p, f)

RuntimeInv == TypeOK /\ InOrder /\ Alone /\ Accounted

\* At most one call of a process is busy.
LEMMA OneIsBusy ==
  ASSUME InOrder, NEW p \in Process, NEW i \in Call(p), NEW j \in Call(p),
         Unsettled(p, i), call[p][j] \notin {"new", "waiting"} \cup Settled
  PROVE  i = j
BY FilesystemRuntimeAssumption DEF InOrder, Unsettled, Call

\* A call does not begin as long as another is busy.
LEMMA NoneBegins ==
  ASSUME InOrder, NEW p \in Process, NEW i \in Call(p), NEW j \in Call(p),
         Unsettled(p, i), call[p][j] = "waiting"
  PROVE  ~MayRun(p, j)
<1> SUFFICES ASSUME MayRun(p, j) PROVE FALSE
  OBVIOUS
<1>0. MaxCalls[p] \in Nat  BY FilesystemRuntimeAssumption
<1>1. i \in Nat /\ j \in Nat /\ i >= 1 /\ j <= MaxCalls[p]  BY <1>0 DEF Call
<1>2. ~(j < i)  BY DEF InOrder, Unsettled, Settled
<1>3. i # j  BY DEF Unsettled
<1>4. j - 1 \in Call(p)  BY <1>0, <1>1, <1>2, <1>3 DEF Call
<1>5. call[p][j - 1] \in Settled  BY <1>4 DEF MayRun, Previous
<1>6. i < j - 1  BY <1>1, <1>2, <1>3, <1>5 DEF Unsettled
<1> QED  BY <1>4, <1>5, <1>6 DEF InOrder, Unsettled, Settled

\* A command of p goes on only if it has just been started or stays at work.
LEMMA CommandsOngoing ==
  ASSUME TypeOK, [Next]_vars, NEW p \in Process, op'[p] = "exec"
  PROVE  \/ \E i \in Call(p) : StartExec(p, i)
         \/ /\ op[p] = "exec"
            /\ \A i \in Call(p) : call[p][i] \in ExecPlace => call'[p][i] \in ExecPlace
<1> DEFINE Ongoing ==
      /\ op[p] = "exec"
      /\ \A i \in Call(p) : call[p][i] \in ExecPlace => call'[p][i] \in ExecPlace
<1> SUFFICES ASSUME \A i \in Call(p) : ~StartExec(p, i) PROVE Ongoing
  OBVIOUS
<1>0. /\ DOMAIN call = Process
      /\ \A q \in Process : call[q] \in [Call(q) -> CallPlace]
      /\ op \in [Process -> {"write", "exec"}]
  BY DEF TypeOK
<1>1. ASSUME NEW q \in Process, NEW i \in Call(q), NEW outcome, Ends(q, i, outcome)
      PROVE  Ongoing
  <2>1. q # p  BY <1>0, <1>1 DEF Ends
  <2> QED  BY <1>0, <1>1, <2>1 DEF Ends, Becomes
<1>2. ASSUME NEW q \in Process, NEW i \in Call(q), NEW place,
             Becomes(q, i, place), op'[p] = op[p],
             place \in ExecPlace \/ call[q][i] \notin ExecPlace
      PROVE  Ongoing
  <2>1. CASE q # p  BY <1>0, <1>2, <2>1 DEF Becomes
  <2>2. CASE q = p  BY <1>0, <1>2, <2>2 DEF Becomes
  <2> QED  BY <2>1, <2>2
<1>3. ASSUME UNCHANGED <<call, op>> PROVE Ongoing
  BY <1>3
<1>4. ASSUME NEW q \in Process, NEW i \in Call(q),
             Fails(q, i) \/ CaptureFails(q, i) \/ HandlerFails(q, i)
      PROVE  Ongoing
  BY <1>1, <1>4 DEF Fails, CaptureFails, HandlerFails
<1>5. ASSUME NEW q \in Process, NEW i \in Call(q),
             \/ LockRefused(q, i) \/ ReconcileFails(q, i) \/ RequestRefused(q, i)
             \/ NothingAltered(q, i) \/ CaptureStops(q, i) \/ GitAddFails(q, i)
             \/ Commit(q, i) \/ CommitFails(q, i)
      PROVE  Ongoing
  BY <1>1, <1>4, <1>5
     DEF LockRefused, ReconcileFails, RequestRefused, NothingAltered, CaptureStops,
         GitAddFails, Commit, CommitFails
<1>6. ASSUME NEW q \in Process, NEW i \in Call(q),
             Submit(q, i) \/ Begin(q, i) \/ BeginBlocked(q, i)
      PROVE  Ongoing
  BY <1>2, <1>6 DEF Submit, Begin, BeginBlocked, Is, ExecPlace
<1>7. ASSUME NEW q \in Process, NEW i \in Call(q),
             Reconcile(q, i) \/ StartWrite(q, i) \/ ToolReturns(q, i)
             \/ Capture(q, i) \/ GitAdd(q, i)
      PROVE  Ongoing
  BY <1>2, <1>7 DEF Reconcile, StartWrite, ToolReturns, Capture, GitAdd, Is, ExecPlace
<1>8. ASSUME NEW q \in Process, NEW i \in Call(q), StartExec(q, i)
      PROVE  Ongoing
  <2>1. q # p  BY <1>8
  <2>2. op'[p] = op[p]  BY <1>0, <1>8, <2>1 DEF StartExec
  <2> QED  BY <1>2, <1>8, <2>2 DEF StartExec, ExecPlace
<1>9. ASSUME NEW q \in Process, NEW i \in Call(q), ToolThrows(q, i)
      PROVE  Ongoing
  BY <1>2, <1>4, <1>9 DEF ToolThrows, Is, ExecPlace
<1>10. ASSUME NEW q \in Process, NEW i \in Call(q), CommitScan(q, i)
       PROVE  Ongoing
  BY <1>1, <1>2, <1>10 DEF CommitScan, Is, ExecPlace
<1>11. ASSUME NEW q \in Process, Crash(q) PROVE Ongoing
  <2>1. q # p  BY <1>0, <1>11 DEF Crash
  <2> QED  BY <1>0, <1>11, <2>1 DEF Crash
<1>12. ASSUME NEW q \in Process, NEW i \in Call(q), NEW f \in File,
              ToolWrites(q, i, f) \/ CommandWrites(q, i, f)
       PROVE  Ongoing
  BY <1>3, <1>12 DEF ToolWrites, CommandWrites, calls
<1>13. ASSUME NEW q \in Process, Locks(q) \/ Restart(q) PROVE Ongoing
  BY <1>3, <1>13 DEF Locks, Restart, calls
<1>14. CASE TimePasses \/ UNCHANGED vars \/ \E f \in File : HumanSaves(f)
  BY <1>3, <1>14 DEF TimePasses, HumanSaves, vars, calls
<1> HIDE DEF Ongoing
<1> QED
  BY <1>5, <1>6, <1>7, <1>8, <1>9, <1>10, <1>11, <1>12, <1>13, <1>14
     DEF Next, Proceeds, ToolEnds, ToolActs

\* A process gets busy only by beginning a call.
LEMMA WhoGetsBusy ==
  ASSUME TypeOK, [Next]_vars, NEW q \in Process, ~Busy(q), Busy(q)'
  PROVE  Apart => ~OthersRunCommand(q)
<1>1. result \in [Process -> {"ok", "failed"}]  BY DEF TypeOK
<1>2. DOMAIN call = Process /\ \A p \in Process : call[p] \in [Call(p) -> CallPlace]
  BY DEF TypeOK
<1>3. PICK j \in Call(q) : call'[q][j] \notin {"new", "waiting"} \cup Settled
  BY DEF Busy, Call
<1>4. call[q][j] \in {"new", "waiting"} \cup Settled  BY DEF Busy
<1>5. ~UNCHANGED call  BY <1>3, <1>4
<1>6. PICK p \in Process : CallStep(p)  BY <1>1, <1>5, StepsOfTheCalls
<1>7. CASE CallsLost(p)  BY <1>2, <1>3, <1>4, <1>7 DEF CallsLost, Settled
<1>8. ASSUME NEW i \in Call(p),
             CallMade(p, i) \/ CallBlocked(p, i) \/ CallAdvanced(p, i) \/ CallLatched(p, i)
      PROVE  FALSE
  <2>1. p = q
    BY <1>2, <1>3, <1>4, <1>8
       DEF CallMade, CallBlocked, CallAdvanced, CallLatched, Becomes
  <2>2. ~Unsettled(p, i)  BY <2>1 DEF Busy, Unsettled
  <2> QED
    BY <1>2, <1>3, <1>4, <1>8, <2>1, <2>2
       DEF CallMade, CallBlocked, CallAdvanced, CallLatched, Becomes, Settled
<1>9. ASSUME NEW i \in Call(p), CallBegun(p, i)
      PROVE  Apart => ~OthersRunCommand(q)
  <2>1. p = q  BY <1>2, <1>3, <1>4, <1>9 DEF CallBegun, Becomes
  <2> QED  BY <1>9, <2>1 DEF CallBegun
<1> QED  BY <1>6, <1>7, <1>8, <1>9 DEF CallStep

LEMMA AloneKept ==
  ASSUME KeptApart, TypeOK, Alone, [Next]_vars
  PROVE  Alone'
<1> SUFFICES ASSUME NEW p \in Process, op'[p] = "exec"
             PROVE  /\ \E i \in Call(p) : call'[p][i] \in ExecPlace
                    /\ \A q \in Process \ {p} : ~Busy(q)'
  BY DEF Alone, Call
<1>1. DOMAIN call = Process /\ \A q \in Process : call[q] \in [Call(q) -> CallPlace]
  BY DEF TypeOK
<1>a. \A q \in Process \ {p} : Apart  BY DEF KeptApart
<1>2. ASSUME NEW i \in Call(p), StartExec(p, i)
      PROVE  /\ \E j \in Call(p) : call'[p][j] \in ExecPlace
             /\ \A q \in Process \ {p} : ~Busy(q)'
  <2>1. call'[p][i] \in ExecPlace  BY <1>1, <1>2 DEF StartExec, Becomes, ExecPlace
  <2>2. \A q \in Process \ {p} : ~Busy(q) /\ call'[q] = call[q]
    BY <1>1, <1>a, <1>2 DEF StartExec, Becomes
  <2> QED  BY <2>1, <2>2 DEF Busy, Call
<1>3. ASSUME op[p] = "exec",
             \A i \in Call(p) : call[p][i] \in ExecPlace => call'[p][i] \in ExecPlace
      PROVE  /\ \E j \in Call(p) : call'[p][j] \in ExecPlace
             /\ \A q \in Process \ {p} : ~Busy(q)'
  <2>1. \E i \in Call(p) : call[p][i] \in ExecPlace  BY <1>3 DEF Alone
  <2>2. Busy(p)  BY <2>1 DEF Busy, ExecPlace, Settled
  <2>3. \A q \in Process \ {p} : ~Busy(q) /\ OthersRunCommand(q)
    BY <1>3, <2>2 DEF Alone, OthersRunCommand
  <2> QED  BY <1>a, <1>3, <2>1, <2>3, WhoGetsBusy
<1> QED  BY <1>2, <1>3, CommandsOngoing

\* Only a command of p makes p the writer of a file.
LEMMA WhoWrites ==
  ASSUME TypeOK, [Next]_vars, NEW p \in Process, NEW f \in File, writer'[f] = p
  PROVE  \/ writer[f] = p
         \/ \E i \in Call(p) : CommandWrites(p, i, f)
<1> USE CommitLockAssumption
<1>0. writer \in [File -> Process \cup {Nobody}]  BY DEF TypeOK
<1>1. ASSUME UNCHANGED writer PROVE writer[f] = p
  BY <1>1
<1>2. ASSUME NEW q \in Process, NEW i \in Call(q),
             \/ Submit(q, i) \/ Begin(q, i) \/ BeginBlocked(q, i)
             \/ LockRefused(q, i) \/ ReconcileFails(q, i)
             \/ StartWrite(q, i) \/ StartExec(q, i) \/ RequestRefused(q, i)
             \/ ToolReturns(q, i) \/ ToolThrows(q, i) \/ NothingAltered(q, i)
             \/ GitAdd(q, i) \/ GitAddFails(q, i) \/ CommitScan(q, i)
             \/ CommitFails(q, i) \/ Capture(q, i) \/ CaptureStops(q, i)
             \/ \E g \in File : ToolWrites(q, i, g)
      PROVE  writer[f] = p
  BY <1>1, <1>2
     DEF Submit, Begin, BeginBlocked, LockRefused, ReconcileFails, StartWrite,
         StartExec, RequestRefused, ToolReturns, ToolThrows, NothingAltered,
         GitAdd, GitAddFails, CommitScan, CommitFails, Capture, CaptureStops,
         ToolWrites
<1>3. ASSUME NEW q \in Process, NEW i \in Call(q), Reconcile(q, i) \/ Commit(q, i)
      PROVE  writer[f] = p
  BY <1>0, <1>3 DEF Reconcile, Commit
<1>4. ASSUME NEW q \in Process, NEW i \in Call(q), NEW g \in File, CommandWrites(q, i, g)
      PROVE  writer[f] = p \/ (p = q /\ CommandWrites(p, i, f))
  <2>1. CASE g = f
    <3>1. writer'[f] \in {q, Nobody}  BY <1>0, <1>4, <2>1 DEF CommandWrites
    <3> QED  BY <1>4, <2>1, <3>1
  <2>2. CASE g # f  BY <1>0, <1>4, <2>2 DEF CommandWrites
  <2> QED  BY <2>1, <2>2
<1>5. ASSUME NEW g \in File, HumanSaves(g) PROVE writer[f] = p
  BY <1>0, <1>5 DEF HumanSaves
<1>6. ASSUME NEW q \in Process, Crash(q) PROVE writer[f] = p
  BY <1>0, <1>6 DEF Crash
<1>7. ASSUME NEW q \in Process, Locks(q) \/ Restart(q) PROVE writer[f] = p
  BY <1>1, <1>7 DEF Locks, Restart
<1>8. CASE TimePasses \/ UNCHANGED vars  BY <1>1, <1>8 DEF TimePasses, vars
<1> QED
  BY <1>2, <1>3, <1>4, <1>5, <1>6, <1>7, <1>8 DEF Next, Proceeds, ToolEnds, ToolActs

\* What p has written and p still accounts for is not moved by others, nor is
\* the text it is compared with.
LEMMA WrittenStays ==
  ASSUME TypeOK, [Next]_vars, NEW p \in Process, NEW f \in File,
         writer[f] = p, writer'[f] = p,
         \A i \in Call(p) : ~CommandWrites(p, i, f)
  PROVE  human'[f] = human[f] /\ head'[f] = head[f]
<1> USE CommitLockAssumption
<1>0. /\ writer \in [File -> Process \cup {Nobody}]
      /\ human \in [File -> Plain]
      /\ head \in [File -> Text]
  BY DEF TypeOK
<1>1. ASSUME UNCHANGED <<human, head>> PROVE human'[f] = human[f] /\ head'[f] = head[f]
  BY <1>1
<1>2. ASSUME NEW q \in Process, NEW i \in Call(q),
             \/ Submit(q, i) \/ Begin(q, i) \/ BeginBlocked(q, i)
             \/ LockRefused(q, i) \/ ReconcileFails(q, i)
             \/ StartWrite(q, i) \/ StartExec(q, i) \/ RequestRefused(q, i)
             \/ ToolReturns(q, i) \/ ToolThrows(q, i) \/ NothingAltered(q, i)
             \/ GitAdd(q, i) \/ GitAddFails(q, i) \/ CommitScan(q, i)
             \/ CommitFails(q, i) \/ Capture(q, i) \/ CaptureStops(q, i)
             \/ \E g \in File : ToolWrites(q, i, g)
      PROVE  human'[f] = human[f] /\ head'[f] = head[f]
  BY <1>1, <1>2
     DEF Submit, Begin, BeginBlocked, LockRefused, ReconcileFails, StartWrite,
         StartExec, RequestRefused, ToolReturns, ToolThrows, NothingAltered,
         GitAdd, GitAddFails, CommitScan, CommitFails, Capture, CaptureStops,
         ToolWrites, files
<1>3. ASSUME NEW q \in Process, NEW i \in Call(q), Reconcile(q, i) \/ Commit(q, i)
      PROVE  human'[f] = human[f] /\ head'[f] = head[f]
  BY <1>0, <1>3 DEF Reconcile, Commit
<1>4. ASSUME NEW q \in Process, NEW i \in Call(q), NEW g \in File, CommandWrites(q, i, g)
      PROVE  human'[f] = human[f] /\ head'[f] = head[f]
  <2>1. g # f
    <3> SUFFICES ASSUME g = f PROVE FALSE
      OBVIOUS
    <3>1. writer'[f] \in {q, Nobody}  BY <1>0, <1>4 DEF CommandWrites
    <3> QED  BY <1>4, <3>1
  <2> QED  BY <1>0, <1>4, <2>1 DEF CommandWrites
<1>5. ASSUME NEW g \in File, HumanSaves(g)
      PROVE  human'[f] = human[f] /\ head'[f] = head[f]
  <2>1. g # f  BY <1>0, <1>5 DEF HumanSaves
  <2> QED  BY <1>0, <1>5, <2>1 DEF HumanSaves
<1>6. ASSUME NEW q \in Process, Crash(q) \/ Locks(q) \/ Restart(q)
      PROVE  human'[f] = human[f] /\ head'[f] = head[f]
  BY <1>1, <1>6 DEF Crash, Locks, Restart, files
<1>7. CASE TimePasses \/ UNCHANGED vars
  BY <1>1, <1>7 DEF TimePasses, vars, files
<1> QED
  BY <1>2, <1>3, <1>4, <1>5, <1>6, <1>7 DEF Next, Proceeds, ToolEnds, ToolActs

\* While p has something due, the others do not touch what it depends on.
LEMMA OthersKeepAway ==
  ASSUME KeptApart, TypeOK, InOrder, Alone, NEW p \in Process, op[p] = "exec",
         NEW q \in Process \ {p},
         \/ Locks(q) \/ Crash(q) \/ Restart(q)
         \/ \E i \in Call(q) :
              \/ Submit(q, i) \/ Begin(q, i) \/ BeginBlocked(q, i) \/ LockRefused(q, i)
              \/ Reconcile(q, i) \/ ReconcileFails(q, i)
              \/ StartWrite(q, i) \/ StartExec(q, i) \/ RequestRefused(q, i)
              \/ ToolReturns(q, i) \/ ToolThrows(q, i)
              \/ NothingAltered(q, i) \/ Capture(q, i) \/ CaptureStops(q, i)
              \/ GitAdd(q, i) \/ GitAddFails(q, i)
              \/ CommitScan(q, i) \/ Commit(q, i) \/ CommitFails(q, i)
              \/ \E f \in File : ToolWrites(q, i, f) \/ CommandWrites(q, i, f)
  PROVE  /\ agent' = agent /\ human' = human
         /\ call'[p] = call[p] /\ op'[p] = op[p]
         /\ job'[p] = job[p] /\ latch'[p] = latch[p]
<1>0. /\ DOMAIN call = Process
      /\ op \in [Process -> {"write", "exec"}]
      /\ job \in [Process -> Job]
      /\ latch \in [Process -> BOOLEAN]
  BY DEF TypeOK
<1>1. ~Busy(q)  BY DEF Alone
<1>2. \A i \in Call(q) : call[q][i] \in {"new", "waiting"} \cup Settled
  BY <1>1 DEF Busy
<1>3. OthersRunCommand(q)
  BY DEF OthersRunCommand, Alone, Busy, ExecPlace, Settled
<1>4. ASSUME NEW i \in Call(q), Submit(q, i) \/ BeginBlocked(q, i)
      PROVE  /\ agent' = agent /\ human' = human
             /\ call'[p] = call[p] /\ op'[p] = op[p]
             /\ job'[p] = job[p] /\ latch'[p] = latch[p]
  BY <1>0, <1>4 DEF Submit, BeginBlocked, Becomes, files
<1>5. CASE Crash(q)  BY <1>0, <1>5 DEF Crash, files
<1>6. CASE Restart(q)  BY <1>6 DEF Restart, files, calls
<1>7. ~Locks(q)  BY <1>2 DEF Locks, Settled
<1>8. ASSUME NEW i \in Call(q) PROVE ~Begin(q, i)
  <2>1. Apart  BY DEF KeptApart
  <2> QED  BY <1>3, <2>1 DEF Begin
<1>9. ASSUME NEW i \in Call(q)
      PROVE  /\ ~LockRefused(q, i) /\ ~Reconcile(q, i) /\ ~ReconcileFails(q, i)
             /\ ~StartWrite(q, i) /\ ~StartExec(q, i) /\ ~RequestRefused(q, i)
             /\ ~ToolReturns(q, i) /\ ~ToolThrows(q, i)
             /\ ~NothingAltered(q, i) /\ ~Capture(q, i) /\ ~CaptureStops(q, i)
             /\ ~GitAdd(q, i) /\ ~GitAddFails(q, i)
             /\ ~CommitScan(q, i) /\ ~Commit(q, i) /\ ~CommitFails(q, i)
             /\ \A f \in File : ~ToolWrites(q, i, f) /\ ~CommandWrites(q, i, f)
  BY <1>2
     DEF LockRefused, Reconcile, ReconcileFails, StartWrite, StartExec,
         RequestRefused, ToolReturns, ToolThrows, NothingAltered, Capture,
         CaptureStops, GitAdd, GitAddFails, CommitScan, CommitDue, Commit,
         CommitFails, ToolWrites, CommandWrites, Is, Settled
<1> QED  BY <1>4, <1>5, <1>6, <1>7, <1>8, <1>9

\* Only a crash unsets a latch.
LEMMA LatchKept ==
  ASSUME latch \in [Process -> BOOLEAN], [Next]_vars, NEW p \in Process, latch[p], ~Crash(p)
  PROVE  latch'[p]
<1>1. ASSUME NEW q \in Process, NEW i \in Call(q),
             Fails(q, i) \/ CaptureFails(q, i) \/ HandlerFails(q, i)
      PROVE  latch'[p]
  BY <1>1 DEF Fails, CaptureFails, HandlerFails
<1>2. ASSUME NEW q \in Process, NEW i \in Call(q),
             \/ LockRefused(q, i) \/ ReconcileFails(q, i) \/ RequestRefused(q, i)
             \/ CaptureStops(q, i) \/ GitAddFails(q, i) \/ CommitFails(q, i)
      PROVE  latch'[p]
  BY <1>1, <1>2
     DEF LockRefused, ReconcileFails, RequestRefused, CaptureStops, GitAddFails, CommitFails
<1>3. ASSUME NEW q \in Process, NEW i \in Call(q),
             \/ Submit(q, i) \/ Begin(q, i) \/ BeginBlocked(q, i) \/ Reconcile(q, i)
             \/ StartWrite(q, i) \/ StartExec(q, i) \/ ToolReturns(q, i)
             \/ NothingAltered(q, i) \/ Capture(q, i) \/ GitAdd(q, i)
             \/ CommitScan(q, i) \/ Commit(q, i)
             \/ \E f \in File : ToolWrites(q, i, f) \/ CommandWrites(q, i, f)
      PROVE  latch'[p]
  BY <1>3
     DEF Submit, Begin, BeginBlocked, Reconcile, StartWrite, StartExec, ToolReturns,
         NothingAltered, Capture, GitAdd, CommitScan, Commit, ToolWrites,
         CommandWrites, calls
<1>4. ASSUME NEW q \in Process, NEW i \in Call(q), ToolThrows(q, i) PROVE latch'[p]
  BY <1>1, <1>4 DEF ToolThrows
<1>5. ASSUME NEW q \in Process, Crash(q) PROVE latch'[p]
  <2>1. q # p  BY <1>5
  <2> QED  BY <1>5, <2>1 DEF Crash
<1>6. ASSUME NEW q \in Process, Locks(q) \/ Restart(q) PROVE latch'[p]
  BY <1>6 DEF Locks, Restart, calls
<1>7. CASE TimePasses \/ UNCHANGED vars \/ \E f \in File : HumanSaves(f)
  BY <1>7 DEF TimePasses, HumanSaves, vars, calls
<1> QED
  BY <1>2, <1>3, <1>4, <1>5, <1>6, <1>7 DEF Next, Proceeds, ToolEnds, ToolActs

\* What is due stays due until it is committed or the latch is set.
LEMMA DueKept ==
  ASSUME TypeOK, InOrder, Alone, NEW p \in Process, NEW f \in File,
         NEW i \in Call(p), op[p] = "exec", Due(p, i, f),
         human'[f] = human[f], head'[f] = head[f],
         writer[f] = p, writer'[f] = p, NEW j \in Call(p),
         \/ Submit(p, j) \/ Begin(p, j) \/ BeginBlocked(p, j) \/ LockRefused(p, j)
         \/ Reconcile(p, j) \/ ReconcileFails(p, j)
         \/ StartWrite(p, j) \/ StartExec(p, j) \/ RequestRefused(p, j)
         \/ ToolReturns(p, j) \/ ToolThrows(p, j)
         \/ NothingAltered(p, j) \/ Capture(p, j) \/ CaptureStops(p, j)
         \/ GitAdd(p, j) \/ GitAddFails(p, j)
         \/ CommitScan(p, j) \/ Commit(p, j) \/ CommitFails(p, j)
         \/ \E g \in File : ToolWrites(p, j, g) \/ CommandWrites(p, j, g)
  PROVE  Covered(p, f)'
<1> USE CommitLockAssumption
<1>0. /\ DOMAIN call = Process
      /\ call[p] \in [Call(p) -> CallPlace]
      /\ op \in [Process -> {"write", "exec"}]
      /\ job \in [Process -> Job]
      /\ latch \in [Process -> BOOLEAN]
      /\ agent \in [File -> Text]
      /\ human \in [File -> Plain]
      /\ writer \in [File -> Process \cup {Nobody}]
  BY DEF TypeOK
<1>1. Unsettled(p, i)  BY DEF Due, Unsettled, Settled
<1>2. call[p][i] \in ExecPlace  BY DEF Due, ExecPlace
<1>3. \A k \in Call(p) : call[p][k] \notin {"new", "waiting"} \cup Settled => k = i
  BY <1>1, OneIsBusy
<1>4. ASSUME latch'[p] PROVE Covered(p, f)'
  BY <1>4 DEF Covered
<1>5. ASSUME op'[p] = "exec", Due(p, i, f)' PROVE Covered(p, f)'
  BY <1>5 DEF Covered, Call
<1>6. ASSUME human[f] = Resolve(head[f]) PROVE Covered(p, f)'
  BY <1>6 DEF Covered, Resolve
<1>7. ASSUME CaptureFails(p, j) PROVE Covered(p, f)'
  BY <1>0, <1>4, <1>7 DEF CaptureFails
<1>8. CASE Submit(p, j)
  <2>1. call'[p][i] = call[p][i]
    BY <1>0, <1>1, <1>8 DEF Submit, Is, Becomes, Unsettled
  <2> QED  BY <1>5, <1>8, <2>1 DEF Submit, Due, files, Resolve
<1>9. ~Begin(p, j) /\ ~BeginBlocked(p, j)
  BY <1>1, NoneBegins DEF Begin, BeginBlocked, Is
<1>10. /\ ~Reconcile(p, j) /\ ~ReconcileFails(p, j)
       /\ ~StartWrite(p, j) /\ ~StartExec(p, j) /\ ~RequestRefused(p, j)
  BY <1>2, <1>3
     DEF Reconcile, ReconcileFails, StartWrite, StartExec, RequestRefused, Is,
         ExecPlace, Settled
<1>11. CASE LockRefused(p, j)
  <2>1. j = i  BY <1>3, <1>11 DEF LockRefused, Settled
  <2>2. ~Is(p, j, "listed")  BY <1>2, <2>1 DEF Is, ExecPlace
  <2> QED  BY <1>7, <1>11, <2>2 DEF LockRefused, HandlerFails
<1>12. ASSUME NEW g \in File, ToolWrites(p, j, g) PROVE FALSE
  BY <1>12 DEF ToolWrites
<1>13. ASSUME NEW g \in File, CommandWrites(p, j, g) PROVE Covered(p, f)'
  BY <1>5, <1>13 DEF CommandWrites, calls, Due, Resolve
<1>14. CASE ToolReturns(p, j)
  <2>1. j = i  BY <1>3, <1>14 DEF ToolReturns, Is, Settled
  <2>2. call'[p][i] = "ran" /\ call[p][i] = "running"
    BY <1>0, <1>14, <2>1 DEF ToolReturns, Becomes, Is
  <2> QED  BY <1>5, <1>14, <2>2 DEF ToolReturns, Due
<1>15. CASE ToolThrows(p, j)
  <2>1. j = i  BY <1>3, <1>15 DEF ToolThrows, Is, Settled
  <2>2. call'[p][i] = "ran" /\ call[p][i] = "running"
    BY <1>0, <1>15, <2>1 DEF ToolThrows, Becomes, Is
  <2> QED  BY <1>5, <1>15, <2>2 DEF ToolThrows, Due
<1>16. CASE NothingAltered(p, j)
  <2>1. j = i  BY <1>3, <1>16 DEF NothingAltered, Is, Settled
  <2>2. human[f] # job[p].text[f] /\ human[f] \in Output
    BY <1>16, <2>1 DEF NothingAltered, Is, Due
  <2>3. f \in Altered(p)  BY <2>2, FilesystemRuntimeAssumption DEF Altered
  <2> QED  BY <1>16, <2>3 DEF NothingAltered
<1>17. CASE Capture(p, j)
  <2>1. j = i  BY <1>3, <1>17 DEF Capture, Is, Settled
  <2>2. human[f] # job[p].text[f] /\ human[f] \in Output
    BY <1>17, <2>1 DEF Capture, Is, Due
  <2>3. f \in Altered(p)  BY <2>2, FilesystemRuntimeAssumption DEF Altered
  <2>4. agent'[f] = Captured(f)  BY <1>0, <1>17, <2>3 DEF Capture
  <2>5. Resolve(agent'[f]) = human[f]
    <3>1. CASE human[f] = Absent
      BY <2>4, <3>1, FilesystemRuntimeAssumption DEF Captured, Resolve
    <3>2. CASE human[f] # Absent
      <4>1. human[f] # Dangling  BY <2>2, FilesystemRuntimeAssumption
      <4> QED  BY <2>2, <2>4, <3>2, <4>1 DEF Captured, Resolve, Symbol
    <3> QED  BY <3>1, <3>2
  <2>6. job'[p].own = Altered(p)  BY <1>0, <1>17 DEF Capture, Job
  <2>7. call'[p][i] = "captured"  BY <1>0, <1>17, <2>1 DEF Capture, Becomes
  <2> QED  BY <1>5, <1>17, <2>3, <2>5, <2>6, <2>7 DEF Capture, Due, Resolve
<1>18. CASE CaptureStops(p, j)
  BY <1>7, <1>18 DEF CaptureStops
<1>19. CASE GitAdd(p, j)
  <2>1. j = i  BY <1>3, <1>19 DEF GitAdd, Is, Settled
  <2>2. f \in job[p].own /\ Resolve(agent[f]) = human[f]
    BY <1>19, <2>1 DEF GitAdd, Is, Due
  <2>3. job'[p].own = job[p].own /\ job'[p].text = human
    BY <1>0, <1>19 DEF GitAdd, Job
  <2>4. call'[p][i] = "added"  BY <1>0, <1>19, <2>1 DEF GitAdd, Becomes
  <2> QED  BY <1>5, <1>19, <2>2, <2>3, <2>4 DEF GitAdd, Due, files, Resolve
<1>20. CASE GitAddFails(p, j)
  BY <1>7, <1>20 DEF GitAddFails
<1>21. CASE CommitScan(p, j)
  <2> DEFINE changed == {g \in File : agent[g] # head[g]}
  <2>1. j = i  BY <1>3, <1>21 DEF CommitScan, CommitDue, Is, Settled
  <2>2. call[p][i] = "added"  BY <1>21, <2>1 DEF CommitScan, CommitDue, Is
  <2>3. /\ f \in job[p].own
        /\ Resolve(agent[f]) = human[f]
        /\ human[f] = job[p].text[f]
    BY <2>2 DEF Due
  <2>4. CASE f \notin changed
    BY <1>6, <2>3, <2>4
  <2>5. CASE f \in changed
    <3>1. changed # {}  BY <2>5
    <3>2. job' = [job EXCEPT ![p].todo = changed] /\ UNCHANGED op
      BY <1>21, <3>1 DEF CommitScan
    <3>3. call'[p][i] = "scanned"
      BY <1>0, <1>21, <2>1, <3>1 DEF CommitScan, Becomes
    <3> HIDE DEF changed
    <3>4. job'[p].own = job[p].own /\ job'[p].text = job[p].text /\ job'[p].todo = changed
      BY <1>0, <3>2 DEF Job
    <3> QED  BY <1>5, <2>3, <2>5, <3>2, <3>3, <3>4 DEF Due
  <2> QED  BY <2>4, <2>5
<1>22. CASE Commit(p, j)
  <2>1. j = i  BY <1>3, <1>22 DEF Commit, Is, Settled
  <2>2. f \in Safe(p)  BY <1>22, <2>1 DEF Commit, Is, Due, Safe
  <2>3. writer'[f] = Nobody  BY <1>0, <1>22, <2>2 DEF Commit
  <2> QED  BY <2>3
<1>23. CASE CommitFails(p, j)
  BY <1>7, <1>23 DEF CommitFails, HandlerFails
<1> QED
  BY <1>8, <1>9, <1>10, <1>11, <1>12, <1>13, <1>14, <1>15, <1>16, <1>17, <1>18,
     <1>19, <1>20, <1>21, <1>22, <1>23

LEMMA AccountedKept ==
  ASSUME KeptApart, RuntimeInv, [Next]_vars
  PROVE  Accounted'
<1> USE DEF RuntimeInv
<1> SUFFICES ASSUME NEW p \in Process, NEW f \in File, writer'[f] = p
             PROVE  at'[p] # "down" /\ Covered(p, f)'
  BY DEF Accounted, Alive
<1> USE CommitLockAssumption
<1>0. /\ LockTypeOK
      /\ writer \in [File -> Process \cup {Nobody}]
      /\ op \in [Process -> {"write", "exec"}]
      /\ latch \in [Process -> BOOLEAN]
  BY DEF TypeOK
<1>1. ~Crash(p)  BY <1>0 DEF Crash
<1>2. at'[p] # "down"
  <2>1. CASE writer[f] = p
    <3>1. at[p] # "down"  BY <2>1 DEF Accounted, Alive
    <3> QED  BY <1>0, <1>1, <3>1, WhoGoesDown
  <2>2. ASSUME NEW i \in Call(p), CommandWrites(p, i, f) PROVE at'[p] # "down"
    <3>1. call[p][i] = "running"  BY <2>2 DEF CommandWrites, Is
    <3>2. at[p] # "down"  BY <3>1 DEF TypeOK, Settled
    <3> QED  BY <2>2, <3>2 DEF CommandWrites, lockVars
  <2> QED  BY <2>1, <2>2, WhoWrites
<1>3. ASSUME NEW i \in Call(p), CommandWrites(p, i, f) PROVE Covered(p, f)'
  <2>1. PICK t \in Output \cup {Absent, Link, Dangling} :
          /\ human' = [human EXCEPT ![f] = t]
          /\ writer' = [writer EXCEPT ![f] =
               IF t \in Output \ {job[p].text[f]} THEN p ELSE Nobody]
    BY <1>3 DEF CommandWrites
  <2>2. t # job[p].text[f] /\ t \in Output  BY <1>0, <2>1
  <2>3. human'[f] = t  BY <2>1 DEF TypeOK
  <2>4. Due(p, i, f)'
    BY <1>3, <2>2, <2>3 DEF CommandWrites, Is, Due, calls
  <2>5. op'[p] = "exec"  BY <1>3 DEF CommandWrites, calls
  <2> QED  BY <2>4, <2>5 DEF Covered, Call
<1>4. ASSUME writer[f] = p, \A i \in Call(p) : ~CommandWrites(p, i, f)
      PROVE  Covered(p, f)'
  <2>1. human'[f] = human[f] /\ head'[f] = head[f]  BY <1>4, WrittenStays
  <2>2. Covered(p, f)  BY <1>4 DEF Accounted
  <2>3. CASE human[f] = Resolve(head[f])  BY <2>1, <2>3 DEF Covered, Resolve
  <2>4. CASE latch[p]
    <3>1. latch'[p]  BY <1>0, <1>1, <2>4, LatchKept
    <3> QED  BY <3>1 DEF Covered
  <2>5. ASSUME op[p] = "exec", NEW i \in Call(p), Due(p, i, f) PROVE Covered(p, f)'
    <3>1. ASSUME /\ agent' = agent
                 /\ call'[p] = call[p] /\ op'[p] = op[p]
                 /\ job'[p] = job[p] /\ latch'[p] = latch[p]
          PROVE  Covered(p, f)'
      <4>1. Due(p, i, f)'  BY <2>1, <2>5, <3>1 DEF Due, Resolve
      <4> QED  BY <2>5, <3>1, <4>1 DEF Covered, Call
    <3>2. CASE TimePasses \/ UNCHANGED vars \/ \E g \in File : HumanSaves(g)
      BY <3>1, <3>2 DEF TimePasses, HumanSaves, vars, calls, files
    <3>3. CASE Locks(p) \/ Restart(p)
      BY <3>1, <3>3 DEF Locks, Restart, calls, files
    <3> QED
      BY <1>1, <1>4, <2>1, <2>5, <3>1, <3>2, <3>3, DueKept, OthersKeepAway
         DEF Next, Proceeds, ToolEnds, ToolActs
  <2> QED  BY <2>2, <2>3, <2>4, <2>5 DEF Covered
<1> QED  BY <1>2, <1>3, <1>4, WhoWrites

LEMMA RuntimeInvInitially == Init => RuntimeInv
<1> SUFFICES ASSUME Init PROVE RuntimeInv
  OBVIOUS
<1>1. Alone  BY DEF Init, Alone
<1>2. Accounted  BY CommitLockAssumption DEF Init, Accounted
<1> QED  BY <1>1, <1>2, TypesInitially, ChainInitially DEF RuntimeInv

LEMMA RuntimeInvKept ==
  ASSUME KeptApart, RuntimeInv, LatchStopsTools, [Next]_vars
  PROVE  RuntimeInv'
<1>1. TypeOK'  BY TypesKept DEF RuntimeInv
<1>2. InOrder'  BY OrderKept DEF RuntimeInv
<1>3. Alone'  BY AloneKept DEF RuntimeInv
<1> QED  BY <1>1, <1>2, <1>3, AccountedKept DEF RuntimeInv

\* Of one process; of several, if no other has a call at work while one has an
\* unrestricted command: when a process is between calls, nothing that its
\* commands have left in the Human view is bare, or the latch is set.
THEOREM NothingEscapesCapture ==
  ASSUME KeptApart
  PROVE  Spec => []CapturedOrLatched
<1>1. RuntimeInv => CapturedOrLatched
  <2> SUFFICES ASSUME RuntimeInv, NEW p \in Process, NEW f \in File,
                      Alive(p), ~Busy(p), Bare(p, f)
               PROVE  latch[p]
    BY DEF CapturedOrLatched
  <2>1. Covered(p, f) /\ human[f] # Resolve(head[f])
    BY DEF RuntimeInv, Accounted, Bare
  <2>2. op[p] # "exec"
    BY DEF RuntimeInv, Alone, Busy, ExecPlace, Settled
  <2> QED  BY <2>1, <2>2 DEF Covered
<1>2. RuntimeInv /\ LatchStopsTools /\ [Next]_vars => RuntimeInv'
  BY RuntimeInvKept
<1> QED  BY <1>1, <1>2, RuntimeInvInitially, LatchStops, PTL DEF Spec

---------------------------------------------------------------------------
(***************************************************************************)
(* What a step may never do: take the output of its own command for the    *)
(* human's, or replace what the human has saved.                           *)
(***************************************************************************)
\* The steps of one process
StepOf(q) ==
  \/ Proceeds(q) \/ ToolEnds(q) \/ ToolActs(q) \/ Crash(q) \/ Restart(q)
  \/ \E i \in Call(q) : Submit(q, i)

\* Every step is one of a process, or leaves all calls and the Agent view alone.
LEMMA WhoSteps ==
  ASSUME [Next]_vars
  PROVE  \/ \E q \in Process : StepOf(q)
         \/ UNCHANGED <<calls, agent>>
<1>1. CASE TimePasses \/ UNCHANGED vars \/ \E f \in File : HumanSaves(f)
  BY <1>1 DEF TimePasses, HumanSaves, vars, calls, files
<1> QED  BY <1>1 DEF Next, StepOf

\* A process leaves the calls of the others alone.
LEMMA CallsOfOthers ==
  ASSUME TypeOK, NEW p \in Process, NEW q \in Process \ {p}, StepOf(q)
  PROVE  call'[p] = call[p] /\ op'[p] = op[p] /\ job'[p] = job[p]
<1> DEFINE Same == call'[p] = call[p] /\ op'[p] = op[p] /\ job'[p] = job[p]
<1>0. /\ DOMAIN call = Process
      /\ op \in [Process -> {"write", "exec"}]
      /\ job \in [Process -> Job]
  BY DEF TypeOK
<1>1. ASSUME NEW i \in Call(q), NEW place, Becomes(q, i, place)
      PROVE  call'[p] = call[p]
  BY <1>0, <1>1 DEF Becomes
<1>2. ASSUME NEW i \in Call(q), NEW outcome, Ends(q, i, outcome) PROVE Same
  BY <1>0, <1>1, <1>2 DEF Ends
<1>3. ASSUME NEW i \in Call(q),
             Fails(q, i) \/ CaptureFails(q, i) \/ HandlerFails(q, i)
      PROVE  Same
  BY <1>2, <1>3 DEF Fails, CaptureFails, HandlerFails
<1>4. ASSUME NEW i \in Call(q),
             \/ LockRefused(q, i) \/ ReconcileFails(q, i) \/ RequestRefused(q, i)
             \/ NothingAltered(q, i) \/ CaptureStops(q, i) \/ GitAddFails(q, i)
             \/ Commit(q, i) \/ CommitFails(q, i)
      PROVE  Same
  BY <1>2, <1>3, <1>4
     DEF LockRefused, ReconcileFails, RequestRefused, NothingAltered, CaptureStops,
         GitAddFails, Commit, CommitFails
<1>5. ASSUME NEW i \in Call(q),
             \/ Submit(q, i) \/ Begin(q, i) \/ BeginBlocked(q, i) \/ Reconcile(q, i)
             \/ StartWrite(q, i) \/ StartExec(q, i) \/ ToolReturns(q, i)
             \/ Capture(q, i) \/ GitAdd(q, i)
      PROVE  Same
  BY <1>0, <1>1, <1>5
     DEF Submit, Begin, BeginBlocked, Reconcile, StartWrite, StartExec, ToolReturns,
         Capture, GitAdd
<1>6. ASSUME NEW i \in Call(q), ToolThrows(q, i) \/ CommitScan(q, i) PROVE Same
  BY <1>0, <1>1, <1>2, <1>3, <1>6 DEF ToolThrows, CommitScan
<1>7. ASSUME NEW i \in Call(q), NEW f \in File, ToolWrites(q, i, f) \/ CommandWrites(q, i, f)
      PROVE  Same
  BY <1>7 DEF ToolWrites, CommandWrites, calls
<1>8. CASE Locks(q) \/ Restart(q)
  BY <1>8 DEF Locks, Restart, calls
<1>9. CASE Crash(q)
  BY <1>0, <1>9 DEF Crash
<1>10. CASE Proceeds(q)
  BY <1>4, <1>5, <1>6, <1>8, <1>10 DEF Proceeds
<1>11. CASE ToolEnds(q)
  BY <1>5, <1>6, <1>11 DEF ToolEnds
<1>12. CASE ToolActs(q)
  BY <1>7, <1>12 DEF ToolActs
<1>13. Same
  BY <1>5, <1>8, <1>9, <1>10, <1>11, <1>12 DEF StepOf
<1> QED  BY <1>13 DEF Same

\* A busy call that stays where it is keeps what its handlers remember; and
\* while no tool runs, its process leaves the Agent view alone.
LEMMA JobOfBusy ==
  ASSUME TypeOK, InOrder, NEW p \in Process, NEW i \in Call(p), StepOf(p),
         Unsettled(p, i), call'[p][i] = call[p][i]
  PROVE  /\ op'[p] = op[p] /\ job'[p] = job[p]
         /\ call[p][i] # "running" => agent' = agent
<1> DEFINE Same == /\ op'[p] = op[p] /\ job'[p] = job[p]
                   /\ call[p][i] # "running" => agent' = agent
<1>0. /\ DOMAIN call = Process
      /\ call[p] \in [Call(p) -> CallPlace]
      /\ op \in [Process -> {"write", "exec"}]
  BY DEF TypeOK
<1>1. \A k \in Call(p) : call[p][k] \notin {"new", "waiting"} \cup Settled => k = i
  BY OneIsBusy
<1>2. \A k \in Call(p) : call[p][k] = "waiting" => ~MayRun(p, k)
  BY NoneBegins
<1>3. \A place : Becomes(p, i, place) => place = call[p][i]
  BY <1>0 DEF Becomes
<1>4. \A outcome \in Settled : ~Ends(p, i, outcome)
  BY <1>3 DEF Ends, Unsettled
<1>5. ~Fails(p, i) /\ ~CaptureFails(p, i) /\ ~HandlerFails(p, i)
  BY <1>4 DEF Fails, CaptureFails, HandlerFails, Settled
<1>6. ASSUME NEW k \in Call(p), Submit(p, k) PROVE Same
  BY <1>6 DEF Submit, files
<1>7. ASSUME NEW k \in Call(p), Begin(p, k) \/ BeginBlocked(p, k) PROVE FALSE
  BY <1>2, <1>7 DEF Begin, BeginBlocked, Is
<1>8. ASSUME NEW k \in Call(p),
             \/ LockRefused(p, k) \/ ReconcileFails(p, k) \/ RequestRefused(p, k)
             \/ NothingAltered(p, k) \/ CaptureStops(p, k) \/ GitAddFails(p, k)
             \/ Commit(p, k) \/ CommitFails(p, k)
      PROVE  FALSE
  <2>1. k = i
    BY <1>1, <1>8
       DEF LockRefused, ReconcileFails, RequestRefused, NothingAltered, CaptureStops,
           GitAddFails, Commit, CommitFails, Is, Settled
  <2>2. ASSUME Ends(p, k, result[p]) PROVE FALSE
    BY <1>4, <2>1, <2>2 DEF TypeOK, Settled
  <2> QED
    BY <1>5, <1>8, <2>1, <2>2
       DEF LockRefused, ReconcileFails, RequestRefused, NothingAltered, CaptureStops,
           GitAddFails, Commit, CommitFails
<1>9. ASSUME NEW k \in Call(p),
             \/ Reconcile(p, k) \/ StartWrite(p, k) \/ StartExec(p, k)
             \/ ToolReturns(p, k) \/ Capture(p, k) \/ GitAdd(p, k)
      PROVE  FALSE
  <2>1. k = i
    BY <1>1, <1>9
       DEF Reconcile, StartWrite, StartExec, ToolReturns, Capture, GitAdd, Is, Settled
  <2> QED
    BY <1>3, <1>9, <2>1
       DEF Reconcile, StartWrite, StartExec, ToolReturns, Capture, GitAdd, Is
<1>10. ASSUME NEW k \in Call(p), ToolThrows(p, k) PROVE FALSE
  <2>1. k = i  BY <1>1, <1>10 DEF ToolThrows, Is, Settled
  <2> QED  BY <1>3, <1>5, <1>10, <2>1 DEF ToolThrows, Is
<1>11. ASSUME NEW k \in Call(p), CommitScan(p, k) PROVE FALSE
  <2>1. k = i  BY <1>1, <1>11 DEF CommitScan, CommitDue, Is, Settled
  <2>2. call[p][i] # "scanned"  BY <1>11, <2>1 DEF CommitScan, CommitDue, Is
  <2>3. ~Ends(p, i, result[p])  BY <1>4 DEF TypeOK, Settled
  <2> QED  BY <1>3, <1>11, <2>1, <2>2, <2>3 DEF CommitScan
<1>12. ASSUME NEW k \in Call(p), NEW f \in File, ToolWrites(p, k, f) \/ CommandWrites(p, k, f)
       PROVE  Same
  <2>1. k = i  BY <1>1, <1>12 DEF ToolWrites, CommandWrites, Is, Settled
  <2> QED  BY <1>12, <2>1 DEF ToolWrites, CommandWrites, calls, Is
<1>13. CASE Locks(p) \/ Restart(p)
  BY <1>13 DEF Locks, Restart, calls, files
<1>14. ~Crash(p)
  <2> SUFFICES ASSUME Crash(p) PROVE FALSE
    OBVIOUS
  <2>1. call'[p][i] = "lost"  BY <1>0 DEF Crash, Unsettled
  <2> QED  BY <2>1 DEF Unsettled, Settled
<1> QED
  BY <1>6, <1>7, <1>8, <1>9, <1>10, <1>11, <1>12, <1>13, <1>14
     DEF StepOf, Proceeds, ToolEnds, ToolActs

\* How a call gets to the places where handlers remember something
LEMMA WhoMoves ==
  ASSUME TypeOK, [Next]_vars, NEW p \in Process, NEW i \in Call(p),
         call'[p][i] # call[p][i]
  PROVE  /\ call'[p][i] = "listed" => Begin(p, i)
         /\ call'[p][i] = "captured" => Capture(p, i)
         /\ call'[p][i] = "added" => GitAdd(p, i)
         /\ call'[p][i] = "scanned" => CommitScan(p, i)
<1> DEFINE Known == /\ call'[p][i] = "listed" => Begin(p, i)
                    /\ call'[p][i] = "captured" => Capture(p, i)
                    /\ call'[p][i] = "added" => GitAdd(p, i)
                    /\ call'[p][i] = "scanned" => CommitScan(p, i)
<1>0. DOMAIN call = Process /\ call[p] \in [Call(p) -> CallPlace]
  BY DEF TypeOK
<1>1. StepOf(p)
  <2>1. ~UNCHANGED <<calls, agent>>  BY DEF calls
  <2>2. PICK q \in Process : StepOf(q)  BY <2>1, WhoSteps
  <2> QED  BY <2>2, CallsOfOthers
<1>2. ASSUME NEW k \in Call(p), NEW place, Becomes(p, k, place)
      PROVE  k = i /\ call'[p][i] = place
  BY <1>0, <1>2 DEF Becomes
<1>3. ASSUME NEW k \in Call(p), NEW outcome \in Settled, Ends(p, k, outcome) PROVE Known
  BY <1>2, <1>3 DEF Ends, Settled
<1>4. ASSUME NEW k \in Call(p), Fails(p, k) \/ CaptureFails(p, k) \/ HandlerFails(p, k)
      PROVE  Known
  BY <1>3, <1>4 DEF Fails, CaptureFails, HandlerFails, Settled
<1>5. ASSUME NEW k \in Call(p), Ends(p, k, result[p]) PROVE Known
  BY <1>3, <1>5 DEF TypeOK, Settled
<1>6. ASSUME NEW k \in Call(p),
             \/ LockRefused(p, k) \/ ReconcileFails(p, k) \/ RequestRefused(p, k)
             \/ NothingAltered(p, k) \/ CaptureStops(p, k) \/ GitAddFails(p, k)
             \/ Commit(p, k) \/ CommitFails(p, k)
      PROVE  Known
  BY <1>4, <1>5, <1>6
     DEF LockRefused, ReconcileFails, RequestRefused, NothingAltered, CaptureStops,
         GitAddFails, Commit, CommitFails
<1>7. ASSUME NEW k \in Call(p),
             \/ Submit(p, k) \/ BeginBlocked(p, k) \/ Reconcile(p, k)
             \/ StartWrite(p, k) \/ StartExec(p, k) \/ ToolReturns(p, k)
      PROVE  Known
  BY <1>2, <1>7 DEF Submit, BeginBlocked, Reconcile, StartWrite, StartExec, ToolReturns
<1>8. ASSUME NEW k \in Call(p), Begin(p, k) PROVE Known
  <2>1. k = i /\ call'[p][i] \in {"ready", "listed"}  BY <1>2, <1>8 DEF Begin
  <2> QED  BY <1>8, <2>1
<1>9. ASSUME NEW k \in Call(p), Capture(p, k) \/ GitAdd(p, k) PROVE Known
  BY <1>2, <1>9 DEF Capture, GitAdd
<1>10. ASSUME NEW k \in Call(p), ToolThrows(p, k) PROVE Known
  BY <1>2, <1>4, <1>10 DEF ToolThrows
<1>11. ASSUME NEW k \in Call(p), CommitScan(p, k) PROVE Known
  <2>1. Ends(p, k, result[p]) \/ Becomes(p, k, "scanned")  BY <1>11 DEF CommitScan
  <2> QED  BY <1>2, <1>5, <1>11, <2>1
<1>12. ASSUME UNCHANGED call PROVE FALSE
  BY <1>12
<1>13. ASSUME NEW k \in Call(p), NEW f \in File, ToolWrites(p, k, f) \/ CommandWrites(p, k, f)
       PROVE  FALSE
  BY <1>12, <1>13 DEF ToolWrites, CommandWrites, calls
<1>14. ~Locks(p) /\ ~Restart(p)
  BY <1>12 DEF Locks, Restart, calls
<1>15. CASE Crash(p)
  <2>1. call'[p][i] = "lost"  BY <1>0, <1>15 DEF Crash
  <2> QED  BY <2>1
<1> QED
  BY <1>1, <1>6, <1>7, <1>8, <1>9, <1>10, <1>11, <1>13, <1>14, <1>15
     DEF StepOf, Proceeds, ToolEnds, ToolActs

---------------------------------------------------------------------------
(***************************************************************************)
(* What the places of a call mean for what its handlers remember.          *)
(***************************************************************************)
OwnIsOfCommands ==
  \A p \in Process : job[p].own # {} => op[p] = "exec"

\* What is to be reconciled, no command of the same process has written.
ListedIsOthers ==
  \A p \in Process : \A i \in Call(p) :
    call[p][i] = "listed" => \A f \in job[p].todo : writer[f] # p

\* What the command has written last is what was staged.
StagedStands ==
  \A p \in Process : \A i \in Call(p) :
    call[p][i] \in {"added", "scanned"} =>
      \A f \in job[p].own : writer[f] = p => human[f] = job[p].text[f]

\* What was staged is what the Agent view has behind symbols.
\* What the capture has put behind a symbol, or taken for no file
Shows(f, t) == Resolve(agent[f]) = t \/ t = Dangling

CapturedIsStaged ==
  \A p \in Process : \A i \in Call(p) : \A f \in job[p].own :
    /\ call[p][i] = "captured" => Shows(f, human[f])
    /\ call[p][i] \in {"added", "scanned"} => Shows(f, job[p].text[f])

LEMMA OwnKept ==
  ASSUME TypeOK, OwnIsOfCommands, [Next]_vars
  PROVE  OwnIsOfCommands'
<1> SUFFICES ASSUME NEW p \in Process, job'[p].own # {} PROVE op'[p] = "exec"
  BY DEF OwnIsOfCommands
<1>0. /\ DOMAIN call = Process
      /\ op \in [Process -> {"write", "exec"}]
      /\ job \in [Process -> Job]
  BY DEF TypeOK
<1>1. job[p].own # {} => op[p] = "exec"  BY DEF OwnIsOfCommands
<1>2. ASSUME op'[p] = op[p], job'[p].own = job[p].own PROVE op'[p] = "exec"
  BY <1>1, <1>2
<1>3. ASSUME NEW i \in Call(p), NEW outcome, Ends(p, i, outcome) PROVE FALSE
  BY <1>0, <1>3 DEF Ends, NoJob
<1>4. ASSUME NEW i \in Call(p), Fails(p, i) \/ CaptureFails(p, i) \/ HandlerFails(p, i)
      PROVE  FALSE
  BY <1>3, <1>4 DEF Fails, CaptureFails, HandlerFails
<1>5. ASSUME NEW i \in Call(p),
             \/ LockRefused(p, i) \/ ReconcileFails(p, i) \/ RequestRefused(p, i)
             \/ NothingAltered(p, i) \/ CaptureStops(p, i) \/ GitAddFails(p, i)
             \/ Commit(p, i) \/ CommitFails(p, i)
      PROVE  FALSE
  BY <1>3, <1>4, <1>5
     DEF LockRefused, ReconcileFails, RequestRefused, NothingAltered, CaptureStops,
         GitAddFails, Commit, CommitFails
<1>6. ASSUME NEW i \in Call(p),
             \/ Submit(p, i) \/ BeginBlocked(p, i) \/ StartWrite(p, i) \/ ToolReturns(p, i)
      PROVE  op'[p] = "exec"
  BY <1>2, <1>6 DEF Submit, BeginBlocked, StartWrite, ToolReturns
<1>7. ASSUME NEW i \in Call(p), Begin(p, i) PROVE op'[p] = "exec"
  <2>1. job' = [job EXCEPT ![p].todo = Dirty] /\ op' = op  BY <1>7 DEF Begin
  <2>2. job'[p].own = job[p].own  BY <1>0, <2>1 DEF Job
  <2> QED  BY <1>2, <2>1, <2>2
<1>8. ASSUME NEW i \in Call(p), Reconcile(p, i) PROVE FALSE
  BY <1>0, <1>8 DEF Reconcile, NoJob
<1>9. ASSUME NEW i \in Call(p), StartExec(p, i) PROVE op'[p] = "exec"
  BY <1>0, <1>9 DEF StartExec
<1>10. ASSUME NEW i \in Call(p), Capture(p, i) PROVE op'[p] = "exec"
  BY <1>10 DEF Capture
<1>11. ASSUME NEW i \in Call(p), GitAdd(p, i) PROVE op'[p] = "exec"
  <2>1. job' = [job EXCEPT ![p].text = human] /\ op' = op  BY <1>11 DEF GitAdd
  <2>2. job'[p].own = job[p].own  BY <1>0, <2>1 DEF Job
  <2> QED  BY <1>2, <2>1, <2>2
<1>12. ASSUME NEW i \in Call(p), ToolThrows(p, i) PROVE op'[p] = "exec"
  BY <1>2, <1>4, <1>12 DEF ToolThrows
<1>13. ASSUME NEW i \in Call(p), CommitScan(p, i) PROVE op'[p] = "exec"
  <2>1. PICK fs : job' = [job EXCEPT ![p].todo = fs] /\ op' = op
    BY <1>3, <1>13 DEF CommitScan
  <2>2. job'[p].own = job[p].own  BY <1>0, <2>1 DEF Job
  <2> QED  BY <1>2, <2>1, <2>2
<1>14. ASSUME NEW i \in Call(p), NEW f \in File, ToolWrites(p, i, f) \/ CommandWrites(p, i, f)
       PROVE  op'[p] = "exec"
  BY <1>2, <1>14 DEF ToolWrites, CommandWrites, calls
<1>15. CASE Locks(p) \/ Restart(p)
  BY <1>2, <1>15 DEF Locks, Restart, calls
<1>16. ~Crash(p)
  BY <1>0 DEF Crash, NoJob
<1>17. CASE StepOf(p)
  BY <1>5, <1>6, <1>7, <1>8, <1>9, <1>10, <1>11, <1>12, <1>13, <1>14, <1>15, <1>16, <1>17
     DEF StepOf, Proceeds, ToolEnds, ToolActs
<1>18. ASSUME NEW q \in Process \ {p}, StepOf(q) PROVE op'[p] = "exec"
  BY <1>2, <1>18, CallsOfOthers
<1>19. CASE UNCHANGED <<calls, agent>>
  BY <1>2, <1>19 DEF calls
<1> QED  BY <1>17, <1>18, <1>19, WhoSteps

\* A busy call that stays where it is remembers the same, whoever steps.
LEMMA JobKept ==
  ASSUME TypeOK, InOrder, [Next]_vars, NEW p \in Process, NEW i \in Call(p),
         Unsettled(p, i), call'[p][i] = call[p][i]
  PROVE  op'[p] = op[p] /\ job'[p] = job[p]
<1>1. CASE StepOf(p)  BY <1>1, JobOfBusy
<1>2. ASSUME NEW q \in Process \ {p}, StepOf(q) PROVE op'[p] = op[p] /\ job'[p] = job[p]
  BY <1>2, CallsOfOthers
<1>3. CASE UNCHANGED <<calls, agent>>  BY <1>3 DEF calls
<1> QED  BY <1>1, <1>2, <1>3, WhoSteps

\* A command in a busy call of another place does not write.
LEMMA OnlyRunningWrites ==
  ASSUME InOrder, NEW p \in Process, NEW i \in Call(p), Unsettled(p, i),
         call[p][i] # "running", NEW j \in Call(p), NEW f \in File
  PROVE  ~CommandWrites(p, j, f)
<1> SUFFICES ASSUME CommandWrites(p, j, f) PROVE FALSE
  OBVIOUS
<1>1. call[p][j] = "running"  BY DEF CommandWrites, Is
<1>2. i = j  BY <1>1, OneIsBusy DEF Settled
<1> QED  BY <1>1, <1>2

LEMMA ListedKept ==
  ASSUME RuntimeInv, ListedIsOthers, [Next]_vars
  PROVE  ListedIsOthers'
<1> USE DEF RuntimeInv
<1> SUFFICES ASSUME NEW p \in Process, NEW i \in Call(p), call'[p][i] = "listed",
                    NEW f \in job'[p].todo, writer'[f] = p
             PROVE  FALSE
  BY DEF ListedIsOthers, Call
<1> USE CommitLockAssumption
<1>0. /\ DOMAIN call = Process
      /\ job \in [Process -> Job]
  BY DEF TypeOK
<1>1. CASE call[p][i] = "listed"
  <2>1. Unsettled(p, i)  BY <1>1 DEF Unsettled, Settled
  <2>2. job'[p] = job[p]  BY <1>1, <2>1, JobKept
  <2>3. f \in File  BY <1>0, <2>2 DEF Job
  <2>4. writer[f] = p  BY <1>1, <2>1, <2>3, WhoWrites, OnlyRunningWrites
  <2> QED  BY <1>1, <2>2, <2>4 DEF ListedIsOthers
<1>2. CASE call[p][i] # "listed"
  <2>1. Begin(p, i)  BY <1>2, WhoMoves
  <2>2. job'[p].todo = Dirty  BY <1>0, <2>1 DEF Begin, Job
  <2>3. f \in File /\ human[f] # Resolve(head[f])  BY <2>2 DEF Dirty
  <2>4. writer[f] = p  BY <2>1 DEF Begin
  <2>5. PICK j \in Call(p) : Due(p, j, f)
    BY <2>1, <2>3, <2>4 DEF Accounted, Covered, Begin
  <2>6. Unsettled(p, j)  BY <2>5 DEF Due, Unsettled, Settled
  <2> QED  BY <2>1, <2>6, NoneBegins DEF Begin, Is
<1> QED  BY <1>1, <1>2

LEMMA StagedKept ==
  ASSUME RuntimeInv, OwnIsOfCommands, StagedStands, [Next]_vars
  PROVE  StagedStands'
<1> USE DEF RuntimeInv
<1> SUFFICES ASSUME NEW p \in Process, NEW i \in Call(p),
                    call'[p][i] \in {"added", "scanned"},
                    NEW f \in job'[p].own, writer'[f] = p
             PROVE  human'[f] = job'[p].text[f]
  BY DEF StagedStands, Call
<1>0. /\ DOMAIN call = Process
      /\ call[p] \in [Call(p) -> CallPlace]
      /\ job \in [Process -> Job]
  BY DEF TypeOK
<1>1. ASSUME call[p][i] \in {"added", "scanned"},
             f \in job[p].own, job'[p].text = job[p].text
      PROVE  human'[f] = job'[p].text[f]
  <2>1. Unsettled(p, i)  BY <1>1 DEF Unsettled, Settled
  <2>2. f \in File  BY <1>0, <1>1 DEF Job
  <2>3. \A j \in Call(p) : ~CommandWrites(p, j, f)
    BY <1>1, <2>1, <2>2, OnlyRunningWrites
  <2>4. writer[f] = p  BY <2>2, <2>3, WhoWrites
  <2>5. human'[f] = human[f]  BY <2>2, <2>3, <2>4, WrittenStays
  <2> QED  BY <1>1, <2>4, <2>5 DEF StagedStands
<1>2. CASE call'[p][i] = call[p][i]
  <2>1. Unsettled(p, i)  BY <1>2 DEF Unsettled, Settled
  <2>2. job'[p] = job[p]  BY <1>2, <2>1, JobKept
  <2> QED  BY <1>1, <1>2, <2>2
<1>3. CASE GitAdd(p, i)
  <2>1. job'[p].text = human /\ human' = human  BY <1>0, <1>3 DEF GitAdd, Job, files
  <2> QED  BY <2>1
<1>4. CASE CommitScan(p, i)
  <2>1. PICK fs : job' = [job EXCEPT ![p].todo = fs] \/ job'[p] = NoJob
    BY <1>0, <1>4 DEF CommitScan, Ends
  <2>2. (job'[p].own = job[p].own /\ job'[p].text = job[p].text) \/ job'[p].own = {}
    BY <1>0, <2>1 DEF Job, NoJob
  <2>3. CASE call[p][i] = "added"  BY <1>1, <2>2, <2>3
  <2>4. op[p] = "exec"
    <3>1. job[p].own # {}  BY <2>2
    <3> QED  BY <3>1 DEF OwnIsOfCommands
  <2> QED  BY <1>4, <2>3, <2>4 DEF CommitScan, CommitDue, Is
<1> QED  BY <1>2, <1>3, <1>4, WhoMoves

\* A busy call that stays at "captured" leaves the Human view alone.
LEMMA BusyKeepsHuman ==
  ASSUME InOrder, NEW p \in Process, NEW i \in Call(p), StepOf(p),
         call[p][i] = "captured"
  PROVE  human' = human
<1>1. \A k \in Call(p) : call[p][k] \notin {"new", "waiting"} \cup Settled => k = i
  BY OneIsBusy DEF Unsettled, Settled
<1>2. ASSUME NEW k \in Call(p), Commit(p, k) PROVE FALSE
  BY <1>1, <1>2 DEF Commit, Is, Settled
<1>3. ASSUME NEW k \in Call(p), NEW f \in File, CommandWrites(p, k, f) PROVE FALSE
  BY <1>1, <1>3 DEF CommandWrites, Is, Settled
<1>4. ASSUME NEW k \in Call(p),
             \/ Submit(p, k) \/ Begin(p, k) \/ BeginBlocked(p, k)
             \/ LockRefused(p, k) \/ Reconcile(p, k) \/ ReconcileFails(p, k)
             \/ StartWrite(p, k) \/ StartExec(p, k) \/ RequestRefused(p, k)
             \/ ToolReturns(p, k) \/ ToolThrows(p, k) \/ NothingAltered(p, k)
             \/ Capture(p, k) \/ CaptureStops(p, k) \/ GitAdd(p, k)
             \/ GitAddFails(p, k) \/ CommitScan(p, k) \/ CommitFails(p, k)
             \/ \E f \in File : ToolWrites(p, k, f)
      PROVE  human' = human
  BY <1>4
     DEF Submit, Begin, BeginBlocked, LockRefused, Reconcile, ReconcileFails, StartWrite,
         StartExec, RequestRefused, ToolReturns, ToolThrows, NothingAltered, Capture,
         CaptureStops, GitAdd, GitAddFails, CommitScan, CommitFails, ToolWrites, files
<1>5. CASE Crash(p) \/ Locks(p) \/ Restart(p)
  BY <1>5 DEF Crash, Locks, Restart, files
<1> QED  BY <1>2, <1>3, <1>4, <1>5 DEF StepOf, Proceeds, ToolEnds, ToolActs

LEMMA CapturedKept ==
  ASSUME KeptApart, QuietCapture, RuntimeInv, OwnIsOfCommands, CapturedIsStaged, [Next]_vars
  PROVE  CapturedIsStaged'
<1> USE DEF RuntimeInv
<1> SUFFICES ASSUME NEW p \in Process, NEW i \in Call(p), NEW f \in job'[p].own
             PROVE  /\ call'[p][i] = "captured" => Shows(f, human[f])'
                    /\ call'[p][i] \in {"added", "scanned"} => Shows(f, job[p].text[f])'
  BY DEF CapturedIsStaged, Call, Shows, Resolve
<1>0. /\ DOMAIN call = Process
      /\ call[p] \in [Call(p) -> CallPlace]
      /\ job \in [Process -> Job]
      /\ agent \in [File -> Text]
      /\ human \in [File -> Plain]
  BY DEF TypeOK
<1>1. ASSUME call'[p][i] = call[p][i], call[p][i] \in {"captured", "added", "scanned"}
      PROVE  /\ call'[p][i] = "captured" => Shows(f, human[f])'
             /\ call'[p][i] \in {"added", "scanned"} => Shows(f, job[p].text[f])'
  <2>1. Unsettled(p, i)  BY <1>1 DEF Unsettled, Settled
  <2>2. job'[p] = job[p]  BY <1>1, <2>1, JobKept
  <2>3. f \in job[p].own /\ f \in File  BY <1>0, <2>2 DEF Job
  <2>4. op[p] = "exec"  BY <2>3 DEF OwnIsOfCommands
  <2>5. agent' = agent
    <3>1. CASE StepOf(p)  BY <1>1, <2>1, <3>1, JobOfBusy
    <3>2. ASSUME NEW q \in Process \ {p}, StepOf(q) PROVE agent' = agent
      BY <2>4, <3>2, OthersKeepAway DEF StepOf, Proceeds, ToolEnds, ToolActs
    <3>3. CASE UNCHANGED <<calls, agent>>  BY <3>3
    <3> QED  BY <3>1, <3>2, <3>3, WhoSteps
  <2>6. CASE call[p][i] = "captured"
    <3>1. human'[f] = human[f]
      <4>1. ASSUME NEW g \in File, HumanSaves(g) PROVE human'[f] = human[f]
        <5>1. BeingCaptured(f)  BY <2>3, <2>6 DEF BeingCaptured, Is
        <5>2. g # f  BY <4>1, <5>1 DEF HumanSaves
        <5> QED  BY <1>0, <2>3, <4>1, <5>2 DEF HumanSaves
      <4>2. ASSUME NEW q \in Process \ {p}, StepOf(q) PROVE human'[f] = human[f]
        BY <2>4, <4>2, OthersKeepAway DEF StepOf, Proceeds, ToolEnds, ToolActs
      <4>3. CASE StepOf(p)
        BY <1>1, <2>1, <2>6, <4>3, BusyKeepsHuman
      <4>4. CASE TimePasses \/ UNCHANGED vars
        BY <4>4 DEF TimePasses, vars, files
      <4> QED  BY <4>1, <4>2, <4>3, <4>4 DEF Next, StepOf
    <3> QED  BY <1>1, <2>3, <2>5, <2>6, <3>1 DEF CapturedIsStaged, Shows, Resolve
  <2>7. CASE call[p][i] \in {"added", "scanned"}
    BY <1>1, <2>2, <2>3, <2>5, <2>7 DEF CapturedIsStaged, Shows, Resolve
  <2> QED  BY <1>1, <2>6, <2>7
<1>2. CASE Capture(p, i)
  <2>1. job'[p].own = Altered(p)  BY <1>0, <1>2 DEF Capture, Job
  <2>2. f \in File /\ human[f] # Link  BY <1>2, <2>1 DEF Capture, Altered
  <2>3. agent'[f] = Captured(f)  BY <1>0, <1>2, <2>1, <2>2 DEF Capture
  <2>4. human'[f] = human[f]  BY <1>2 DEF Capture
  <2>5. Resolve(Captured(f)) = human[f] \/ human[f] = Dangling
    <3>1. CASE human[f] = Absent
      BY <3>1, FilesystemRuntimeAssumption DEF Captured, Resolve
    <3>2. CASE human[f] \notin {Absent, Dangling}
      <4>1. human[f] \in Literal \cup Output  BY <1>0, <2>2, <3>2 DEF Plain
      <4> QED  BY <3>2, <4>1 DEF Captured, Resolve, Symbol
    <3> QED  BY <3>1, <3>2
  <2>6. call'[p][i] = "captured"  BY <1>0, <1>2 DEF Capture, Becomes
  <2> QED  BY <2>3, <2>4, <2>5, <2>6 DEF Shows, Resolve
<1>3. CASE GitAdd(p, i)
  <2>1. job'[p].text = human /\ job'[p].own = job[p].own /\ agent' = agent
    BY <1>0, <1>3 DEF GitAdd, Job, files
  <2>2. call[p][i] = "captured" /\ call'[p][i] = "added"
    BY <1>0, <1>3 DEF GitAdd, Is, Becomes
  <2> QED  BY <2>1, <2>2 DEF CapturedIsStaged, Shows, Resolve
<1>4. CASE CommitScan(p, i) /\ call'[p][i] = "scanned"
  <2>1. PICK fs : job' = [job EXCEPT ![p].todo = fs] \/ job'[p] = NoJob
    BY <1>0, <1>4 DEF CommitScan, Ends
  <2>2. (job'[p].own = job[p].own /\ job'[p].text = job[p].text) \/ job'[p].own = {}
    BY <1>0, <2>1 DEF Job, NoJob
  <2>3. op[p] = "exec"
    <3>1. job[p].own # {}  BY <2>2
    <3> QED  BY <3>1 DEF OwnIsOfCommands
  <2>4. call[p][i] = "added" /\ agent' = agent
    BY <1>4, <2>3 DEF CommitScan, CommitDue, Is, files
  <2> QED  BY <1>4, <2>2, <2>4 DEF CapturedIsStaged, Shows, Resolve
<1> QED  BY <1>1, <1>2, <1>3, <1>4, WhoMoves

---------------------------------------------------------------------------
(***************************************************************************)
(* What a step that gives up the lock may do.                              *)
(***************************************************************************)
\* Who is no longer under the lock, and alive, has reconciled or committed.
LEMMA WhoReleases ==
  ASSUME [Next]_vars, LockTypeOK, NEW p \in Process, at[p] = "holding", at'[p] = "out"
  PROVE  \E i \in Call(p) :
           Reconcile(p, i) \/ ReconcileFails(p, i) \/ Commit(p, i) \/ CommitFails(p, i)
<1> USE DEF LockTypeOK
<1>1. ~UNCHANGED at  OBVIOUS
<1>2. ASSUME NEW q \in Process,
             \/ Look(q) \/ Break(q) \/ Make(q) \/ Refuse(q)
             \/ CrashHolder(q) \/ RestartHolder(q)
      PROVE  FALSE
  BY <1>2 DEF Look, Break, Make, Refuse, CrashHolder, RestartHolder, MoveTo
<1>3. ASSUME NEW q \in Process, Release(q) PROVE q = p
  BY <1>3 DEF Release, MoveTo
<1>4. ~TimePasses /\ ~UNCHANGED vars  BY <1>1 DEF TimePasses, Tick, vars
<1>5. \A f \in File : ~HumanSaves(f)  BY <1>1 DEF HumanSaves, lockVars
<1>6. \A q \in Process : ~Locks(q) /\ ~Restart(q) /\ ~Crash(q)
  BY <1>2 DEF Locks, Restart, Crash
<1>7. \A q \in Process : \A i \in Call(q) :
        /\ ~Submit(q, i) /\ ~Begin(q, i) /\ ~BeginBlocked(q, i) /\ ~LockRefused(q, i)
        /\ ~StartWrite(q, i) /\ ~StartExec(q, i) /\ ~RequestRefused(q, i)
        /\ ~ToolReturns(q, i) /\ ~ToolThrows(q, i)
        /\ ~NothingAltered(q, i) /\ ~Capture(q, i) /\ ~CaptureStops(q, i)
        /\ ~GitAdd(q, i) /\ ~GitAddFails(q, i) /\ ~CommitScan(q, i)
        /\ \A f \in File : ~ToolWrites(q, i, f) /\ ~CommandWrites(q, i, f)
  BY <1>1, <1>2
     DEF Submit, Begin, BeginBlocked, LockRefused, StartWrite, StartExec, RequestRefused,
         ToolReturns, ToolThrows, NothingAltered, Capture, CaptureStops,
         GitAdd, GitAddFails, CommitScan, ToolWrites, CommandWrites, lockVars
<1>8. \A q \in Process : \A i \in Call(q) :
        \/ Reconcile(q, i) \/ ReconcileFails(q, i) \/ Commit(q, i) \/ CommitFails(q, i)
        => q = p
  BY <1>3 DEF Reconcile, ReconcileFails, Commit, CommitFails
<1> QED
  BY <1>4, <1>5, <1>6, <1>7, <1>8 DEF Next, Proceeds, ToolEnds, ToolActs

StepInv ==
  /\ RuntimeInv
  /\ LatchStopsTools
  /\ OwnIsOfCommands
  /\ ListedIsOthers
  /\ StagedStands

\* A commit lets no output of its own command be skipped.
LEMMA SkippedIsOthers ==
  ASSUME StepInv, NEW p \in Process, NEW i \in Call(p), Commit(p, i),
         NEW f \in job[p].todo \ Safe(p)
  PROVE  writer[f] # p
<1> USE DEF StepInv, RuntimeInv
<1> SUFFICES ASSUME writer[f] = p PROVE FALSE
  OBVIOUS
<1>0. job[p] \in Job  BY DEF TypeOK
<1>1. f \in File  BY <1>0 DEF Job
<1>2. call[p][i] = "scanned"  BY DEF Commit, Is
<1>3. Unsettled(p, i)  BY <1>2 DEF Unsettled, Settled
<1>4. human[f] # IF f \in job[p].own THEN job[p].text[f] ELSE Resolve(head[f])
  BY DEF Safe
<1>5. f \notin job[p].own  BY <1>2, <1>4 DEF StagedStands
<1>6. human[f] # Resolve(head[f])  BY <1>4, <1>5
<1>7. ~latch[p]  BY <1>3 DEF LatchStopsTools, Busy, Unsettled
<1>8. Covered(p, f)  BY <1>1 DEF Accounted
<1>9. PICK j \in Call(p) : Due(p, j, f)  BY <1>6, <1>7, <1>8 DEF Covered
<1>10. call[p][j] \notin {"new", "waiting"} \cup Settled  BY <1>9 DEF Due, Settled
<1>11. j = i  BY <1>3, <1>10, OneIsBusy
<1> QED  BY <1>2, <1>5, <1>9, <1>11 DEF Due

LEMMA OwnOutputStep ==
  ASSUME StepInv, [Next]_vars, NEW p \in Process, NEW f \in File,
         at[p] = "holding", at'[p] = "out", agent'[f] # agent[f]
  PROVE  writer[f] # p
<1> USE DEF StepInv, RuntimeInv
<1>0. LockTypeOK /\ agent \in [File -> Text]  BY DEF TypeOK
<1>1. PICK i \in Call(p) :
        Reconcile(p, i) \/ ReconcileFails(p, i) \/ Commit(p, i) \/ CommitFails(p, i)
  BY <1>0, WhoReleases
<1>2. CASE Reconcile(p, i)
  <2>1. f \in job[p].todo  BY <1>2 DEF Reconcile
  <2> QED  BY <1>2, <2>1 DEF Reconcile, Is, ListedIsOthers
<1>3. CASE Commit(p, i)
  <2>1. f \in job[p].todo \ Safe(p)  BY <1>3 DEF Commit
  <2> QED  BY <1>3, <2>1, SkippedIsOthers
<1>4. ~ReconcileFails(p, i) /\ ~CommitFails(p, i)
  BY DEF ReconcileFails, CommitFails, files
<1> QED  BY <1>1, <1>2, <1>3, <1>4

LEMMA StepInvInitially == Init => StepInv /\ CapturedIsStaged
<1> SUFFICES ASSUME Init PROVE StepInv /\ CapturedIsStaged
  OBVIOUS
<1>1. RuntimeInv /\ LatchStopsTools  BY RuntimeInvInitially, ChainInitially
<1>2. \A p \in Process : job[p].own = {}  BY DEF Init, NoJob
<1>3. \A p \in Process : \A i \in Call(p) : call[p][i] = "new"  BY DEF Init
<1> QED
  BY <1>1, <1>2, <1>3
     DEF StepInv, OwnIsOfCommands, ListedIsOthers, StagedStands, CapturedIsStaged

\* Of one process; of several, if no other has a call at work while one has an
\* unrestricted command: neither a reconciliation nor a commit takes the output
\* of its own command over into the Agent view in the open.
THEOREM OwnOutputIsKeptOut ==
  ASSUME KeptApart
  PROVE  Spec => OwnOutputStaysOut
<1>1. Init => StepInv  BY StepInvInitially
<1>2. StepInv /\ LatchStopsTools' /\ [Next]_vars => StepInv'
  BY RuntimeInvKept, OwnKept, ListedKept, StagedKept DEF StepInv, RuntimeInv
<1>3. StepInv /\ [Next]_vars =>
        [\A p \in Process, f \in File :
           /\ at[p] = "holding" /\ at'[p] = "out"
           /\ agent'[f] \in Output /\ agent'[f] # agent[f]
           => writer[f] # p]_vars
  BY OwnOutputStep
<1> QED  BY <1>1, <1>2, <1>3, LatchStops, PTL DEF Spec, OwnOutputStaysOut

LEMMA ReplacedStep ==
  ASSUME StepInv, CapturedIsStaged, [Next]_vars, NEW p \in Process, NEW f \in File,
         at[p] = "holding", at'[p] = "out", human'[f] # human[f]
  PROVE  human[f] \in {Resolve(head[f]), Dangling}
<1> USE DEF StepInv, RuntimeInv
<1>0. LockTypeOK /\ human \in [File -> Plain]  BY DEF TypeOK
<1>1. PICK i \in Call(p) : Commit(p, i)
  <2>1. \A i \in Call(p) : ~Reconcile(p, i) /\ ~ReconcileFails(p, i) /\ ~CommitFails(p, i)
    BY DEF Reconcile, ReconcileFails, CommitFails, files
  <2> QED  BY <1>0, <2>1, WhoReleases
<1>2. f \in Safe(p)  BY <1>0, <1>1 DEF Commit
<1>3. human'[f] = Resolve(agent[f])  BY <1>1, <1>2 DEF Commit
<1>4. CASE f \notin job[p].own  BY <1>2, <1>4 DEF Safe
<1>5. CASE f \in job[p].own
  <2>1. human[f] = job[p].text[f]  BY <1>2, <1>5 DEF Safe
  <2>2. Shows(f, job[p].text[f])
    BY <1>1, <1>5 DEF CapturedIsStaged, Commit, Is
  <2> QED  BY <1>3, <2>1, <2>2 DEF Shows
<1> QED  BY <1>4, <1>5

\* Provided, besides, that nobody saves a captured file before git add has
\* staged it: a commit replaces nothing that the human has saved (but a link
\* to nothing, which a capture takes for no file).
THEOREM SavedTextStays ==
  ASSUME KeptApart, QuietCapture
  PROVE  Spec => OnlyCommittedReplaced
<1> DEFINE Inv == StepInv /\ CapturedIsStaged
<1>1. Init => Inv  BY StepInvInitially
<1>2. Inv /\ LatchStopsTools' /\ [Next]_vars => Inv'
  BY RuntimeInvKept, OwnKept, ListedKept, StagedKept, CapturedKept DEF StepInv, RuntimeInv
<1>3. Inv /\ [Next]_vars =>
        [\A p \in Process, f \in File :
           /\ at[p] = "holding" /\ at'[p] = "out"
           /\ human'[f] # human[f]
           => human[f] \in {Resolve(head[f]), Dangling}]_vars
  BY ReplacedStep
<1> QED  BY <1>1, <1>2, <1>3, LatchStops, PTL DEF Spec, OnlyCommittedReplaced
===========================================================================
