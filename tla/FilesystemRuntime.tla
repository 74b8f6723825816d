--------------------------- MODULE FilesystemRuntime ---------------------------
(***************************************************************************)
(* DualViewFilesystemRuntime (dualview-filesystem-runtime.ts), the class   *)
(* that wraps the tool calls of the Claude Code plugin; the LangChain      *)
(* plugin has its own copy.  The calls of a process form a chain of        *)
(* promises.  One call takes over the human's edits, runs the tool, and    *)
(* commits what it has written: in the Agent view, or, for an unrestricted *)
(* command, in the Human view, where it is found by comparing the          *)
(* workspace with a snapshot, put behind symbols ("captured") and then     *)
(* committed.  A capture that fails sets a latch that blocks all calls to  *)
(* come.                                                                   *)
(*                                                                         *)
(* The two handlers take the lock of CommitLock step by step; their work   *)
(* under the lock is one action here (DualFS has its steps).               *)
(***************************************************************************)
EXTENDS CommitLock, FiniteSets

CONSTANTS
  File,
  Literal,       \* texts the agent or the human writes
  Output,        \* untrusted output of commands
  Absent,        \* no file
  Link,          \* a symbolic link to something that there is
  Dangling,      \* a symbolic link to nothing: existsSync does not see it
  HumanTexts,    \* what the human saves
  MaxCalls,      \* how many calls each process gets
  Apart,         \* while a process has an unrestricted command, no other
                 \* has a call at work
  QuietCapture   \* the human does not save between reading and staging

Symbol == [symbol : Literal \cup Output]

ASSUME FilesystemRuntimeAssumption ==
  /\ HumanTexts \subseteq Literal
  /\ Literal \cap Output = {}
  /\ Absent \notin Symbol
  /\ {Link, Dangling} \cap (Literal \cup Output) = {}
  /\ MaxCalls \in [Process -> Nat]
  /\ Apart \in BOOLEAN
  /\ QuietCapture \in BOOLEAN

Plain == Literal \cup Output \cup {Absent, Link, Dangling}
Text == Plain \cup Symbol

\* resolveAllSymbols
Resolve(t) == IF t \in Symbol THEN t.symbol ELSE t

VARIABLES
  agent,   \* the Agent view
  human,   \* the Human view
  head,    \* the head of the trusted branch; main has it resolved
  latch,   \* untrustedCaptureFailed
  call,    \* where each call of each process is
  op,      \* the operation of the call that runs
  result,  \* what it will return
  job,     \* what its handlers remember
  writer   \* history: whose command has put output in a file that was not
           \* there before

files == <<agent, human, head>>
calls == <<call, op, result, job, latch>>
vars == <<dir, age, at, agent, human, head, latch, call, op, result, job, writer>>

Call(p) == 1..MaxCalls[p]
Settled == {"ok", "failed", "lost"}
CallPlace == {"new", "waiting", "listed", "ready", "running", "ran",
              "captured", "added", "scanned"} \cup Settled

Job == [todo : SUBSET File,      \* changed files: of the human, of the tool
        own  : SUBSET File,      \* allowedHumanChanges
        text : [File -> Plain]]  \* the snapshot, later what git add has staged

NoJob == [todo |-> {}, own |-> {}, text |-> [f \in File |-> Absent]]

TypeOK ==
  /\ LockTypeOK
  /\ agent \in [File -> Text]
  /\ human \in [File -> Plain]
  /\ head \in [File -> Text]
  /\ latch \in [Process -> BOOLEAN]
  /\ DOMAIN call = Process /\ \A p \in Process : call[p] \in [Call(p) -> CallPlace]
  /\ op \in [Process -> {"write", "exec"}]
  /\ result \in [Process -> {"ok", "failed"}]
  /\ job \in [Process -> Job]
  /\ writer \in [File -> Process \cup {Nobody}]
  /\ \A p \in Process : at[p] = "down" => \A i \in Call(p) : call[p][i] \in Settled \cup {"new"}

Init ==
  /\ LockInit
  /\ agent = [f \in File |-> Absent]
  /\ human = agent
  /\ head = agent
  /\ latch = [p \in Process |-> FALSE]
  /\ call = [p \in Process |-> [i \in Call(p) |-> "new"]]
  /\ op = [p \in Process |-> "write"]
  /\ result = [p \in Process |-> "ok"]
  /\ job = [p \in Process |-> NoJob]
  /\ writer = [f \in File |-> Nobody]

---------------------------------------------------------------------------
Is(p, i, place) == call[p][i] = place

Becomes(p, i, place) == call' = [call EXCEPT ![p][i] = place]

Alive(p) == at[p] # "down"

\* JavaScript: while the tool runs, and only then, another call may get on.
TurnFree(p) ==
  \A i \in Call(p) : call[p][i] \in {"new", "waiting", "running"} \cup Settled

\* A call ends; the first error of a capture sets the latch.
Ends(p, i, outcome) ==
  /\ Becomes(p, i, outcome)
  /\ op' = [op EXCEPT ![p] = "write"]
  /\ result' = [result EXCEPT ![p] = "ok"]
  /\ job' = [job EXCEPT ![p] = NoJob]

Fails(p, i) == Ends(p, i, "failed") /\ UNCHANGED latch

CaptureFails(p, i) ==
  /\ Ends(p, i, "failed")
  /\ latch' = [latch EXCEPT ![p] = TRUE]

HandlerFails(p, i) ==
  IF op[p] = "exec" THEN CaptureFails(p, i) ELSE Fails(p, i)

---------------------------------------------------------------------------
(***************************************************************************)
(* The chain of calls and the reconciliation.                              *)
(***************************************************************************)
PreviousNone(i) == 0            \* seeded fault: this.queue is not advanced

\* this.queue: the call that must have settled, if any
Previous(i) == i - 1

MayRunAfterSuccess(p, i) ==     \* seeded fault: this.queue may be rejected
  \A j \in Call(p) : j = Previous(i) => Is(p, j, "ok")

\* this.queue.then(operation, operation)
MayRun(p, i) ==
  \A j \in Call(p) : j = Previous(i) => call[p][j] \in Settled

\* A process calls wrapToolCall.
Submit(p, i) ==
  /\ Alive(p)
  /\ Is(p, i, "new")
  /\ \A j \in Call(p) : j < i => ~Is(p, j, "new")
  /\ Becomes(p, i, "waiting")
  /\ UNCHANGED <<lockVars, files, op, result, job, latch, writer>>

\* git status in the Human view
Dirty == {f \in File : human[f] # Resolve(head[f])}

Busy(p) == \E i \in Call(p) : call[p][i] \notin {"new", "waiting"} \cup Settled

OthersRunCommand(p) == \E q \in Process \ {p} : Busy(q) /\ op[q] = "exec"

BeginUnlatched(p, i) ==         \* seeded fault: the latch is not looked at
  /\ Alive(p)
  /\ Is(p, i, "waiting")
  /\ MayRun(p, i)
  /\ TurnFree(p)
  /\ Apart => ~OthersRunCommand(p)
  /\ Becomes(p, i, IF Dirty = {} THEN "ready" ELSE "listed")
  /\ job' = [job EXCEPT ![p].todo = Dirty]
  /\ UNCHANGED <<lockVars, files, op, result, latch, writer>>

\* The latch is looked at; then reconcileHumanEdits lists the changed files.
Begin(p, i) ==
  /\ Alive(p)
  /\ Is(p, i, "waiting")
  /\ MayRun(p, i)
  /\ TurnFree(p)
  /\ ~latch[p]
  /\ Apart => ~OthersRunCommand(p)
  /\ Becomes(p, i, IF Dirty = {} THEN "ready" ELSE "listed")
  /\ job' = [job EXCEPT ![p].todo = Dirty]
  /\ UNCHANGED <<lockVars, files, op, result, latch, writer>>

BeginBlocked(p, i) ==
  /\ Alive(p)
  /\ Is(p, i, "waiting")
  /\ MayRun(p, i)
  /\ TurnFree(p)
  /\ latch[p]
  /\ Becomes(p, i, "failed")
  /\ UNCHANGED <<lockVars, files, op, result, job, latch, writer>>

\* A handler with something to do goes for the lock,
Locks(p) ==
  /\ \E i \in Call(p) : call[p][i] \in {"listed", "scanned"}
  /\ Look(p) \/ Break(p) \/ Make(p)
  /\ UNCHANGED <<files, calls, writer>>

\* and throws if another has it.
LockRefused(p, i) ==
  /\ call[p][i] \in {"listed", "scanned"}
  /\ Refuse(p)
  /\ IF Is(p, i, "listed") THEN Fails(p, i) ELSE HandlerFails(p, i)
  /\ UNCHANGED <<files, writer>>

\* A new file is copied; of any other, what is still behind its symbol stays.
Merged(f) ==
  IF head[f] # Absent /\ Resolve(agent[f]) = human[f] THEN agent[f] ELSE human[f]

Reconcile(p, i) ==
  LET todo == job[p].todo IN
  /\ Is(p, i, "listed")
  /\ Release(p)
  /\ agent' = [f \in File |-> IF f \in todo THEN Merged(f) ELSE agent[f]]
  /\ head' = [f \in File |-> IF f \in todo THEN Merged(f) ELSE head[f]]
  /\ writer' = [f \in File |-> IF f \in todo THEN Nobody ELSE writer[f]]
  /\ Becomes(p, i, "ready")
  /\ job' = [job EXCEPT ![p] = NoJob]
  /\ UNCHANGED <<human, op, result, latch>>

ReconcileFails(p, i) ==
  /\ Is(p, i, "listed")
  /\ Release(p)
  /\ Fails(p, i)
  /\ UNCHANGED <<files, writer>>

---------------------------------------------------------------------------
(***************************************************************************)
(* The tool.                                                               *)
(***************************************************************************)
\* A write, or a restricted command, in the Agent view
StartWrite(p, i) ==
  /\ Is(p, i, "ready")
  /\ Becomes(p, i, "running")
  /\ UNCHANGED <<lockVars, files, op, result, job, latch, writer>>

\* An unrestricted command in the Human view, whose files are hashed first
StartExec(p, i) ==
  /\ Is(p, i, "ready")
  /\ Apart => \A q \in Process \ {p} : ~Busy(q)
  /\ Becomes(p, i, "running")
  /\ op' = [op EXCEPT ![p] = "exec"]
  /\ job' = [job EXCEPT ![p].text = human]
  /\ UNCHANGED <<lockVars, files, result, latch, writer>>

\* rewriteRequest refuses a path or an argument.
RequestRefused(p, i) ==
  /\ Is(p, i, "ready")
  /\ Fails(p, i)
  /\ UNCHANGED <<lockVars, files, writer>>

ToolWrites(p, i, f) ==
  /\ Is(p, i, "running")
  /\ op[p] = "write"
  /\ \E t \in Literal \cup {Absent} \cup {agent[g] : g \in File} :
       agent' = [agent EXCEPT ![f] = t]
  /\ UNCHANGED <<lockVars, human, head, calls, writer>>

CommandWrites(p, i, f) ==
  /\ Is(p, i, "running")
  /\ op[p] = "exec"
  /\ \E t \in Output \cup {Absent, Link, Dangling} :
       /\ human' = [human EXCEPT ![f] = t]
       /\ writer' = [writer EXCEPT ![f] =
            IF t \in Output \ {job[p].text[f]} THEN p ELSE Nobody]
  /\ UNCHANGED <<lockVars, agent, head, calls>>

\* The handler resolves, or rejects; without a command that ends the call.
ToolReturns(p, i) ==
  /\ Is(p, i, "running")
  /\ TurnFree(p)
  /\ Becomes(p, i, "ran")
  /\ UNCHANGED <<lockVars, files, op, result, job, latch, writer>>

ToolThrows(p, i) ==
  /\ Is(p, i, "running")
  /\ TurnFree(p)
  /\ IF op[p] = "write"
     THEN Fails(p, i)
     ELSE /\ Becomes(p, i, "ran")
          /\ result' = [result EXCEPT ![p] = "failed"]
          /\ UNCHANGED <<op, job, latch>>
  /\ UNCHANGED <<lockVars, files, writer>>

---------------------------------------------------------------------------
(***************************************************************************)
(* captureUnrestrictedWrites.                                              *)
(***************************************************************************)
\* In the snapshot all links look the same.
Altered(p) ==
  {f \in File : /\ human[f] # job[p].text[f]
                /\ ~({human[f], job[p].text[f]} \subseteq {Link, Dangling})}

CapturedUnchecked(f) == [symbol |-> human[f]]   \* seeded fault: no existsSync

Captured(f) ==
  IF human[f] \in {Absent, Dangling} THEN Absent ELSE [symbol |-> human[f]]

NothingAltered(p, i) ==
  /\ Is(p, i, "ran")
  /\ op[p] = "exec"
  /\ Altered(p) = {}
  /\ Ends(p, i, result[p])
  /\ UNCHANGED <<lockVars, files, latch, writer>>

Capture(p, i) ==
  LET altered == Altered(p) IN
  /\ Is(p, i, "ran")
  /\ op[p] = "exec"
  /\ altered # {}
  /\ \A f \in altered : human[f] # Link
  /\ agent' = [f \in File |-> IF f \in altered THEN Captured(f) ELSE agent[f]]
  /\ job' = [job EXCEPT ![p].own = altered]
  /\ Becomes(p, i, "captured")
  /\ UNCHANGED <<lockVars, human, head, op, result, latch, writer>>

CaptureStopsUnlatched(p, i) ==  \* seeded fault: a second error, no latch
  LET altered == Altered(p) IN
  /\ Is(p, i, "ran")
  /\ op[p] = "exec"
  /\ \E done \in SUBSET {f \in altered : human[f] # Link} :
       /\ done # altered
       /\ agent' = [f \in File |-> IF f \in done THEN Captured(f) ELSE agent[f]]
  /\ IF result[p] = "failed" THEN Fails(p, i) ELSE CaptureFails(p, i)
  /\ UNCHANGED <<lockVars, human, head, writer>>

\* A link to something, or any error, stops it half way.
CaptureStops(p, i) ==
  LET altered == Altered(p) IN
  /\ Is(p, i, "ran")
  /\ op[p] = "exec"
  /\ \E done \in SUBSET {f \in altered : human[f] # Link} :
       /\ done # altered
       /\ agent' = [f \in File |-> IF f \in done THEN Captured(f) ELSE agent[f]]
  /\ CaptureFails(p, i)
  /\ UNCHANGED <<lockVars, human, head, writer>>

\* git add -f, in either view, knows no path that is neither on disk nor in
\* the index.
Addable(p) ==
  \A f \in job[p].own :
    head[f] # Absent \/ (human[f] # Absent /\ agent[f] # Absent)

GitAdd(p, i) ==
  /\ Is(p, i, "captured")
  /\ Addable(p)
  /\ job' = [job EXCEPT ![p].text = human]
  /\ Becomes(p, i, "added")
  /\ UNCHANGED <<lockVars, files, op, result, latch, writer>>

GitAddFails(p, i) ==
  /\ Is(p, i, "captured")
  /\ CaptureFails(p, i)
  /\ UNCHANGED <<lockVars, files, writer>>

---------------------------------------------------------------------------
(***************************************************************************)
(* The commit handler.                                                     *)
(***************************************************************************)
CommitDue(p, i) ==
  \/ Is(p, i, "added")
  \/ Is(p, i, "ran") /\ op[p] = "write"

CommitScan(p, i) ==
  LET changed == {f \in File : agent[f] # head[f]} IN
  /\ CommitDue(p, i)
  /\ IF changed = {}
     THEN Ends(p, i, result[p])
     ELSE /\ job' = [job EXCEPT ![p].todo = changed]
          /\ Becomes(p, i, "scanned")
          /\ UNCHANGED <<op, result>>
  /\ UNCHANGED <<lockVars, files, latch, writer>>

SafeAll(p) == job[p].todo       \* seeded fault: nothing is compared

\* The command's own changes are told from the human's by what was staged.
Safe(p) ==
  {f \in job[p].todo :
     human[f] = IF f \in job[p].own THEN job[p].text[f] ELSE Resolve(head[f])}

Commit(p, i) ==
  LET safe == Safe(p)
      skipped == job[p].todo \ safe
  IN
  /\ Is(p, i, "scanned")
  /\ Release(p)
  /\ safe # {}
  /\ agent' = [f \in File |-> IF f \in skipped THEN head[f] ELSE agent[f]]
  /\ head' = [f \in File |-> IF f \in safe THEN agent[f] ELSE head[f]]
  /\ human' = [f \in File |-> IF f \in safe THEN Resolve(agent[f]) ELSE human[f]]
  /\ writer' = [f \in File |-> IF f \in safe THEN Nobody ELSE writer[f]]
  /\ Ends(p, i, result[p])
  /\ UNCHANGED latch

\* throwOnError: git fails, or every path has been refused; all is put back.
CommitFails(p, i) ==
  /\ Is(p, i, "scanned")
  /\ Release(p)
  /\ HandlerFails(p, i)
  /\ UNCHANGED <<files, writer>>

---------------------------------------------------------------------------
(***************************************************************************)
(* The human, time, crashes.                                               *)
(***************************************************************************)
BeingCaptured(f) ==
  \E p \in Process : \E i \in Call(p) :
    Is(p, i, "captured") /\ f \in job[p].own

HumanSaves(f) ==
  /\ QuietCapture => ~BeingCaptured(f)
  /\ \E t \in HumanTexts \ {human[f]} : human' = [human EXCEPT ![f] = t]
  /\ writer' = [writer EXCEPT ![f] = Nobody]
  /\ UNCHANGED <<lockVars, agent, head, calls>>

TimePasses == Tick /\ UNCHANGED <<files, calls, writer>>

\* The calls, the latch and what was remembered are lost; a process with none
\* of these has nothing to lose.
Crash(p) ==
  /\ Busy(p) \/ latch[p]
  /\ CrashHolder(p)
  /\ call' = [call EXCEPT ![p] = [i \in Call(p) |->
       IF @[i] \in Settled \cup {"new"} THEN @[i] ELSE "lost"]]
  /\ op' = [op EXCEPT ![p] = "write"]
  /\ result' = [result EXCEPT ![p] = "ok"]
  /\ job' = [job EXCEPT ![p] = NoJob]
  /\ latch' = [latch EXCEPT ![p] = FALSE]
  /\ writer' = [f \in File |-> IF writer[f] = p THEN Nobody ELSE writer[f]]
  /\ UNCHANGED files

Restart(p) == RestartHolder(p) /\ UNCHANGED <<files, calls, writer>>

---------------------------------------------------------------------------
\* What the process does once it has been called
Proceeds(p) ==
  \/ Locks(p)
  \/ \E i \in Call(p) :
       \/ Begin(p, i) \/ BeginBlocked(p, i) \/ LockRefused(p, i)
       \/ Reconcile(p, i) \/ ReconcileFails(p, i)
       \/ StartWrite(p, i) \/ StartExec(p, i) \/ RequestRefused(p, i)
       \/ NothingAltered(p, i) \/ Capture(p, i) \/ CaptureStops(p, i)
       \/ GitAdd(p, i) \/ GitAddFails(p, i)
       \/ CommitScan(p, i) \/ Commit(p, i) \/ CommitFails(p, i)

ToolEnds(p) == \E i \in Call(p) : ToolReturns(p, i) \/ ToolThrows(p, i)

ToolActs(p) ==
  \E i \in Call(p), f \in File : ToolWrites(p, i, f) \/ CommandWrites(p, i, f)

Next ==
  \/ TimePasses
  \/ \E f \in File : HumanSaves(f)
  \/ \E p \in Process :
       \/ Proceeds(p) \/ ToolEnds(p) \/ ToolActs(p) \/ Crash(p) \/ Restart(p)
       \/ \E i \in Call(p) : Submit(p, i)

\* A process that is scheduled proceeds, and a tool comes to an end: commands
\* are run with a time limit.
Fairness ==
  \A p \in Process : WF_vars(Proceeds(p)) /\ WF_vars(ToolEnds(p))

Spec == Init /\ [][Next]_vars /\ Fairness

---------------------------------------------------------------------------
\* Output that a command of a live process has left in the Human view, and
\* that no commit has: a reconciliation would take it for the human's.
Bare(p, f) ==
  /\ writer[f] = p
  /\ human[f] \in Output
  /\ human[f] # Resolve(head[f])

\* When a process is between calls, its commands have left nothing bare, or
\* the latch is set: no way out of a call, by an error in the tool, in the
\* capture or in the commit, forgets a capture that is due.  (Not so without
\* Apart: what another process does meanwhile can undo the capture.)
CapturedOrLatched ==
  \A p \in Process, f \in File :
    Alive(p) /\ ~Busy(p) /\ Bare(p, f) => latch[p]

\* Once the latch is set no tool is running or about to run: the calls that
\* were waiting behind the one that failed see it too.
LatchStopsTools ==
  \A p \in Process : latch[p] => ~Busy(p)

\* No process takes the output of its own command over into the Agent view as
\* an edit of the human's.  (Another process may, and so may the same after a
\* restart: the latch is in memory.  And without Apart another may undo the
\* capture first.)
OwnOutputStaysOut ==
  [][\A p \in Process, f \in File :
       /\ at[p] = "holding" /\ at'[p] = "out"
       /\ agent'[f] \in Output /\ agent'[f] # agent[f]
       => writer[f] # p]_vars

\* Of the Human view, a commit replaces only what is committed: what the human
\* has saved since the call began, during a capture too, is still there.  (A
\* dangling link, which a capture takes for no file, it removes.)
OnlyCommittedReplaced ==
  [][\A p \in Process, f \in File :
       /\ at[p] = "holding" /\ at'[p] = "out"
       /\ human'[f] # human[f]
       => human[f] \in {Resolve(head[f]), Dangling}]_vars

\* Every call settles, whatever became of the calls before it and whoever has
\* the lock: nothing waits for the lock, and the chain survives a rejection.
EveryCallSettles ==
  \A p \in Process : \A i \in Call(p) :
    Is(p, i, "waiting") ~> call[p][i] \in Settled

===========================================================================
