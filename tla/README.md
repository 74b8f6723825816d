# DualView in TLA+

DualView keeps untrusted tool output away from an agent. Untrusted values are
replaced by *symbols*; the agent works on files that hold symbols (the *Agent
view*), the user on the same files with the symbols resolved (the *Human
view*). Both views have a git branch, so that blame can tell where a line came
from, and edits made in either are carried over to the other. This directory
holds models of that machinery, the checks made on them with TLC and the proofs
checked by TLAPS. Paths below are relative to `src/`; `dualview-X.ts` stands for
`plugin/dualview/dualview-X.ts`.

## The system

| component | state | operations | who calls it |
|---|---|---|---|
| symbol table (`dualview-symbol-table.ts`) | a SQLite table shared by all processes; a private map in each; the journal of a running reconciliation | load, allocate (insert-or-ignore, upsert, in memory only), obsolete, derive, roll back | everything |
| human-edit reconciliation (`dualview-human-edit.ts`) | the two worktrees and branches, the lock directory, `pending` paths in fixed mode | `reconcileHumanEdits` before each tool call | the adapters' `before_tool_call` hooks |
| on-demand file commit (`dualview-filecommit-ondemand.ts`) | the same | the handler after each tool call: scan, lock, install, commit, roll back | `after_tool_call` hooks, filesystem runtime |
| fixed-mode file commit (`dualview-filecommit-worktree.ts`) | a worktree of the user's own repository | the same without the installation protocol | OpenClaw plugin |
| git helpers (`dualview-git.ts`) | commit lock, worktrees, index locks | acquire, break, release, status, stage, commit | the handlers |
| root registry (`dualview-ondemand.ts`, `dualview-paths.ts`) | the tracked roots, shadow directories | find, initialise, merge, migrate, clean up | OpenClaw plugin |
| policy directory sync (`dualview-policy-dir-sync*.ts`) | both branches, a lock of its own | sync the files of untrusted directories | OpenClaw plugin |
| dataflow runtime (`dualview-dataflow-runtime.ts`) | the session's map | prepare a call, symbolize a result, resolve the final text, close | Claude Code, LangChain |
| filesystem runtime (`dualview-filesystem-runtime.ts`) | a queue of calls, a failure latch | run a call, capture unrestricted writes | Claude Code, LangChain |
| `inspect_symbol` (`dualview-inspect-symbol.ts`) | none of its own | ask an isolated model, symbolize its answer | agent |
| revert (`dualview-revert.ts`) | both histories | list cycles, go back to one | user command |
| policy manager and engine (`policy/`) | layers of rules, session overlays, a policy file | classify, add, remove, persist | all adapters |
| adapters (`index.ts`, `plugin/claude-code`, `plugin/langchain`) | hooks, queues | order the steps above around a tool call | hosts |
| dashboard, scripts, docs, bundled `openclaw/` | - | display, set-up, host | - |

The repository has no tests of the plugin; the sources' comments, the README
files and the tool descriptions are the claims there are.

### Interaction

A tool call goes: reconcile the human's edits (lock, read, merge, commit on both
branches, unlock); rewrite paths into the Agent view; run the tool; symbolize its
result; commit what the tool has written (scan, lock, install in the Human view,
commit three times, unlock). In Claude Code and LangChain the calls of a process
form a chain of promises, and an unrestricted command runs in the Human view
instead: what it has changed is found by comparing the workspace with a snapshot,
put behind symbols, and committed. The LangChain runtime first brings the Agent
view in line with the policy, which tools of any process may have changed. In
fixed mode the Human view is the user's own repository, and its index and branch
are shared with the user, too. All processes of a user share the table, the
worktrees and the lock; the human is bound by no lock.

### What is hard

Values read before a lock or outside a transaction and used inside; the human
saving between any two steps; any git command failing between commits on two
branches; names chosen from a private copy of a shared table; rollbacks that run
after others have changed what they undo; line arithmetic between two texts of
which one abbreviates the other. `PROJECT.json` lists the hazards with their
lines, those nothing covers yet included.

### What makes each part correct

- *Symbol table*: a name means one value, for everyone, until its allocator takes
  it back; an obsoletion is made once and stays.
- *Two views*: what the human saved is never lost; the Agent view has no raw
  untrusted data; when nobody is at work the views show the same files; blame
  separates trusted from untrusted text; a cycle is on both branches or none.
- *Line merge*: the Agent text resolves to exactly what the human wrote, and no
  line of a symbol becomes literal that the human did not write.
- *Lock*: at most one holder, who keeps it until done, crashes and stale locks
  included.
- *Filesystem runtime*: what a command leaves in the Human view is captured, or the
  process runs no more tools; nothing the human saves is replaced; every call
  settles.
- *Fixed mode*: the user's commits, index and uncommitted files survive the
  handlers; a reconciliation is on both branches or none; what the user commits
  meanwhile is noted; a *revert* takes both branches to the same cycle.
- *Policy*: what was persisted stays persisted, a block stands until it is deleted;
  when a tool runs, what is blocked is behind symbols and what is not is readable.
- *Roots*: none inside another (not modelled).

## Modules

### SymbolTable

`db` is the SQLite table, `map[p]` the `SymbolMap` of a process, `inserted[p]` and
`updated[p]` its `SymbolMutationJournal`. A row is its value and whether it is
active; the code compares whole rows, but two processes can agree on every other
column (the timestamps are seconds), so the model lets nothing depend on them.
One action is one transaction or one synchronous stretch without database access:
an `INSERT OR IGNORE` that wins, loses, or loses for the last time; `BEGIN
IMMEDIATE ... COMMIT` of an obsoletion that matches or conflicts; the one
transaction of a rollback. `phase` says whether the process is reconciling or has
to roll back after an error; a rollback may happen between any two steps.
`owned`, `promoted` and `recycled` are history: the names allocations have
returned, those whose obsoletion a completed reconciliation made, and those whose
row a rollback has deleted.

`Spec` has the allocations that go through the database. `MixedSpec` adds what the
code does besides: the paths that choose a name and upsert it, and a gateway whose
configuration gives no database path (`AllocateUnpersisted`; the configuration schema
of the OpenClaw plugin has no `symbolDbPath`), where a derived symbol is in memory
only and has no row, while its parent is obsoleted in the table. Both are left out of
`Spec` because they break its properties; `symbols_inbound` shows how.

### DualFS

`agent` and `human` are the files of the two views, `trusted` and `main` the heads
of the branches (and their indexes, which the code resets to the heads), with
the kind of commit that last changed each file of `main`, which is what blame
shows. `lock` is the directory `commit.lock`, `pc[p]` and `job[p]` the place and
the local variables of the handler in process `p`. The text of a file is
absent, a literal, or untrusted data: as a symbol, or raw; data the human has
rewritten some lines of is the `part` of its source that is left.

The actions follow the two handlers at the grain at which others can see or
disturb them: `StartCall` (status before the lock), `RecLock`, `RecRead` (the
snapshots), `RecStable` (the check that they still hold), `RecApply`,
`RecTrusted`, `RecMain`, `RecFail`; `CommitScan`, `CommitLock`, `CommitRead`,
`CommitCheck`, the installation of one file in two renames (`InstallTake`,
`InstallPut`, `InstallDiscard`, `InstallRefuse`, `InstallRestore`),
`CommitRecheck`, the three commits, `CommitFail`. Whether git fails is open at
every step; a failed handler undoes as the code does and is logged, or, in a
`Strict` process, gives the call up. A reading of several files, and an undoing,
is one action: files are independent, and the steps on each are apart.
With `RollbackFails` the undoing may fail too: `RecUndoFails`, `InstallUndoFails` and
`CommitUndoFails` leave what the code's `rollback(label, action)` leaves when it
collects an error: the branches are rolled back apart from each other, a reset that
fails keeps the commits and skips the files, and of the files some are put back and,
since `writeFilesystemSnapshot` removes before it writes, one may be lost.
`HumanTypes`, `HumanDeletes`, `HumanAmends` and `HumanUndoes` happen at any time.
`draft`, `diverged` and `cycle` are history.

`TwoBranches` is what the branches promise: a step is a whole cycle, on both at once.
In the human's, main gets his text as it is and under his name, in a tool's what the
trusted branch got, resolved, and blamed `UNTRUSTED` if it had a symbol; a file that
a tool's cycle skipped is in `diverged`. With one process the trusted text of a human's
cycle resolves to his. `ImplementsTwoBranches` instantiates it with the heads, which
between the first and the last commit of a cycle count as the handler has read them
(`Midway`, `CommittedTrusted`, `CommittedMain`): until then a failure takes all back.
It promises nothing of a rollback that fails; `AllOrNothing` says what is left then
(`PartsOfCycles`), and that it was reported.

### LineReconcile

What `Merge` in DualFS has as one operator: `buildLineMap`, `reconcileFile`,
`findEditRanges` and `splitSymbol` on lines. A symbol is a range of lines of a
datum; the text of the Agent is a sequence of lines some of which are symbols, or have
one behind spaces or other text (`Dressed`), whose value then begins with these
(`Mixed`). `IsSegment` takes an indented symbol for one, as `line.trim()` does, and a
symbol among other text for a literal line.
The human replaces, inserts and deletes lines; `Reconcile` is one reconciliation
of the file. `shifted` is history: whether lines were added or deleted in a text
that had symbols, and whether above one.

### CommitLock and Mutex

`dir` is the directory `commit.lock` (who made it), `age` how long ago, up to the
point where it may be broken; `at[p]` is where a process is in `acquireLock`:
before the look, about to remove a stale directory, about to make its own,
holding, or crashed. `Look`, `Break`, `Make`, `Refuse` and `Release` are one
system call each. `Mutex` is what is promised: one holder, who alone gives the lock
up. `ImplementsMutex` instantiates it with the process that is `"holding"`; a
crash gives the lock up, though the directory stays.

### FilesystemRuntime

Extends `CommitLock`, whose steps it takes one by one. `call[p][i]` is the place of
the i-th call of process `p` in `wrapToolCall`: submitted, reconciling (`listed`),
ready, running, `ran`, and in the capture and the commit; `op[p]`, `result[p]` and
`job[p]` are the local variables of the one call that is past the chain, `latch[p]`
is `untrustedCaptureFailed`. The chain is `Previous` and `MayRun`. JavaScript runs
other turns of the process only while a tool runs, so `TurnFree` lets a call begin,
and a tool return, only then. The work of a handler under the lock is one action
here: its steps are in DualFS, and a commit that fails is supposed to have been undone.
`head` stands for both branches, since main has what trusted has, resolved. A `Link`
leads to something and stops a capture; a `Dangling` one leads to nothing, and
`existsSync` takes it for a deleted file. `Crash` loses the calls, the chain and the latch.
`writer` is history: whose command put its output in a file.

### FixedMode

`agent` and `trusted` are the worktree of `dualview-trusted` and its head; `human`,
`index` and `head` the user's worktree, index and HEAD, which the handlers share
with the user; `pending` is `pending-human-reconcile.json`. A commit of HEAD is its
tree with how many of the user's commits and of published reconciliations it has,
so that a lost one shows. `Rec...` are the steps of `reconcileHumanEdits` in fixed
mode: reading, the check that nothing moved, writing the Agent view, the trusted
commit, the publishing by compare-and-swap, the check afterwards, the refresh of
those index entries that are as HEAD was, and three ways back: undo, rewind HEAD by
compare-and-swap, or leave the commit and note the files as pending (`RecPreserve`).
With `RollbackFails` each of these may fail where the code catches an error
(`RecUndoFails`): the trusted branch is then not reset, or some of its files are not
put back, or neither branch is because `update-ref` has failed; `RecReport` is the
error that is thrown on, and logged by the hook.
`Com...` are those of `createWorktreeFileCommitHandler`, which copies one file after
the other and undoes nothing. `Addable` is `git add` with a path that git does not
know: nothing at all is staged, and the code ignores the error. `Revert` is
`revertToWriteCycle`, which pairs the n-th commits of two histories. The user
saves, stages and commits between any two steps. `commits`, `staged`, `moved`,
`unseen` and `uneven` are history.

### PolicyManager

`file` is `dualview-policy.yaml`, `yaml[p]` and `overlay[p]` the two layers of the
manager of process `p`; `saving[p]` is what it has read and changed and not yet
written. A layer is the default of the category DIR and its two lists. `ChangeSession`
and the pair `PersistRead`, `PersistWrite` are `add` and `delete` with and without
`persist`. One process, `Agent`, also makes tool calls as the LangChain runtime does:
`CallBegins` computes the removed paths from the policy in force, `Restore` gives
their files back, `Sync` puts the files of added paths behind symbols, `Reconcile`
brings the human's edits over (symbolized under an untrusted path, elsewhere raw, or
partly behind symbols if they were before), and the call may fail in between. A
file that is partly symbolic (`Mixed`) and resolves to what the human sees is left
as it is by `Sync` (`AsItIs` is `shouldRegisterAsUntrusted`). `paths` and `known` are
the runtime's fields. `approved`, `blocked`, `exposed`, `stranded` and `spared` are
history.

### Not in the models

- *DualFS*: processes do not crash inside a handler; `pathFilter`, explicit and ignored
  human edits, symbolic links, file modes and binary files are left out, and `Resolve`
  always finds a symbol in the table. Renames in git are a deletion and an addition.
  The index goes with its head: a reset that has moved one and not the other is not
  told apart, nor what is staged and not committed. A backup that cannot be renamed
  back while a file is being installed is left out, and so is a rollback of the
  symbol table that fails.
- *LineReconcile*: text behind a symbol on its line, several symbols on a line, and
  references to a field of a symbol (`buildLineMap` treats them all as it treats a
  symbol behind other text, which is there); a human's line that takes away the
  spaces before a symbol.
- *CommitLock*: a live holder is done before its lock is stale.
- *FilesystemRuntime*: crashes are between handlers, not inside; the rollback of a commit
  that fails succeeds (DualFS has the other case); a human does not amend a command's raw output; nothing a command started goes on writing after it
  ended; the binary files of a capture are text. (For these the code commits a
  placeholder, which replaces the file in the Human view, and then writes the
  content back; a crash in between leaves the placeholder.)
- *FixedMode*: one process; commits of the handlers that git hooks refuse; several
  lines of a file.
- *PolicyManager*: URL and CHANNEL, policies of tools, legacy keys, several roots,
  what tools write (so the files that are partly symbolic are there from the start, or
  come from `Reconcile`), what becomes of such symbols when their path is removed,
  and a policy file that cannot be parsed (`loadPolicyForWrite`
  then starts from an empty one).

### Not modelled

The root registry (`dualview-ondemand.ts`) merges and migrates histories with `git
subtree` when a directory is first used, on paths and under no lock; what can go
wrong there depends on what git does with prefixes that exist, which a model would
have to assume. The policy of tools and commands, restricted exec and the symbol
formats are pure string processing. `inspect_symbol` is prompting and schema
checks but for the symbols it derives, which are in SymbolTable. The dashboard,
scripts and configuration keep no state of the system. `openclaw/` is the bundled
source of the host, 97 of 100 lines of the repository and not part of DualView; the models are about `plugin/`.

## Runs

| run | expects | shows |
|---|---|---|
| `symbols` | pass | the six properties of SymbolTable, two processes, two names, two values, two attempts |
| `symbols_inbound` | violation | an upsert takes a name that stands |
| `dualfs` | pass | the properties of DualFS and the refinement of TwoBranches, one process and the human, two files, steps that fail and rollbacks that succeed |
| `dualfs_two` | pass | `DraftsSurvive` and `AllOrNothing` with two strict processes, all edits, symbols, deletions and commands, and rollbacks that fail |
| `dualfs_scan` | violation | a status read before the lock brings raw data into the Agent view |
| `dualfs_exec` | violation | so does a new file of an unrestricted command |
| `lines` | pass | the five properties of LineReconcile, all three edits, symbols on lines of their own |
| `lines_inline` | violation | with a symbol behind other text an edit elsewhere in the file brings raw lines into the Agent text |
| `lines_delete` | violation | so does deleting one line of a symbol |
| `runtime` | pass | the nine properties of CommitLock and FilesystemRuntime: two processes with two and one calls, one file, crashes, the human; refinement of Mutex; liveness |
| `fixed` | pass | the seven properties of FixedMode, with rollbacks that fail: two files, three calls or reverts, two edits and a commit of the user |
| `policy` | pass | the five properties of PolicyManager: two managers and the calls of one process, a directory in another, a file that is partly symbolic, three changes, two calls, one edit, one restart |

*Bounds.* Two processes are enough for every conflict in the table: each action
looks at one row and one journal. Two names let an allocation lose and draw again
or be exhausted (`MaxAttempts` stands for 16), two values tell an overwritten row
from an intact one. `dualfs` has two files so that one can be skipped and the
other installed, and an installation can fail between them; one literal and one
source are enough to tell all kinds of text apart, since no step compares two
literals of different files. `dualfs_two` has one file, where two handlers meet, and both
processes strict, so that they are interchangeable; a plain text that a tool writes is
left to `dualfs`, as the two properties do not tell it from a symbol.
`lines` has data of three and one lines, texts of up to two symbols, and up to
four lines (`MaxLines`), so that a symbol can be split in the middle, at both
ends, and twice. `runtime` has two calls in one process, so that one waits behind
the other, and one in the second, which fights for the lock or breaks it; one file
is enough, since the handlers' work is one step and a capture that stops half way
stops before it. `StaleAfter` is one tick: the age only matters against it. `fixed`
has a file that starts behind a symbol, which tools delete, and one that is not there,
to which they write a symbol; the user saves one text in either, and stages and commits
it. Three calls let a reconciliation follow a call and a revert both, or a rollback that
failed; two edits and a commit can fall between any two steps. That the user deletes a
file is left to the proofs. `policy` has a directory and one inside it, the only way two
entries can share files, a file of the outer one that is partly symbolic from the start
(`Partial`) and one that is raw, two calls so that the second starts from what the first
has left, and a restart between any two steps. Symmetry is over model values no definition names.

*Restrictions, and what happens without them.* The passing runs of DualFS keep
apart what the code does not survive:

- `QuietRestore`: the human does not save between `pathExists` and `renameSync`
  of `discardOrRestoreBackup`. Without it `DraftsSurvive` fails.
- `RollbackFails` is FALSE in `dualfs`: handlers fail anywhere, and what they undo is
  undone. One lasting cause, an index lock left behind or a full disk, can make a
  step and its rollback fail. With it `NoRawInAgentView` fails: a tool writes a symbol,
  its installation is taken back only in part, and the next reconciliation copies the
  resolved text that is left. So do `ViewsAgree`, `BlameSeparates` and the refinement,
  since one branch keeps commits the other has lost. What remains true is in `dualfs_two`.
- `dualfs` has no `amend`: after a skipped path, an amended text whose Agent text
  has lost its symbol is copied raw. Nor `exec`: see `dualfs_exec`.
- with two processes a tool may write the Agent view while another call's
  reconciliation is between its steps, and `ViewsAgree` fails; `NoRawInAgentView`
  does as in `dualfs_scan`.
- skipped paths (`diverged`) are excepted from `ViewsAgree`: the trusted branch
  keeps the agent's text, and nothing makes the views agree until one is edited.

Those of the other modules:

- `QuietBreak`: nobody makes the lock directory between another process's `statSync`
  of a stale one and its `rmdirSync`. Without it `HolderKeepsLock` fails, and with it
  mutual exclusion.
- `Apart`: while a process has an unrestricted command, from its reconciliation to
  its commit, no other process has a call of any kind at work. Without it
  `CapturedOrLatched`, `OwnOutputStaysOut` and `OnlyCommittedReplaced` fail: another
  process reconciles half-written output as the human's, or its own commit takes the
  capture back. Nothing in the code sees to
  it. LangChain's `wrapToolCall` keeps the calls of one process apart, and several
  processes at once are a non-goal of `docs/design/langchain-dualview.md`; but the
  hooks of Claude Code reconcile and commit in processes of their own
  (`plugin/claude-code/src/runtime.ts`, 125-202), and about those these properties say
  nothing.
- `QuietCapture`: the human does not save a file between its capture and the staging
  of it. Without it `OnlyCommittedReplaced` fails, against the head of
  `dualview-filecommit-ondemand.ts` ("without overwriting Human edits").
- `QuietCommit`: the user leaves alone the file that the fixed-mode handler is
  copying. Without it `UncommittedKept` fails between the check and `copyFileSync`, and
  so does `EditsReachAgent`: what he saves there is committed with the handler's own.
- the texts of `lines` have symbols on lines of their own only (`EachBare`). With one
  behind other text `NoRawLinesInPlace` fails (`lines_inline`), and with an indented one
  too: `buildLineMap` takes it for a symbol (`dualview-human-edit.ts`, 121), and the
  comparison with its value (1043-1051) finds the spaces and takes it for edited.
- `Serial`: one process at a time is between reading and writing the policy file.
  Without it `PersistedKept` fails: neither a lock nor a compare protects the file.

And what the history variables except from the properties:

- `unseen` from `EditsReachAgent`: in fixed mode what the user commits while no
  reconciliation is running is neither in `git status` nor pending, and never reaches
  the Agent view (the comment in `dualview-filecommit-worktree.ts`, "the next
  reconcile pass absorbs it", is about uncommitted edits only). The same goes for
  files he had staged and a twin commit took along, and for edits he took back after
  they had been skipped.
- `uneven` from `RevertsTogether`: a call that skipped every file, or failed between
  its commits, has committed on one branch only, and from then on the n-th commits of
  the histories belong to different calls.
- `exposed` from `BlockedBehindSymbols`: when one of two nested untrusted paths is
  deleted, the files below both are given back, and since the other path is not new
  nothing symbolizes them again.
- `spared` from `BlockedBehindSymbols`: a file that had some symbol in it when its path
  was added keeps its raw lines (`dualview-policy-dir-sync-ondemand.ts`, 258-279), against
  the comment there (309-311). Without the exception the property fails.
- `stranded` from `UnblockedReadable`: a restart forgets paths of the session, and a
  failed call the ones it had symbolized.
- from `BothOrNeither` and `AllOrNothing`, what a rollback leaves that has failed and said
  so (`"reported"`, `cycle.reported`): a trusted branch that is ahead, or part of a cycle,
  but never HEAD ahead, or the resolved text on main alone.
- `BlocksStand` has the code's exception in it: trusting any directory sets the
  default to UNTRUSTED, and from then on blocks below trusted directories are void.

One more behaviour shows in FixedMode without a property of its own. A call that
deletes one file and writes another (a move) makes `git add` refuse both paths,
because `git rm` has just removed the first from the index; the error is ignored,
the raw text of the second stays uncommitted in the user's worktree, and the next
reconciliation copies it into the Agent view as a new file of the user's. It is in
the list of hazards.

*Violations* are findings; `PROJECT.json` quotes what each contradicts.

*Liveness.* `EveryCallSettles`: a call of FilesystemRuntime that is queued settles, or
is lost in a crash. The fairness is weak fairness of two actions per process:
`Proceeds`, what the process does by itself once it has been called, which holds
because the event loop runs a promise that is ready and nothing waits for the lock;
and `ToolEnds`, because commands have a time limit (`DUALVIEW_BASH_TIMEOUT_MS`) and
file tools end. The human, submitted calls, time, crashes and restarts have none. No
liveness is stated of the handlers alone: one that finds the lock taken gives up at
once and nothing retries, so what has to happen eventually rests on further tool
calls that no code promises. For the same reason the policy's effect is stated for
the moment a tool runs.

*Deadlock* is checked but in `runtime`, `fixed` and `policy`, where the calls, edits
and changes of a run are bounded and everything may be done.

Each property of a passing run has a seeded fault, an operator marked as one
beside the definition it stands in for, that breaks it.

## Proofs

`SymbolTableProofs` proves the six properties of `Spec` for any sets of processes,
names and values and any number of attempts, assuming only that the latter is a
positive number and that `NoRow` is no row (`AttemptsAssumption`,
`NoRowAssumption`).

The properties are not inductive: that a rollback leaves others' rows alone follows
from what maps and journals can hold. `IInv` adds to the properties that

- `InsertedOwned`: a journalled insertion is a symbol its process owns;
- `JournalClosed`: outside a reconciliation there is no journal;
- `MapsAgreeWithTable`: what a map lists has a row of the same value;
- `UpdatedObsoletes`: a journalled update only clears the active flag, and its
  result is what the map lists;
- `UpdatesPending`: the row of a journalled update stays obsoleted, was not
  inserted by the same journal, and is promoted by nobody yet;
- `InsertionsConsistent`: a row inserted and obsoleted by one reconciliation is
  obsoleted in the table, and in no other journal.

Those about rows speak of names that were not recycled. `MapsAgreeWithOwners` follows
from `MapsAgreeWithTable` and `OwnersKeepRows`.

Each action has a lemma that it preserves `IInv`, with a step for each conjunct
it can disturb. `TableUntouched` serves the actions that leave table and journals
alone; `FreeName` states that a name without a row is owned by nobody and, unless
recycled, in no map or journal, which is what makes a won insert safe. `NextIInv`
puts the actions together, `Invariance` adds the temporal step, and the theorems
follow.

`CommitLockProofs` proves mutual exclusion, that a holder keeps its lock, and the
refinement of Mutex, for any processes and any `MaxHold <= StaleAfter`, assuming
`QuietBreak`. `LockInv` is the type, `HolderKeepsLock` and `BreakersFindStale`: who is
about to break a lock finds a stale one or none. That is what `QuietBreak` gives and
what makes the removal harmless, since a directory older than `StaleAfter` belongs to
no live holder. For the refinement, `Holder` is a CHOOSE; lemmas state that it is the
process that holds, if one does, and that a step that moves nobody into or out of
`"holding"` leaves it alone.

`FilesystemRuntimeProofs` first shows that every step is one of the lock or leaves it
alone (`KeepsTheLock`), so that the theorems about the lock hold of the runtime.
`RuntimeInv` is the types and

- `InOrder`: calls begin in the order of the chain, and at most one of a process is
  past it, which with the latch gives `LatchStopsTools`;
- `Alone`: with `KeptApart`, while one process has a command no other call is at work.
  `KeptApart` is `Apart`, or that there is only one process, of which the chain
  sees to it;
- `Accounted`: output that a command of a live process has left bare is its own
  running call's, in the set that is captured, or staged as it is; or the latch is set.

`NothingEscapesCapture` follows. It is the property a review would doubt, because a
call can be left by an error at a dozen places; the proof has a step for each.

Its second part proves the two action properties, of the steps that give up the
lock. `StepInv` adds to `RuntimeInv` what the place of a call says of its job:

- `OwnIsOfCommands`: only a command has captured files;
- `ListedIsOthers`: no command of the same process has written what is to be
  reconciled, since `Accounted` leaves it nothing bare when a call begins;
- `StagedStands`: what is still its command's in the Human view is what was staged,
  so the commit never skips it; what is skipped is someone else's
  (`SkippedIsOthers`);
- `CapturedIsStaged` (with `QuietCapture`): the Agent view has what was staged behind
  symbols, so that the commit writes back what is there already.

`OwnOutputIsKeptOut` and `SavedTextStays` follow.

`PolicyManagerProofs` has two inductive invariants over the types. `SyncInv` relates
the runtime's list of paths to what is raw and what is behind symbols, at each place of
a call, for any directories and any nesting. `FileInv` relates the file, each manager's
layers and what it is saving to what was approved and blocked: the entry of a block is
in the manager's overlay, or both in its copy of the file and in the file, so that
neither saving nor clearing the session loses it.

`DualFSProofs` proves, for any processes, files and texts, whatever the human and
the tools write and whether or not rollbacks may fail, the types with the lock (`TypesAreKept`: `pc` is at a place of `Locked`
exactly for the holder) and `AllOrNothing`. The latter needs `CycleFits`: how many of a
cycle's commits there are at each place of the holder, so that each way out undoes
all of them. `DraftsSurvive` assumes `QuietRestore` and needs more:

- `BackupHeld`: a backup exists only during an installation, and always when one is
  being restored;
- `HeadsRead`: the heads a handler has read are the heads until it commits;
- `InstallOfChanged`: only files that the Agent has changed are moved or installed;
- `DraftsOpen`: what is on the main branch is no draft, but during the last commits;
- `MovedDrafts` and `DoneDrafts`: a draft of the file being installed is its backup, or
  was saved in its place since; and what has been installed is no draft, so that
  taking it back loses none. `QuietRestore` is used here and nowhere else.

`DualFSBranchProofs` goes on with what the branches hold, if rollbacks do not fail
(`~RollbackFails`), which all its theorems suppose. `BlameSeparates` supposes no more. It
holds because raw text in the Agent view, where there is some, is on
main already (`RawOnMain`), because symbols are on main only between the two commits
of a cycle, which a failure undoes (`MainSeparate`), and because the human is shown
none, backups and snapshots included (`HumanResolved`). `ViewsAgree` is for one
process (`OneProcess`): between cycles main shows what the trusted branch resolves
to, and during one the handler has read what is missing of that (`Agree`).
`NoRawInAgentView` is for one process, a human who types and deletes, and tools without
unrestricted commands (`Careful`), the code's failures included: raw data in the Human
view is what main has, or what was just installed (`Symbolized`), so that the
reconciliation never takes it for an edit. TLC finds counterexamples without each
of these assumptions; see *Restrictions*.

`ImplementsTwoBranches` supposes no more, either. `Halfway` says what the commits so far have put
on the branches at each place between the first and the last. With `HeadsRead` it makes
every step but three a stuttering step of TwoBranches (`WithoutLockStutters`,
`UnderLockStutters`), failures included, and the three that end a cycle its steps
(`HumanCycles`, `SkippedCycles`, `AgentCycles`). `HumanResolved` is what makes the human's
text its own resolution; `Agree` is used for one process only.

`FixedModeProofs` rests on `HeadInv`: the types, and what a handler knows of HEAD
(`HeadKnown`: before it publishes the head it has read, afterwards its own commit,
unless the user has committed meanwhile), what it remembers (`JobFits`), and that
there are no more reconciliations in a history than calls (`Counted`).
`UserCommitsKept` is part of it. Its theorems hold whether or not rollbacks may fail.
`BothOrNeither` adds `TrustedStands`, what has become of the trusted branch at each
place; the lemma `Endings` says in which ways a reconciliation ends, and `TrustedStands` decides each. `RevertsTogether` needs
`Paired`, which relates the n-th commits of the histories, and the steps of a call that
is half way. These have no assumption. The other three assume `QuietCommit`:
`UncommittedKept` and `StagedKept` by `LeftAlone`, that what the handler has copied
is still so; `EditsReachAgent` by `EditsFollowed`, which states the property of
the trusted branch, and during a reconciliation of the trusted branch and HEAD as they
were read, since the reconciliation may still take everything back.

`LineReconcileProofs` is about texts of any length, data of any height and any number of
edits and reconciliations. A text is resolved and merged by `FlattenSeq`, where the
human's lines start is a recursive function, and where a run of kept lines ends a
CHOOSE, so its lemmas say what these compute: the joins and offsets of a sequence of
sequences (`FlattenPrefixes`, `FlattenAt`, `FlattenFind`, `FlattenConcat`), the line each
line is mapped to (`HumanStartIsOffset`), the pieces of a split (`SplitElements`). The
library's induction theorems cannot be used; these proofs take the least prefix
for which the lemma would be false (`Least`) and contradict it, and show first
that the recursive functions exist. On them rest two theorems without which
reconciliation could lose or double lines:

- `SplitMeaning`: the pieces of a split symbol resolve to the human's lines, whatever
  they are, if there are as many as the symbol has;
- `MergeMeans`: the merged text resolves to the human's text, and where that is
  shorter to the rest of the old one, and has no raw line.

The invariant `Inv` is the types and

- `SymbolsApart`: no two symbols of the Agent text share a line of their datum;
- `ObsoleteApart`: nor does an obsoleted one, unless it contains the symbol: the
  pieces are parts of what was split, and never it. `SymbolsActive` follows;
- `InPlace`: unless lines were added or deleted above a symbol, a raw line of the
  human's text is where the Agent text, resolved, has it. This is what a comparison
  with a symbol's value depends on, and `NoRawLinesInPlace` is part of it;
- `MeansCommitted`: while no line was added or deleted, the Agent text resolves to
  what was committed. `RoundTrip` follows.

`SplitIsCoarsest` is proved from `Inv` by itself: pieces of one symbol have a changed
line between them (`SplitElements`), and the end pieces of neighbouring symbols
continue each other only if those did (`MergedNeighbours`).

All but the types and the two theorems above suppose `EachBare`, that each symbol of a
document is a line of its own, from which `Plain` follows, that no raw line ever has
anything before it, and `EachUsedOnce`, that no line of a datum is in a document twice,
since a symbol that occurs twice is obsoleted when one occurrence is edited and the
other is then a literal line (a hazard listed at `dualview-human-edit.ts:1070`).
`SplitIsCoarsest` supposes `EachCoarse`, that the symbols of the documents do not
continue each other. `MCLineReconcile` has TLC evaluate that all three hold of the texts
of `lines`. `LinesAssumption` says of the constants that the agent's and the human's own
lines are neither symbols nor raw lines, and that documents have no raw lines: symbols
are made of random names, and a line the human types that equals a raw one is a
raw one to this code.

Some definitions changed for these proofs. `StatusOf` in DualFS had a CASE with guards
that overlap, of which TLC takes the first and TLA+ any. FixedMode assumed that `None`
is no text, where what it compares with `None` is a file or a commit. The symbols of
LineReconcile were those with any bounds; now the first line is not after the last,
as `splitSymbol` has it.

What is proved is what the runs check, with the same definitions; a run shows it for one
small instance, and that the assumptions and the interesting cases can occur. Left
to TLC altogether, being out of TLAPS's reach:

- liveness (`EveryCallSettles`) and ENABLED;
- the specifications that are expected to fail, and those the *Restrictions* exclude.

## Plan

Done: SymbolTable, CommitLock, FilesystemRuntime, PolicyManager, DualFS, FixedMode and
LineReconcile, with checks and proofs. Left, in this order:

1. Proofs: an abstract table that SymbolTable implements, a name bound once until its
   owner takes it back.
2. Policy sync as a third writer of the branches in DualFS, under its own lock.
3. Crashes inside the handlers of DualFS, once the code looks for what they leave.
4. The root registry, with what git's subtree does as an assumption.
