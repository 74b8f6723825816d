------------------------------ MODULE FixedMode ------------------------------
(***************************************************************************)
(* Fixed mode: the Human view is the user's own repository, the Agent view *)
(* a worktree of it on the branch dualview-trusted.  The user edits,       *)
(* stages and commits there, with an index and a branch that the handlers  *)
(* share with him:                                                         *)
(*                                                                         *)
(*  - reconcileHumanEdits (dualview-human-edit.ts) publishes its commit by *)
(*    compare-and-swap, refreshes the user's index, and has to undo or to  *)
(*    leave what it did if the user commits meanwhile;                     *)
(*  - createWorktreeFileCommitHandler (dualview-filecommit-worktree.ts)    *)
(*    copies and commits what a tool has written, and undoes nothing;      *)
(*  - revertToWriteCycle (dualview-revert.ts) takes both branches back.    *)
(*                                                                         *)
(* One process at a time is at work (module CommitLock).                   *)
(***************************************************************************)
EXTENDS Naturals, Sequences, SequencesExt

CONSTANTS
  File,         \* paths of the repository
  Literal,      \* texts the agent or the user writes
  Source,       \* untrusted data
  Absent,       \* no file
  None,         \* nothing
  UserText,     \* what the user saves
  AgentText,    \* what the tools write to each file
  Start,        \* the Agent view at the start
  MaxCalls,     \* tool calls
  MaxEdits,     \* files the user saves or stages
  MaxCommits,   \* commits of the user
  QuietCommit,  \* the user leaves alone the files that are being committed
  RollbackFails \* undoing a reconciliation may fail as well

Symbol == [symbol : Source]
Raw == [raw : Source]
Text == Literal \cup Symbol \cup Raw \cup {Absent}
Tree == [File -> Text]
Commit == [tree : Tree, users : 0..MaxCommits, humans : 0..MaxCalls]

ASSUME FixedModeAssumption ==
  /\ Literal \cap (Symbol \cup Raw) = {}
  /\ Absent \notin Literal \cup Symbol \cup Raw
  /\ None \notin File \cup Commit
  /\ UserText \subseteq Literal \cup {Absent}
  /\ AgentText \in [File -> SUBSET (Literal \cup Symbol \cup {Absent})]
  /\ Start \in [File -> Literal \cup Symbol \cup {Absent}]
  /\ MaxCalls \in Nat /\ MaxEdits \in Nat /\ MaxCommits \in Nat
  /\ QuietCommit \in BOOLEAN /\ RollbackFails \in BOOLEAN

\* resolveAllSymbols
Resolve(t) == IF t \in Symbol THEN [raw |-> t.symbol] ELSE t

VARIABLES
  agent,    \* the worktree of dualview-trusted
  trusted,  \* its HEAD
  human,    \* the user's worktree
  index,    \* the user's index
  head,     \* the user's HEAD: its tree, and how many commits of the user's
            \* and of reconciliations it has
  cycles,   \* the [DUALVIEW-UNTRUSTED] commits of HEAD
  twins,    \* the [DUALVIEW-TRUSTED] commits of dualview-trusted
  pending,  \* pending-human-reconcile.json
  pc,       \* where the process is
  job,      \* what its handler remembers
  calls,    \* tool calls so far
  edits,    \* saves and stagings of the user so far
  commits,  \* history: the user's commits, those a revert abandons left out
  moved,    \* history: the user has committed since a reconciliation read HEAD
  staged,   \* history: what the user has staged and not committed
  unseen,   \* history: files whose change git status and pending paths miss
  uneven    \* history: a tool call has committed on one branch only

views == <<agent, human, index>>
branches == <<trusted, head, cycles, twins>>
history == <<commits, staged, unseen, uneven>>
counters == <<calls, edits>>
vars == <<views, branches, pending, pc, job, counters, moved, history>>

Reconciling == {"recRead", "recStable", "recApplied", "recTrusted",
                "recPublished", "recChecked", "recRefreshed", "recFailing"}
Committing == {"comTrusted", "comPicked", "comTwin", "comResolved"}

Job == [listed : SUBSET File,   \* what git status and the pending paths say
        gone   : SUBSET File,   \* of those, with status D
        fresh  : SUBSET File,   \* of those, with status ?? or A
        file   : File \cup {None},  \* the file that is copied
        todo   : SUBSET File,   \* files still to do, later: safe
        done   : SUBSET File,   \* files copied
        snap   : Tree,          \* what was read of the Human view
        base   : Tree,          \* what was read of the Agent view
        index  : Tree,          \* fixedIndexBefore
        trusted : Tree,         \* trustedHead
        head   : Commit,        \* humanHead
        published : Commit \cup {None}]  \* publishedHumanCommit

Blank == [f \in File |-> Absent]
NoCommit == [tree |-> Blank, users |-> 0, humans |-> 0]
NoJob == [listed |-> {}, gone |-> {}, fresh |-> {}, file |-> None, todo |-> {}, done |-> {},
          snap |-> Blank, base |-> Blank, index |-> Blank, trusted |-> Blank,
          head |-> NoCommit, published |-> None]

TypeOK ==
  /\ agent \in Tree /\ trusted \in Tree /\ human \in Tree /\ index \in Tree
  /\ head \in Commit
  /\ cycles \in Seq([call : 1..MaxCalls, commit : Commit])
  /\ twins \in Seq([call : 1..MaxCalls, tree : Tree])
  /\ pending \in SUBSET File
  /\ pc \in {"idle", "listed", "reported", "ready"} \cup Reconciling \cup Committing
  /\ job \in Job
  /\ calls \in 0..MaxCalls /\ edits \in 0..MaxEdits /\ commits \in 0..MaxCommits
  /\ moved \in BOOLEAN /\ uneven \in BOOLEAN
  /\ staged \in SUBSET File /\ unseen \in SUBSET File
  /\ pc = "idle" => job = NoJob

Init ==
  /\ agent = Start
  /\ trusted = agent
  /\ human = [f \in File |-> Resolve(agent[f])]
  /\ index = human
  /\ head = [NoCommit EXCEPT !.tree = human]
  /\ cycles = <<>> /\ twins = <<>>
  /\ pending = {}
  /\ pc = "idle" /\ job = NoJob /\ calls = 0 /\ edits = 0
  /\ commits = 0 /\ moved = FALSE
  /\ staged = {} /\ unseen = {} /\ uneven = FALSE

---------------------------------------------------------------------------
(***************************************************************************)
(* The user: saves a file, git add, git commit.                            *)
(***************************************************************************)
Clean(f) == human[f] = index[f] /\ index[f] = head.tree[f]

Differ(a, b) == {f \in File : a[f] # b[f]}

BeingCommitted(f) == pc \in Committing /\ f \in job.todo \cup job.done

\* The Agent view has, or may be given back, another text than t.
Hidden(f, t) ==
  pc \in Reconciling \/ {Resolve(agent[f]), Resolve(trusted[f])} # {t}

\* A text that is what HEAD has again, or what a commit that is being published
\* replaces, is or may become no change to git.
TakesBack(f, t) ==
  LET old == {head.tree[f]} \cup {job.head.tree[f] : x \in {pc} \cap Reconciling} IN
  unseen' = IF t \in old /\ Hidden(f, t) THEN unseen \cup {f} ELSE unseen

UserSaves(f) ==
  /\ QuietCommit => ~BeingCommitted(f)
  /\ edits < MaxEdits
  /\ edits' = edits + 1
  /\ \E t \in UserText \ {human[f]} :
       /\ human' = [human EXCEPT ![f] = t]
       /\ TakesBack(f, t)
  /\ UNCHANGED <<agent, index, branches, pending, pc, job, calls, moved,
                 commits, staged, uneven>>

UserStages(f) ==
  /\ QuietCommit => ~BeingCommitted(f)
  /\ edits < MaxEdits
  /\ edits' = edits + 1
  /\ index[f] # human[f]
  /\ index' = [index EXCEPT ![f] = human[f]]
  /\ staged' = staged \cup {f}
  /\ TakesBack(f, index'[f])
  /\ UNCHANGED <<agent, human, branches, pending, pc, job, calls, moved,
                 commits, uneven>>

\* While a reconciliation knows what HEAD was it will notice; at any other
\* time the commit hides the change from those to come.
UserCommits ==
  LET changed == Differ(index, head.tree) IN
  /\ commits < MaxCommits
  /\ changed # {}
  /\ head' = [head EXCEPT !.tree = index, !.users = @ + 1]
  /\ commits' = commits + 1
  /\ moved' = (pc \in Reconciling)
  /\ staged' = {}
  /\ unseen' = IF pc \in Reconciling \ {"recRead"} THEN unseen
               ELSE unseen \cup {f \in changed : Hidden(f, index[f])}
  /\ UNCHANGED <<views, trusted, cycles, twins, pending, pc, job, counters, uneven>>

User == UserCommits \/ \E f \in File : UserSaves(f) \/ UserStages(f)

---------------------------------------------------------------------------
(***************************************************************************)
(* reconcileHumanEdits, with gitRoot.                                      *)
(***************************************************************************)
Goto(l) == pc' = l

\* A call begins; git status and the pending paths are read before the lock.
RecList ==
  LET listed == {f \in File : ~Clean(f)} \cup pending IN
  /\ pc = "idle"
  /\ calls < MaxCalls
  /\ calls' = calls + 1
  /\ Goto(IF listed = {} THEN "ready" ELSE "listed")
  /\ job' = [NoJob EXCEPT !.listed = listed,
                          !.gone = {f \in listed :
                             /\ human[f] = Absent
                             /\ index[f] \in {head.tree[f], Absent}},
                          !.fresh = {f \in listed :
                             /\ human[f] # Absent
                             /\ \/ index[f] = Absent
                                \/ head.tree[f] = Absent /\ index[f] = human[f]}]
  /\ UNCHANGED <<views, branches, pending, edits, moved, history>>

\* Under the lock: both heads, and the files of both views.
RecRead ==
  LET taken == {f \in job.listed :
        IF f \in job.gone THEN agent[f] # Absent ELSE human[f] # Absent} IN
  /\ pc = "listed"
  /\ Goto("recRead")
  /\ job' = [job EXCEPT
       !.todo = taken,
       !.snap = [f \in File |-> IF f \in job.gone THEN Absent ELSE human[f]],
       !.base = agent,
       !.trusted = trusted,
       !.head = head]
  /\ moved' = FALSE
  /\ UNCHANGED <<views, branches, pending, counters, history>>

\* stableFiles; then the user's index entries are read.
RecStable ==
  LET safe == {f \in job.todo : human[f] = job.snap[f]} IN
  /\ pc = "recRead"
  /\ Goto(IF safe = {} THEN "ready" ELSE "recStable")
  /\ job' = IF safe = {} THEN NoJob
            ELSE [job EXCEPT !.todo = safe, !.index = index]
  /\ moved' = (moved /\ safe # {})
  /\ UNCHANGED <<views, branches, pending, counters, history>>

\* reconcileFile: what is still behind its symbol stays there; a file that is
\* new to git is copied.
Merged(f) ==
  IF f \notin job.fresh /\ Resolve(job.base[f]) = job.snap[f]
  THEN job.base[f] ELSE job.snap[f]

RecApply ==
  /\ pc = "recStable"
  /\ agent' = [f \in File |-> IF f \in job.todo THEN Merged(f) ELSE agent[f]]
  /\ Goto("recApplied")
  /\ UNCHANGED <<human, index, branches, pending, job, counters, moved, history>>

RecTrusted ==
  /\ pc = "recApplied"
  /\ trusted' = [f \in File |-> IF f \in job.todo THEN agent[f] ELSE trusted[f]]
  /\ Goto("recTrusted")
  /\ UNCHANGED <<views, head, cycles, twins, pending, job, counters, moved, history>>

Published(base) ==
  [base EXCEPT !.tree = [f \in File |->
                           IF f \in job.todo THEN job.snap[f] ELSE @[f]],
               !.humans = @ + 1]

RecPublishBlindly ==   \* seeded fault: update-ref without the expected value
  /\ pc = "recTrusted"
  /\ head' = Published(job.head)
  /\ job' = [job EXCEPT !.published = head']
  /\ moved' = FALSE
  /\ Goto("recPublished")
  /\ UNCHANGED <<views, trusted, cycles, twins, pending, counters, history>>

\* publishFixedHumanCommit: a commit on the head that was read, swapped in if
\* HEAD is still that.
RecPublish ==
  /\ pc = "recTrusted"
  /\ ~moved
  /\ head' = Published(job.head)
  /\ job' = [job EXCEPT !.published = head']
  /\ Goto("recPublished")
  /\ UNCHANGED <<views, trusted, cycles, twins, pending, counters, moved, history>>

\* HEAD is looked at again: after publishing, under the lock of the index, and
\* after refreshing it.
Advanced ==
  /\ moved
  /\ pending' = pending \cup Differ(job.published.tree, head.tree)
  /\ Goto("recFailing")
  /\ UNCHANGED <<views, branches, job, counters, moved, history>>

RecCheck ==
  /\ pc = "recPublished"
  /\ \/ Advanced
     \/ /\ ~moved
        /\ Goto("recChecked")
        /\ UNCHANGED <<views, branches, pending, job, counters, moved, history>>

RefreshableAll == job.todo      \* seeded fault: staged entries are reset too

\* Entries that the user has staged stay.
Refreshable ==
  {f \in job.todo : index[f] = job.index[f] /\ index[f] = job.head.tree[f]}

\* withLockedGitIndex
RecRefresh ==
  /\ pc = "recChecked"
  /\ \/ Advanced
     \/ /\ ~moved
        /\ index' = [f \in File |-> IF f \in Refreshable
                                    THEN job.published.tree[f] ELSE index[f]]
        /\ Goto("recRefreshed")
        /\ UNCHANGED <<agent, human, branches, pending, job, counters, moved, history>>

RecFinish ==
  /\ pc = "recRefreshed"
  /\ \/ Advanced
     \/ /\ ~moved
        /\ pending' = pending \ job.todo
        /\ unseen' = unseen \ job.todo
        /\ staged' = {f \in staged : index[f] # head.tree[f]}
        /\ job' = NoJob
        /\ Goto("ready")
        /\ UNCHANGED <<views, branches, counters, moved, commits, uneven>>

RestoreAgent ==
  /\ agent' = [f \in File |-> IF f \in job.todo THEN job.base[f] ELSE agent[f]]
  /\ trusted' = job.trusted

\* Nothing published: commits of the user's that made it fail are noted.
RecUndo ==
  /\ job.published = None
  /\ RestoreAgent
  /\ pending' = IF moved THEN pending \cup Differ(job.head.tree, head.tree)
                ELSE pending
  /\ UNCHANGED head

RecRewindHalf ==       \* seeded fault: the trusted branch is not reset
  /\ job.published # None
  /\ ~moved
  /\ head' = job.head
  /\ UNCHANGED <<agent, trusted, pending>>

\* The commit is taken back, if HEAD is still that.
RecRewind ==
  /\ job.published # None
  /\ ~moved
  /\ RestoreAgent
  /\ head' = job.head
  /\ UNCHANGED pending

RecPreserveSilently ==  \* seeded fault: the user's commit is not noted
  /\ job.published # None
  /\ moved
  /\ UNCHANGED <<agent, trusted, head, pending>>

\* The user has committed on top of it: everything stays, and what the commit
\* changed is noted.
RecPreserve ==
  /\ job.published # None
  /\ moved
  /\ pending' = pending \cup Differ(job.published.tree, head.tree)
  /\ UNCHANGED <<agent, trusted, head>>

\* Any step may fail; that is logged, and the call goes on.
RecFail ==
  /\ pc \in Reconciling \ {"recRead"}
  /\ RecUndo \/ RecRewind \/ RecPreserve
  /\ job' = NoJob
  /\ Goto("ready")
  /\ moved' = FALSE
  /\ UNCHANGED <<human, index, cycles, twins, counters, history>>

\* A rollback of the trusted branch fails: at the reset, and nothing of it is
\* done, or at the files, of which some are then left and one may be lost, since
\* writeFilesystemSnapshot removes a file before it writes it.
RestoreFails ==
  \/ UNCHANGED <<agent, trusted>>
  \/ /\ trusted' = job.trusted
     /\ \E back \in SUBSET job.todo, lost \in {{}} \cup {{f} : f \in job.todo} :
          agent' = [f \in File |-> IF f \in lost THEN Absent
                                  ELSE IF f \in back THEN job.base[f] ELSE agent[f]]

\* addPendingPaths, which may fail too
NoteOrMiss(changed) ==
  \/ pending' = pending \cup changed /\ UNCHANGED unseen
  \/ unseen' = unseen \cup changed /\ UNCHANGED pending

\* The rollbacks are tried one by one, and errors in them are reported.  If
\* update-ref fails, HEAD counts as advanced and everything stays.
RecUndoFails ==
  /\ RollbackFails
  /\ pc \in Reconciling \ {"recRead"}
  /\ \/ /\ job.published = None
        /\ NoteOrMiss(IF moved THEN Differ(job.head.tree, head.tree) ELSE {})
        /\ RestoreFails
        /\ UNCHANGED head
     \/ /\ job.published # None
        /\ ~moved
        /\ RestoreFails
        /\ head' = job.head
        /\ UNCHANGED <<pending, unseen>>
     \/ /\ job.published # None
        /\ NoteOrMiss(Differ(job.published.tree, head.tree))
        /\ UNCHANGED <<agent, trusted, head>>
  /\ job' = NoJob
  /\ Goto("reported")
  /\ moved' = FALSE
  /\ UNCHANGED <<human, index, cycles, twins, counters, commits, staged, uneven>>

\* "reconciliation rollback failed" is logged as any other error is.
RecReport ==
  /\ pc = "reported"
  /\ Goto("ready")
  /\ UNCHANGED <<views, branches, pending, job, counters, moved, history>>

RecGiveUp ==
  /\ pc \in {"listed", "recRead"}
  /\ job' = NoJob
  /\ Goto("ready")
  /\ moved' = FALSE
  /\ UNCHANGED <<views, branches, pending, counters, history>>

---------------------------------------------------------------------------
(***************************************************************************)
(* The tool, and createWorktreeFileCommitHandler.                          *)
(***************************************************************************)
ToolWrites(f) ==
  /\ pc = "ready"
  /\ \E t \in AgentText[f] \ {agent[f]} : agent' = [agent EXCEPT ![f] = t]
  /\ UNCHANGED <<human, index, branches, pending, pc, job, counters, moved, history>>

\* The call ends without a commit: nothing written, or an error at once.
ComNothing ==
  /\ pc = "ready"
  /\ Goto("idle")
  /\ UNCHANGED <<views, branches, pending, job, counters, moved, history>>

\* Every changed file is committed on dualview-trusted first.
ComTrusted ==
  LET changed == Differ(agent, trusted) IN
  /\ pc = "ready"
  /\ changed # {}
  /\ trusted' = agent
  /\ twins' = Append(twins, [call |-> calls, tree |-> agent])
  /\ job' = [NoJob EXCEPT !.todo = changed]
  /\ Goto("comTrusted")
  /\ UNCHANGED <<views, head, cycles, pending, counters, moved, history>>

\* One file after the other, in some order
NextFile == CHOOSE f \in job.todo : TRUE

ComPickAny ==          \* seeded fault: the Human view is not looked at
  /\ pc = "comTrusted"
  /\ job.todo # {}
  /\ job' = [job EXCEPT !.file = NextFile]
  /\ Goto("comPicked")
  /\ UNCHANGED <<views, branches, pending, counters, moved, history>>

\* A file with changes that are not committed is skipped.
ComPick ==
  /\ pc = "comTrusted"
  /\ job.todo # {}
  /\ IF Clean(NextFile)
     THEN job' = [job EXCEPT !.file = NextFile] /\ Goto("comPicked")
     ELSE job' = [job EXCEPT !.todo = @ \ {NextFile}] /\ UNCHANGED pc
  /\ UNCHANGED <<views, branches, pending, counters, moved, history>>

\* git rm -f, or copyFileSync, over whatever is there by now
ComCopy ==
  LET f == job.file IN
  /\ pc = "comPicked"
  /\ human' = [human EXCEPT ![f] = agent[f]]
  /\ index' = IF agent[f] = Absent THEN [index EXCEPT ![f] = Absent] ELSE index
  /\ job' = [job EXCEPT !.todo = @ \ {f}, !.done = @ \cup {f}, !.file = None]
  /\ Goto("comTrusted")
  /\ UNCHANGED <<agent, branches, pending, counters, moved, history>>

\* git add stages the copied files, or none if it does not know one of them: a
\* file that git rm has just removed.  That error is not looked at.
Addable == \A f \in job.done : human[f] # Absent \/ index[f] # Absent

\* Then git commit: of the whole index of the user's, what else is staged there
\* included.
CommitIndex ==
  /\ index' = [f \in File |-> IF Addable /\ f \in job.done THEN human[f] ELSE index[f]]
  /\ head' = [head EXCEPT !.tree = index']
  /\ staged' = {}

Swept == {f \in File \ job.done : index[f] # head.tree[f] /\ Hidden(f, index[f])}

ComTwin ==
  /\ pc = "comTrusted"
  /\ job.todo = {}
  /\ job.done # {}
  /\ CommitIndex
  /\ unseen' = unseen \cup Swept
  /\ Goto("comTwin")
  /\ UNCHANGED <<agent, human, trusted, cycles, twins, pending, job, counters,
                 moved, commits, uneven>>

\* Every file was skipped: dualview-trusted is one commit ahead.
ComAllSkipped ==
  /\ pc = "comTrusted"
  /\ job.todo = {}
  /\ job.done = {}
  /\ uneven' = TRUE
  /\ Goto("idle")
  /\ UNCHANGED <<views, branches, pending, job, counters, moved, commits, staged, unseen>>

ComResolve ==
  /\ pc = "comTwin"
  /\ human' = [f \in File |-> IF f \in job.done THEN Resolve(human[f]) ELSE human[f]]
  /\ Goto("comResolved")
  /\ UNCHANGED <<agent, index, branches, pending, job, counters, moved, history>>

ComUntrusted ==
  /\ pc = "comResolved"
  /\ CommitIndex
  /\ cycles' = Append(cycles, [call |-> calls, commit |-> head'])
  /\ unseen' = (unseen \ job.done) \cup Swept
  /\ job' = NoJob
  /\ Goto("idle")
  /\ UNCHANGED <<agent, human, trusted, twins, pending, counters, moved, commits, uneven>>

ComFailHolding ==      \* seeded fault: the files of the call are not forgotten
  /\ pc \in Committing
  /\ unseen' = unseen \cup job.todo \cup job.done
  /\ uneven' = TRUE
  /\ Goto("idle")
  /\ UNCHANGED <<views, branches, pending, job, counters, moved, commits, staged>>

\* An error is logged; nothing is undone.
ComFail ==
  /\ pc \in Committing
  /\ unseen' = unseen \cup job.todo \cup job.done
  /\ uneven' = TRUE
  /\ job' = NoJob
  /\ Goto("idle")
  /\ UNCHANGED <<views, branches, pending, counters, moved, commits, staged>>

---------------------------------------------------------------------------
(***************************************************************************)
(* revertToWriteCycle, as the tool of a call.                              *)
(***************************************************************************)
\* git reset --hard leaves files that git does not know.
ResetHard(file, tracked, tree) ==
  [f \in File |-> IF tracked[f] = Absent /\ tree[f] = Absent
                  THEN file[f] ELSE tree[f]]

TwinNext(n) == n + 1   \* seeded fault: counted as if from one

\* The trusted commit that belongs to the n-th write cycle: the n-th
Twin(n) == n

Revert(n) ==
  LET back == IF Twin(n) \in DOMAIN twins THEN twins[Twin(n)].tree ELSE trusted IN
  /\ pc = "ready"
  /\ n \in DOMAIN cycles
  /\ head' = cycles[n].commit
  /\ index' = head'.tree
  /\ human' = ResetHard(human, index, head'.tree)
  /\ cycles' = SubSeq(cycles, 1, n)
  /\ trusted' = back
  /\ agent' = ResetHard(agent, trusted, back)
  /\ twins' = IF Twin(n) \in DOMAIN twins THEN SubSeq(twins, 1, Twin(n)) ELSE twins
  /\ commits' = head'.users
  /\ staged' = {}
  /\ unseen' = {f \in File : {Resolve(agent'[f]), Resolve(trusted'[f])} # {human'[f]}}
  /\ UNCHANGED <<pending, pc, job, counters, moved, uneven>>

---------------------------------------------------------------------------
Reconcile ==
  \/ RecList \/ RecRead \/ RecStable \/ RecApply \/ RecTrusted \/ RecPublish
  \/ RecCheck \/ RecRefresh \/ RecFinish \/ RecFail \/ RecUndoFails \/ RecReport
  \/ RecGiveUp

CommitFiles ==
  \/ ComNothing \/ ComTrusted \/ ComPick \/ ComCopy \/ ComTwin \/ ComAllSkipped
  \/ ComResolve \/ ComUntrusted \/ ComFail

Tool == (\E f \in File : ToolWrites(f)) \/ (\E n \in 1..MaxCalls : Revert(n))

Next == User \/ Reconcile \/ Tool \/ CommitFiles

Spec == Init /\ [][Next]_vars

---------------------------------------------------------------------------
\* No commit of the user's is taken out of HEAD, neither by publishing a
\* reconciliation over it nor by taking one back.  (A revert abandons those
\* made after its write cycle.)
UserCommitsKept == head.users = commits

\* What the user has staged and not committed stays staged as it is; only a
\* revert resets the index.  (An entry set back, while a reconciliation
\* publishes, to what HEAD was cannot be told from one not yet refreshed.)
StagedKept ==
  [][\A f \in staged :
       /\ pc' # pc \/ job' # job
       /\ index[f] \notin {head.tree[f]} \cup {job.head.tree[f] : x \in {pc} \cap {"recChecked"}}
       => index'[f] = index[f]]_vars

\* No step of a handler replaces or removes a file of the user's with changes
\* that are not committed, other than what the handler itself has put there.
UncommittedKept ==
  [][\A f \in File :
       /\ human'[f] # human[f]
       /\ pc' # pc \/ job' # job
       => Clean(f) \/ f \in job.done]_vars

\* A reconciliation ends on both branches or on neither: if its commit stays
\* in HEAD, because nothing went wrong, because the user has committed on top
\* of it or because it cannot be taken back, the trusted branch has the edits,
\* and otherwise it is as before.  What a failed rollback may leave, and
\* reports, is the trusted branch ahead of HEAD, never HEAD ahead of it.
BothOrNeither ==
  [][(pc \in Reconciling /\ pc' \notin Reconciling) =>
       IF head'.humans > job.head.humans
       THEN \A f \in job.todo : trusted'[f] = Merged(f)
       ELSE trusted' = job.trusted \/ pc' = "reported"]_vars

\* Between calls, a file that looks unchanged to git and is not pending has in
\* the Agent view what it has in the Human view: every commit the user makes
\* while a reconciliation is under way is noted for the next.
EditsReachAgent ==
  pc = "idle" => \A f \in File :
    Clean(f) /\ f \notin pending \cup unseen /\ agent[f] = trusted[f]
    => Resolve(human[f]) = Resolve(agent[f])

\* A revert takes both branches back to the same call, unless some call has
\* committed on one branch only.
RevertsTogether ==
  [][\A n \in 1..MaxCalls :
       Revert(n) => uneven \/ Last(cycles').call = Last(twins').call]_vars

===========================================================================
