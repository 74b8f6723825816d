------------------------------- MODULE DualFS -------------------------------
(***************************************************************************)
(* The dual file system of one on-demand root: the Agent view (a worktree  *)
(* of the branch dualview-trusted, where untrusted data stays behind       *)
(* symbols) and the Human view (the user's own directory, where it is      *)
(* resolved), kept together by two handlers around every tool call:        *)
(*                                                                         *)
(*  - before the call, reconcileHumanEdits (dualview-human-edit.ts) takes  *)
(*    what the human has edited over to the Agent view and commits it on   *)
(*    both branches;                                                       *)
(*  - after the call, createOnDemandFileCommitHandler                      *)
(*    (dualview-filecommit-ondemand.ts) installs what the tool has written *)
(*    in the Human view and commits it: [DUALVIEW-TRUSTED] on the trusted  *)
(*    branch, [DUALVIEW-TRUSTED] and [DUALVIEW-UNTRUSTED] on the main one. *)
(*                                                                         *)
(* Several processes run the handlers; the human edits at any time.  A     *)
(* file has one text: absent, a literal, or data of an untrusted source,   *)
(* as a symbol or raw; the human may rewrite some of its lines in place    *)
(* (module LineReconcile has the lines).  The lock is held for less than   *)
(* the 30 seconds after which others may break it, and processes do not    *)
(* crash.                                                                  *)
(***************************************************************************)
EXTENDS Naturals, Sequences

CONSTANTS
  Process,      \* processes that run the handlers
  Strict,       \* those whose adapter stops a call at the first error
  File,         \* paths of the root
  Literal,      \* texts the agent or the human writes
  Source,       \* untrusted data, each known by one symbol
  Absent,       \* no file
  Nobody,       \* the lock is free
  None,         \* no backup, no draft
  HumanEdits,   \* what the human does: "type", "delete", "amend", "undo"
  ToolWrites,   \* what the tools do: "text", "symbol", "delete", "exec"
  QuietRestore, \* the human does not save while a backup is moved back
  RollbackFails \* what a failed handler undoes may fail part of the way

ASSUME DualFSAssumption ==
  /\ Strict \subseteq Process
  /\ Nobody \notin Process
  /\ HumanEdits \subseteq {"type", "delete", "amend", "undo"}
  /\ ToolWrites \subseteq {"text", "symbol", "delete", "exec"}
  /\ QuietRestore \in BOOLEAN
  /\ RollbackFails \in BOOLEAN

Part == {"whole", "part"}
Symbol == [symbol : Source, part : Part]
Raw == [raw : Source, part : Part]
Text == Literal \cup Symbol \cup Raw \cup {Absent}

ASSUME TextAssumption ==
  /\ Literal \cap (Symbol \cup Raw) = {}
  /\ Absent \notin Literal \cup Symbol \cup Raw
  /\ None \notin Text \cup [file : File, text : Text]

SymbolOf(s) == [symbol |-> s, part |-> "whole"]

\* resolveAllSymbols
Resolve(t) == IF t \in Symbol THEN [raw |-> t.symbol, part |-> t.part] ELSE t

VARIABLES
  agent,     \* the Agent view on disk
  human,     \* the Human view on disk
  trusted,   \* HEAD of the trusted branch
  main,      \* HEAD and index of the main branch, with what git blame says
  lock,      \* commit.lock: the process that has it
  pc,        \* where each process is
  job,       \* what its handler remembers
  draft,     \* history: what the human has saved and no commit holds yet
  diverged,  \* history: files whose Agent text was not given to the human
  cycle      \* history: the commits made since the lock was taken, and whether
             \* a rollback that failed was reported

vars == <<agent, human, trusted, main, lock, pc, job, draft, diverged, cycle>>

Kind == {"TRUSTED", "UNTRUSTED", "HUMAN"}
Blamed == [text : Text, by : Kind]

Locked == {"recLocked", "recRead", "recStable", "recApplied", "recTrusted",
           "comLocked", "comRead", "installing", "restoring", "installed",
           "comTrusted", "comFailed", "comRestored", "comMain"}

Status == {"clean", "untracked", "modified", "deleted"}

Job == [listed : [File -> Status],          \* what git status said
        todo   : SUBSET File,               \* still to do, later: safe
        done   : SUBSET File,               \* installedPaths
        snap   : [File -> Text],            \* the texts that were read
        base   : [File -> Text],            \* trustedBefore
        moved  : [file : File, text : Text] \cup {None},   \* the backup
        trusted : [File -> Text],           \* trustedHead
        main    : [File -> Blamed]]         \* mainHead

NoJob == [listed |-> [f \in File |-> "clean"], todo |-> {}, done |-> {},
          snap |-> [f \in File |-> Absent], base |-> [f \in File |-> Absent],
          moved |-> None, trusted |-> [f \in File |-> Absent],
          main |-> [f \in File |-> [text |-> Absent, by |-> "TRUSTED"]]]

Made(t, m) == [trusted |-> t, main |-> m, reported |-> FALSE]

NoCycle == Made(<<>>, <<>>)

TypeOK ==
  /\ agent \in [File -> Text]
  /\ human \in [File -> Text]
  /\ trusted \in [File -> Text]
  /\ main \in [File -> Blamed]
  /\ lock \in Process \cup {Nobody}
  /\ pc \in [Process -> {"idle", "recListed", "ready", "ran", "comListed"} \cup Locked]
  /\ job \in [Process -> Job]
  /\ draft \in [File -> Text \cup {None}]
  /\ diverged \in SUBSET File
  /\ \A p \in Process : pc[p] \in Locked <=> lock = p

Init ==
  /\ agent \in [File -> Literal \cup {SymbolOf(s) : s \in Source} \cup {Absent}]
  /\ human = [f \in File |-> Resolve(agent[f])]
  /\ trusted = agent
  /\ main = [f \in File |-> [text |-> human[f],
                             by |-> IF agent[f] \in Symbol
                                    THEN "UNTRUSTED" ELSE "TRUSTED"]]
  /\ lock = Nobody
  /\ pc = [p \in Process |-> "idle"]
  /\ job = [p \in Process |-> NoJob]
  /\ draft = [f \in File |-> None]
  /\ diverged = {}
  /\ cycle = NoCycle

---------------------------------------------------------------------------
(***************************************************************************)
(* The human.                                                              *)
(***************************************************************************)
\* What the human saves is told from what an installation in progress leaves
\* there, its text once it is done, or no file while the backup is away, only
\* if it differs from that.
BeingInstalled(f, t) ==
  \E p \in Process :
    \/ f \in job[p].done /\ Resolve(job[p].snap[f]) = t
    \/ t = Absent /\ job[p].moved # None /\ job[p].moved.file = f

HumanSaves(f, t) ==
  /\ t # human[f]
  /\ QuietRestore => \A p \in Process : pc[p] # "restoring"
  /\ human' = [human EXCEPT ![f] = t]
  /\ draft' = [draft EXCEPT ![f] =
       IF t = main[f].text \/ BeingInstalled(f, t) THEN None ELSE t]
  /\ UNCHANGED <<agent, trusted, main, lock, pc, job, diverged, cycle>>

HumanTypes(f) ==
  "type" \in HumanEdits /\ \E t \in Literal : HumanSaves(f, t)

HumanDeletes(f) ==
  "delete" \in HumanEdits /\ HumanSaves(f, Absent)

HumanAmends(f) ==
  /\ "amend" \in HumanEdits
  /\ human[f] \in Raw
  /\ HumanSaves(f, [human[f] EXCEPT !.part = "part"])

HumanUndoes(f) ==
  /\ "undo" \in HumanEdits
  /\ main[f].text \notin Symbol
  /\ HumanSaves(f, main[f].text)

HumanStep(f) ==
  HumanTypes(f) \/ HumanDeletes(f) \/ HumanAmends(f) \/ HumanUndoes(f)

---------------------------------------------------------------------------
(***************************************************************************)
(* The lock and the two branches.                                          *)
(***************************************************************************)
TakeLock(p) ==
  /\ lock = Nobody
  /\ lock' = p
  /\ cycle' = NoCycle

Goto(p, l) == pc' = [pc EXCEPT ![p] = l]

\* The lock is released and the handler returns.
Leave(p, l) ==
  /\ lock' = Nobody
  /\ Goto(p, l)
  /\ job' = [job EXCEPT ![p] = NoJob]

\* After an error, a strict adapter gives the call up; the others log it.
AfterError(p) == IF p \in Strict THEN "idle" ELSE "ready"

CommitTrustedBranch(files, text, kind) ==
  /\ trusted' = [f \in File |-> IF f \in files THEN text[f] ELSE trusted[f]]
  /\ cycle' = [cycle EXCEPT !.trusted = Append(@, kind)]

\* A commit is blamed for the files it changes.
CommitMainBranch(files, text, kind) ==
  /\ main' = [f \in File |->
       IF f \in files /\ text[f] # main[f].text
       THEN [text |-> text[f], by |-> kind] ELSE main[f]]
  /\ cycle' = [cycle EXCEPT !.main = Append(@, kind)]

\* What the main branch shows now is a draft no longer.
RecordDrafts ==
  draft' = [f \in File |-> IF draft[f] = main'[f].text THEN None ELSE draft[f]]

\* A rollback that succeeds: git reset --mixed to the heads read under the lock.
ResetBranches(p) ==
  /\ main' = job[p].main
  /\ trusted' = job[p].trusted
  /\ cycle' = NoCycle

\* The branches are rolled back apart from each other: the commits of one whose
\* reset has failed stay, and the error is thrown on ("rollback failed").
ResetReported(p, mainBack, trustedBack) ==
  /\ main' = IF mainBack THEN job[p].main ELSE main
  /\ trusted' = IF trustedBack THEN job[p].trusted ELSE trusted
  /\ cycle' = [trusted |-> IF trustedBack THEN <<>> ELSE cycle.trusted,
               main |-> IF mainBack THEN <<>> ELSE cycle.main,
               reported |-> TRUE]

\* writeFilesystemSnapshot removes a file and writes it: of the Agent's files
\* that are put back, some may be left as they are, and one lost.
PartlyBack(files, text) ==
  \E back \in SUBSET files, lost \in {{}} \cup {{f} : f \in files} :
    /\ lost \cap back = {}
    /\ agent' = [f \in File |->
         IF f \in back THEN text[f] ELSE IF f \in lost THEN Absent ELSE agent[f]]

---------------------------------------------------------------------------
(***************************************************************************)
(* reconcileHumanEdits.                                                    *)
(***************************************************************************)
StatusOf(f) ==
  IF human[f] = main[f].text THEN "clean"
  ELSE CASE main[f].text = Absent -> "untracked"
         [] human[f] = Absent -> "deleted"
         [] OTHER -> "modified"

\* git status is read before the lock is taken.
StartCall(p) ==
  LET listed == [f \in File |-> StatusOf(f)] IN
  /\ pc[p] = "idle"
  /\ IF \A f \in File : listed[f] = "clean"
     THEN Goto(p, "ready") /\ UNCHANGED job
     ELSE /\ Goto(p, "recListed")
          /\ job' = [job EXCEPT ![p].listed = listed]
  /\ UNCHANGED <<agent, human, trusted, main, lock, draft, diverged, cycle>>

RecLock(p) ==
  /\ pc[p] = "recListed"
  /\ TakeLock(p)
  /\ Goto(p, "recLocked")
  /\ UNCHANGED <<agent, human, trusted, main, job, draft, diverged>>

RecLockBusy(p) ==
  /\ pc[p] = "recListed"
  /\ lock # Nobody
  /\ Goto(p, AfterError(p))
  /\ job' = [job EXCEPT ![p] = NoJob]
  /\ UNCHANGED <<agent, human, trusted, main, lock, draft, diverged, cycle>>

\* A listed deletion is taken over if the Agent view still has the file, any
\* other listed file if the Human view still has it.
RecRead(p) ==
  LET listed == job[p].listed
      taken == {f \in File :
        \/ listed[f] = "deleted" /\ agent[f] # Absent
        \/ listed[f] \in {"untracked", "modified"} /\ human[f] # Absent}
  IN
  /\ pc[p] = "recLocked"
  /\ job' = [job EXCEPT
       ![p].todo = taken,
       ![p].snap = [f \in File |->
         IF listed[f] = "deleted" THEN Absent ELSE human[f]],
       ![p].base = agent,
       ![p].trusted = trusted,
       ![p].main = main]
  /\ Goto(p, "recRead")
  /\ UNCHANGED <<agent, human, trusted, main, lock, draft, diverged, cycle>>

RecStableKeepingLock(p) ==    \* seeded fault: returns without releasing the lock
  LET safe == {f \in job[p].todo : human[f] = job[p].snap[f]} IN
  /\ pc[p] = "recRead"
  /\ job' = [job EXCEPT ![p].todo = safe]
  /\ Goto(p, IF safe = {} THEN "ready" ELSE "recStable")
  /\ UNCHANGED <<agent, human, trusted, main, lock, draft, diverged, cycle>>

\* stableFiles: what the human has changed since is dropped.
RecStable(p) ==
  LET safe == {f \in job[p].todo : human[f] = job[p].snap[f]} IN
  /\ pc[p] = "recRead"
  /\ IF safe = {}
     THEN Leave(p, "ready")
     ELSE /\ job' = [job EXCEPT ![p].todo = safe]
          /\ Goto(p, "recStable")
          /\ UNCHANGED lock
  /\ UNCHANGED <<agent, human, trusted, main, draft, diverged, cycle>>

\* reconcileFile: data that the human has left whole, or amended, stays behind
\* a symbol; any other text is the human's and is copied.  New files, and
\* files the Agent view has without a symbol, are copied as they are.
Merge(status, a, h) ==
  IF /\ status = "modified"
     /\ a \in Symbol
     /\ h \in Raw
     /\ h.raw = a.symbol
     /\ a.part = "whole" \/ h.part = "part"
  THEN [symbol |-> h.raw, part |-> h.part]
  ELSE h

RecApply(p) ==
  LET j == job[p] IN
  /\ pc[p] = "recStable"
  /\ agent' = [f \in File |->
       IF f \in j.todo THEN Merge(j.listed[f], j.base[f], j.snap[f])
       ELSE agent[f]]
  /\ Goto(p, "recApplied")
  /\ UNCHANGED <<human, trusted, main, lock, job, draft, diverged, cycle>>

\* The trusted worktree is read again when it is committed, and only if it
\* has changed.
RecTrusted(p) ==
  /\ pc[p] = "recApplied"
  /\ IF \E f \in job[p].todo : agent[f] # trusted[f]
     THEN CommitTrustedBranch(job[p].todo, agent, "HUMAN")
     ELSE UNCHANGED <<trusted, cycle>>
  /\ Goto(p, "recTrusted")
  /\ UNCHANGED <<agent, human, main, lock, job, draft, diverged>>

RecMain(p) ==
  LET j == job[p] IN
  /\ pc[p] = "recTrusted"
  /\ CommitMainBranch(j.todo, j.snap, "HUMAN")
  /\ RecordDrafts
  /\ diverged' = diverged \ j.todo
  /\ Leave(p, "ready")
  /\ UNCHANGED <<agent, human, trusted>>

RecFailKeepingHeads(p) ==     \* seeded fault: the branches are not reset
  LET j == job[p] IN
  /\ pc[p] \in {"recStable", "recApplied", "recTrusted"}
  /\ agent' = [f \in File |-> IF f \in j.todo THEN j.base[f] ELSE agent[f]]
  /\ Leave(p, AfterError(p))
  /\ UNCHANGED <<human, trusted, main, draft, diverged, cycle>>

\* Any git command or symbol allocation may fail: the reconciliation is undone.
RecFail(p) ==
  LET j == job[p] IN
  /\ pc[p] \in {"recStable", "recApplied", "recTrusted"}
  /\ ResetBranches(p)
  /\ agent' = [f \in File |-> IF f \in j.todo THEN j.base[f] ELSE agent[f]]
  /\ Leave(p, AfterError(p))
  /\ UNCHANGED <<human, draft, diverged>>

\* The rollback fails: a trusted branch that is not reset keeps the commit, and
\* the files of the Agent view are then not written. Main is as it was read,
\* since its commit is the last step.
RecUndoFails(p) ==
  LET j == job[p] IN
  /\ RollbackFails
  /\ pc[p] \in {"recStable", "recApplied", "recTrusted"}
  /\ \E trustedBack \in BOOLEAN :
       /\ ResetReported(p, TRUE, trustedBack)
       /\ IF trustedBack THEN PartlyBack(j.todo, j.base) ELSE UNCHANGED agent
  /\ Leave(p, AfterError(p))
  /\ UNCHANGED <<human, draft, diverged>>

\* An error before anything has changed.
RecGiveUp(p) ==
  /\ pc[p] \in {"recLocked", "recRead"}
  /\ Leave(p, AfterError(p))
  /\ UNCHANGED <<agent, human, trusted, main, draft, diverged, cycle>>

---------------------------------------------------------------------------
(***************************************************************************)
(* The tool call.  Tools work in the Agent view; an unrestricted exec      *)
(* resolves its symbols and works in the Human view.                       *)
(***************************************************************************)
ToolTexts ==
  (IF "text" \in ToolWrites THEN Literal ELSE {})
    \cup (IF "symbol" \in ToolWrites THEN {SymbolOf(s) : s \in Source} ELSE {})
    \cup (IF "delete" \in ToolWrites THEN {Absent} ELSE {})

ToolWrite(p, f) ==
  /\ pc[p] = "ready"
  /\ \E t \in ToolTexts \ {agent[f]} : agent' = [agent EXCEPT ![f] = t]
  /\ UNCHANGED <<human, trusted, main, lock, pc, job, draft, diverged, cycle>>

ExecWrite(p, f) ==
  /\ pc[p] = "ready"
  /\ "exec" \in ToolWrites
  /\ \E s \in Source : human' = [human EXCEPT ![f] = Resolve(SymbolOf(s))]
  /\ draft' = [draft EXCEPT ![f] = None]   \* the command was told to replace it
  /\ UNCHANGED <<agent, trusted, main, lock, pc, job, diverged, cycle>>

ToolReturns(p) ==
  /\ pc[p] = "ready"
  /\ Goto(p, "ran")
  /\ UNCHANGED <<agent, human, trusted, main, lock, job, draft, diverged, cycle>>

---------------------------------------------------------------------------
(***************************************************************************)
(* createOnDemandFileCommitHandler.                                        *)
(***************************************************************************)
Changed(p) == {f \in File : job[p].listed[f] # "clean"}

Desired(p, f) == Resolve(job[p].snap[f])

CommitScan(p) ==
  LET listed == [f \in File |->
        IF agent[f] = trusted[f] THEN "clean" ELSE "modified"] IN
  /\ pc[p] = "ran"
  /\ IF agent = trusted
     THEN Goto(p, "idle") /\ UNCHANGED job
     ELSE Goto(p, "comListed") /\ job' = [job EXCEPT ![p].listed = listed]
  /\ UNCHANGED <<agent, human, trusted, main, lock, draft, diverged, cycle>>

CommitLock(p) ==
  /\ pc[p] = "comListed"
  /\ TakeLock(p)
  /\ Goto(p, "comLocked")
  /\ UNCHANGED <<agent, human, trusted, main, job, draft, diverged>>

CommitLockBusy(p) ==
  /\ pc[p] = "comListed"
  /\ lock # Nobody
  /\ Goto(p, "idle")
  /\ job' = [job EXCEPT ![p] = NoJob]
  /\ UNCHANGED <<agent, human, trusted, main, lock, draft, diverged, cycle>>

CommitRead(p) ==
  /\ pc[p] = "comLocked"
  /\ job' = [job EXCEPT ![p].snap = agent,
                        ![p].trusted = trusted,
                        ![p].main = main]
  /\ Goto(p, "comRead")
  /\ UNCHANGED <<agent, human, trusted, main, lock, draft, diverged, cycle>>

\* Files the human has edited are skipped.
CommitCheck(p) ==
  /\ pc[p] = "comRead"
  /\ job' = [job EXCEPT ![p].todo =
       {f \in Changed(p) : human[f] = main[f].text}]
  /\ Goto(p, "installing")
  /\ UNCHANGED <<agent, human, trusted, main, lock, draft, diverged, cycle>>

CommitGiveUp(p) ==
  /\ pc[p] \in {"comLocked", "comRead"}
  /\ Leave(p, "idle")
  /\ UNCHANGED <<agent, human, trusted, main, draft, diverged, cycle>>

\* installSnapshotIfUnchanged: the human's file is renamed to a backup,
InstallTake(p, f) ==
  /\ pc[p] = "installing"
  /\ f \in job[p].todo
  /\ job[p].moved = None
  /\ job' = [job EXCEPT ![p].moved = [file |-> f, text |-> human[f]]]
  /\ human' = [human EXCEPT ![f] = Absent]
  /\ UNCHANGED <<agent, trusted, main, lock, pc, draft, diverged, cycle>>

InstallPutUncompared(p) ==    \* seeded fault: the backup is not compared
  LET m == job[p].moved IN
  /\ pc[p] = "installing"
  /\ m # None
  /\ human[m.file] = Absent
  /\ human' = [human EXCEPT ![m.file] = Desired(p, m.file)]
  /\ job' = [job EXCEPT ![p].moved = None,
                        ![p].todo = @ \ {m.file},
                        ![p].done = @ \cup {m.file}]
  /\ UNCHANGED <<agent, trusted, main, lock, pc, draft, diverged, cycle>>

\* the backup is compared with the index, and the new text is linked in its
\* place unless the human has saved there meanwhile.
InstallPut(p) ==
  LET m == job[p].moved IN
  /\ pc[p] = "installing"
  /\ m # None
  /\ m.text = job[p].main[m.file].text
  /\ human[m.file] = Absent
  /\ human' = [human EXCEPT ![m.file] = Desired(p, m.file)]
  /\ job' = [job EXCEPT ![p].moved = None,
                        ![p].todo = @ \ {m.file},
                        ![p].done = @ \cup {m.file}]
  /\ UNCHANGED <<agent, trusted, main, lock, pc, draft, diverged, cycle>>

\* discardOrRestoreBackup: the backup is dropped if the human has saved,
InstallDiscard(p) ==
  LET m == job[p].moved IN
  /\ pc[p] = "installing"
  /\ m # None
  /\ human[m.file] # Absent
  /\ job' = [job EXCEPT ![p].moved = None, ![p].todo = @ \ {m.file}]
  /\ UNCHANGED <<agent, human, trusted, main, lock, pc, draft, diverged, cycle>>

\* else it is renamed back, which replaces what is saved in between.
InstallRefuse(p) ==
  LET m == job[p].moved IN
  /\ pc[p] = "installing"
  /\ m # None
  /\ m.text # job[p].main[m.file].text
  /\ human[m.file] = Absent
  /\ Goto(p, "restoring")
  /\ UNCHANGED <<agent, human, trusted, main, lock, job, draft, diverged, cycle>>

InstallRestore(p) ==
  LET m == job[p].moved IN
  /\ pc[p] = "restoring"
  /\ human' = IF m.text = Absent THEN human
              ELSE [human EXCEPT ![m.file] = m.text]
  /\ job' = [job EXCEPT ![p].moved = None, ![p].todo = @ \ {m.file}]
  /\ Goto(p, "installing")
  /\ UNCHANGED <<agent, trusted, main, lock, draft, diverged, cycle>>

\* What is still as it was installed is put back as it was before.
Reinstalled(p) ==
  [f \in File |-> IF f \in job[p].done /\ human[f] = Desired(p, f)
                  THEN job[p].main[f].text ELSE human[f]]

InstallFail(p) ==
  /\ pc[p] = "installing"
  /\ job[p].moved = None
  /\ human' = Reinstalled(p)
  /\ Leave(p, "idle")
  /\ UNCHANGED <<agent, trusted, main, draft, diverged, cycle>>

PartlyReinstalled(p, files) ==
  human' = [f \in File |-> IF f \in files THEN Reinstalled(p)[f] ELSE human[f]]

\* Some of the installed files stay ("install rollback failed").
InstallUndoFails(p) ==
  /\ RollbackFails
  /\ pc[p] = "installing"
  /\ job[p].moved = None
  /\ \E files \in SUBSET job[p].done : PartlyReinstalled(p, files)
  /\ cycle' = [cycle EXCEPT !.reported = TRUE]
  /\ Leave(p, "idle")
  /\ UNCHANGED <<agent, trusted, main, draft, diverged>>

\* From here on todo has the paths that are safe: installed, and unchanged.
CommitRecheck(p) ==
  /\ pc[p] = "installing"
  /\ job[p].todo = {}
  /\ job[p].moved = None
  /\ job' = [job EXCEPT ![p].todo =
       {f \in job[p].done : human[f] = Desired(p, f)}]
  /\ Goto(p, "installed")
  /\ UNCHANGED <<agent, human, trusted, main, lock, draft, diverged, cycle>>

\* The trusted branch gets every path, the skipped ones too.
CommitTrusted(p) ==
  /\ pc[p] = "installed"
  /\ CommitTrustedBranch(Changed(p), job[p].snap, "TRUSTED")
  /\ Goto(p, "comTrusted")
  /\ UNCHANGED <<agent, human, main, lock, job, draft, diverged>>

\* restoreTrustedPaths; a cycle that has skipped every path ends here.
CommitRestore(p) ==
  LET skipped == Changed(p) \ job[p].todo IN
  /\ pc[p] = "comTrusted"
  /\ agent' = [f \in File |-> IF f \in skipped THEN trusted[f] ELSE agent[f]]
  /\ IF job[p].todo # {}
     THEN Goto(p, "comRestored") /\ UNCHANGED <<lock, job, diverged>>
     ELSE IF p \in Strict
     THEN Goto(p, "comFailed") /\ UNCHANGED <<lock, job, diverged>>
     ELSE Leave(p, "idle") /\ diverged' = diverged \cup skipped
  /\ UNCHANGED <<human, trusted, main, draft, cycle>>

CommitMainResolved(p) ==      \* seeded fault: one commit of the resolved text
  /\ pc[p] = "comRestored"
  /\ CommitMainBranch(job[p].todo, [f \in File |-> Desired(p, f)], "TRUSTED")
  /\ Goto(p, "comMain")
  /\ UNCHANGED <<agent, human, trusted, lock, job, draft, diverged>>

CommitMainTrusted(p) ==
  /\ pc[p] = "comRestored"
  /\ CommitMainBranch(job[p].todo, job[p].snap, "TRUSTED")
  /\ Goto(p, "comMain")
  /\ UNCHANGED <<agent, human, trusted, lock, job, draft, diverged>>

CommitMainUntrusted(p) ==
  LET safe == job[p].todo IN
  /\ pc[p] = "comMain"
  /\ CommitMainBranch(safe, [f \in File |-> Desired(p, f)], "UNTRUSTED")
  /\ diverged' = (diverged \ safe) \cup (Changed(p) \ safe)
  /\ RecordDrafts
  /\ Leave(p, "idle")
  /\ UNCHANGED <<agent, human, trusted>>

CommitFailHumanLeft(p) ==     \* seeded fault: installed files stay
  /\ pc[p] \in {"installed", "comTrusted", "comFailed", "comRestored", "comMain"}
  /\ ResetBranches(p)
  /\ agent' = [f \in File |->
       IF f \in Changed(p) THEN job[p].snap[f] ELSE agent[f]]
  /\ RecordDrafts
  /\ Leave(p, "idle")
  /\ UNCHANGED <<human, diverged>>

CommitFailTrustedLeft(p) ==   \* seeded fault: the trusted branch is not reset
  /\ pc[p] \in {"installed", "comTrusted", "comFailed", "comRestored", "comMain"}
  /\ main' = job[p].main
  /\ cycle' = NoCycle
  /\ human' = Reinstalled(p)
  /\ agent' = [f \in File |->
       IF f \in Changed(p) THEN job[p].snap[f] ELSE agent[f]]
  /\ RecordDrafts
  /\ Leave(p, "idle")
  /\ UNCHANGED <<trusted, diverged>>

\* Any of these steps may fail: both branches and both views are put back,
\* the Agent view to what the tool has written.
CommitFail(p) ==
  /\ pc[p] \in {"installed", "comTrusted", "comFailed", "comRestored", "comMain"}
  /\ ResetBranches(p)
  /\ human' = Reinstalled(p)
  /\ agent' = [f \in File |->
       IF f \in Changed(p) THEN job[p].snap[f] ELSE agent[f]]
  /\ RecordDrafts
  /\ Leave(p, "idle")
  /\ UNCHANGED diverged

\* The rollback of one branch or of both fails: where the reset does, the commits
\* stay and no file is put back, else some of the files may not be.
CommitUndoFails(p) ==
  /\ RollbackFails
  /\ pc[p] \in {"installed", "comTrusted", "comFailed", "comRestored", "comMain"}
  /\ \E mainBack, trustedBack \in BOOLEAN :
       /\ ResetReported(p, mainBack, trustedBack)
       /\ IF mainBack
          THEN \E files \in SUBSET job[p].done : PartlyReinstalled(p, files)
          ELSE UNCHANGED human
       /\ IF trustedBack THEN PartlyBack(Changed(p), job[p].snap) ELSE UNCHANGED agent
  /\ RecordDrafts
  /\ Leave(p, "idle")
  /\ UNCHANGED diverged

---------------------------------------------------------------------------
Reconcile(p) ==
  \/ StartCall(p) \/ RecLock(p) \/ RecLockBusy(p) \/ RecRead(p)
  \/ RecStable(p) \/ RecApply(p) \/ RecTrusted(p) \/ RecMain(p)
  \/ RecFail(p) \/ RecGiveUp(p)

Tool(p) ==
  \/ \E f \in File : ToolWrite(p, f) \/ ExecWrite(p, f)
  \/ ToolReturns(p)

Install(p) ==
  \/ \E f \in File : InstallTake(p, f)
  \/ InstallPut(p) \/ InstallDiscard(p) \/ InstallRefuse(p)
  \/ InstallRestore(p) \/ InstallFail(p)

FileCommit(p) ==
  \/ CommitScan(p) \/ CommitLock(p) \/ CommitLockBusy(p) \/ CommitRead(p)
  \/ CommitCheck(p) \/ CommitGiveUp(p) \/ Install(p) \/ CommitRecheck(p)
  \/ CommitTrusted(p) \/ CommitRestore(p) \/ CommitMainTrusted(p)
  \/ CommitMainUntrusted(p) \/ CommitFail(p)

UndoFails(p) == RecUndoFails(p) \/ InstallUndoFails(p) \/ CommitUndoFails(p)

Next ==
  \/ \E f \in File : HumanStep(f)
  \/ \E p \in Process : Reconcile(p) \/ Tool(p) \/ FileCommit(p) \/ UndoFails(p)

Spec == Init /\ [][Next]_vars

---------------------------------------------------------------------------
(***************************************************************************)
(* Properties.                                                             *)
(***************************************************************************)
\* "Install Human-facing snapshots without overwriting Human edits"
\* (dualview-filecommit-ondemand.ts): what the human has saved is on the disk,
\* in the backup an installation is about to put back, or in a commit.
DraftsSurvive ==
  \A f \in File : draft[f] # None =>
    \/ human[f] = draft[f]
    \/ \E p \in Process : job[p].moved = [file |-> f, text |-> draft[f]]

\* The trusted branch and the Agent view carry only symbolized text, unless a
\* rollback fails: what it leaves installed is taken for an edit.
NoRawInAgentView ==
  \A f \in File : agent[f] \notin Raw /\ trusted[f] \notin Raw

\* When the lock is free and neither view has changes to take over, each file
\* shows the human what its Agent text resolves to, unless it was skipped. A
\* handler may fail anywhere, but its rollback may not.
ViewsAgree ==
  lock = Nobody => \A f \in File \ diverged :
    human[f] = main[f].text /\ agent[f] = trusted[f] =>
      human[f] = Resolve(agent[f])

\* git blame tells untrusted text from the agent's own: whenever the lock is
\* free, and no rollback has failed, the main branch has no symbols left, raw data
\* on it came with an UNTRUSTED commit (or was amended by the human), and no other
\* text did.
BlameSeparates ==
  lock = Nobody => \A f \in File :
    /\ main[f].text \notin Symbol
    /\ main[f].text \in Raw => main[f].by \in {"UNTRUSTED", "HUMAN"}
    /\ main[f].text \in Literal => main[f].by # "UNTRUSTED"

\* A handler that gives up the lock has made the commits of a whole cycle on
\* both branches, or none; a cycle that skipped every path is on the trusted
\* branch alone. Only one that reports a rollback that failed may leave part of a
\* cycle, and never the commit that gives main the resolved text.
WholeCycles ==
  {NoCycle,
   Made(<<"HUMAN">>, <<"HUMAN">>),
   Made(<<>>, <<"HUMAN">>),
   Made(<<"TRUSTED">>, <<"TRUSTED", "UNTRUSTED">>),
   Made(<<"TRUSTED">>, <<>>)}

PartsOfCycles ==
  [trusted : {<<>>, <<"HUMAN">>, <<"TRUSTED">>}, main : {<<>>, <<"TRUSTED">>},
   reported : {TRUE}]

AllOrNothing == lock = Nobody => cycle \in WholeCycles \cup PartsOfCycles

OneProcess == \A p, q \in Process : p = q

\* Between the first and the last commit of a cycle the branches count as they
\* were read, since until then a failure takes everything back.
Midway == {"recTrusted", "comTrusted", "comFailed", "comRestored", "comMain"}

HalfCommitted == lock # Nobody /\ pc[lock] \in Midway

CommittedTrusted == IF HalfCommitted THEN job[lock].trusted ELSE trusted

CommittedMain == IF HalfCommitted THEN job[lock].main ELSE main

B == INSTANCE TwoBranches WITH
       Shown <- [t \in Text |-> Resolve(t)],
       Alone <- OneProcess,
       trusted <- CommittedTrusted,
       main <- CommittedMain

\* The handlers commit on both branches at once, at whatever step they fail, if
\* the rollback does not, and whoever writes meanwhile: a cycle of the human's edits
\* that reaches main as they are, or a cycle of a tool call that reaches main
\* resolved, and blamed for what it is, but for the files it has skipped.
ImplementsTwoBranches == B!Spec

===========================================================================
