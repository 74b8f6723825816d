------------------------------ MODULE DualFSProofs ------------------------------
(***************************************************************************)
(* Theorems about DualFS, for any processes, files and texts: the types    *)
(* and a cycle's commits whatever the environment does, the human's drafts *)
(* if he does not save inside the gap QuietRestore names.                  *)
(***************************************************************************)
EXTENDS DualFS, SequenceTheorems, TLAPS

---------------------------------------------------------------------------
(***************************************************************************)
(* Types, and the lock: who works under it is the one that has it.         *)
(***************************************************************************)
Place == {"idle", "recListed", "ready", "ran", "comListed"} \cup Locked

ViewsTyped ==
  /\ agent \in [File -> Text]
  /\ human \in [File -> Text]
  /\ trusted \in [File -> Text]
  /\ main \in [File -> Blamed]
  /\ draft \in [File -> Text \cup {None}]
  /\ diverged \in SUBSET File

LockTyped ==
  /\ lock \in Process \cup {Nobody}
  /\ pc \in [Process -> Place]
  /\ \A p \in Process : pc[p] \in Locked <=> lock = p

JobsTyped == job \in [Process -> Job]

LEMMA TypeParts == TypeOK <=> ViewsTyped /\ LockTyped /\ JobsTyped
BY DEF TypeOK, ViewsTyped, LockTyped, JobsTyped, Place

LEMMA ResolvedIsText ==
  ASSUME NEW t \in Text
  PROVE  Resolve(t) \in Text \ Symbol
BY TextAssumption DEF Resolve, Text, Symbol, Raw

LEMMA MergedIsText ==
  ASSUME NEW a \in Text, NEW h \in Text, NEW status
  PROVE  Merge(status, a, h) \in Text
BY DEF Merge, Text, Symbol, Raw

LEMMA NoJobTyped == NoJob \in Job
<1>1. Absent \in Text  BY DEF Text
<1>2. [f \in File |-> Absent] \in [File -> Text]  BY <1>1
<1>3. [f \in File |-> "clean"] \in [File -> Status]  BY DEF Status
<1>4. [text |-> Absent, by |-> "TRUSTED"] \in Blamed  BY <1>1 DEF Blamed, Kind
<1>5. [f \in File |-> [text |-> Absent, by |-> "TRUSTED"]] \in [File -> Blamed]
  BY <1>4
<1>6. {} \in SUBSET File  OBVIOUS
<1>7. None \in [file : File, text : Text] \cup {None}  OBVIOUS
<1> QED  BY <1>2, <1>3, <1>5, <1>6, <1>7, Zenon DEF NoJob, Job

LEMMA JobReplaced ==
  ASSUME JobsTyped, NEW p \in Process, NEW j \in Job
  PROVE  [job EXCEPT ![p] = j] \in [Process -> Job]
BY DEF JobsTyped

\* What a handler remembers stays typed, field by field.
LEMMA JobFields ==
  ASSUME NEW j \in Job
  PROVE  /\ j.listed \in [File -> Status] /\ j.todo \in SUBSET File
         /\ j.done \in SUBSET File /\ j.snap \in [File -> Text]
         /\ j.base \in [File -> Text]
         /\ j.moved \in [file : File, text : Text] \cup {None}
         /\ j.trusted \in [File -> Text] /\ j.main \in [File -> Blamed]
BY DEF Job

\* A handler stays outside the lock, or stays under it.
LEMMA PlaceKept ==
  ASSUME LockTyped, NEW p \in Process, NEW l \in Place, Goto(p, l), UNCHANGED lock,
         pc[p] \in Locked <=> l \in Locked
  PROVE  LockTyped'
BY DEF LockTyped, Goto

LEMMA PlaceTaken ==
  ASSUME LockTyped, NEW p \in Process, NEW l \in Locked, Goto(p, l), TakeLock(p),
         pc[p] \notin Locked
  PROVE  LockTyped'
BY DualFSAssumption DEF LockTyped, Goto, TakeLock, Place

LEMMA PlaceLeft ==
  ASSUME LockTyped, JobsTyped, NEW p \in Process, NEW l \in Place \ Locked, Leave(p, l),
         pc[p] \in Locked
  PROVE  LockTyped' /\ JobsTyped'
BY DualFSAssumption, NoJobTyped DEF LockTyped, JobsTyped, Goto, Leave

LEMMA JobsKept ==
  ASSUME TypeOK, NEW p \in Process, NEW j \in Job, job' = [job EXCEPT ![p] = j]
  PROVE  JobsTyped'
BY DEF TypeOK, JobsTyped

\* The reconciliation keeps the types.
LEMMA ReconcileTyped ==
  ASSUME TypeOK, NEW p \in Process, Reconcile(p)
  PROVE  TypeOK'
<1> USE DEF Locked
<1> SUFFICES ViewsTyped' /\ LockTyped' /\ JobsTyped'
  BY DEF TypeOK, ViewsTyped, LockTyped, JobsTyped, Place
<1>0. ViewsTyped /\ LockTyped /\ JobsTyped  BY TypeParts
<1>1. /\ job[p] \in Job /\ job[p].todo \in SUBSET File /\ job[p].snap \in [File -> Text]
      /\ job[p].base \in [File -> Text] /\ job[p].listed \in [File -> Status]
      /\ job[p].trusted \in [File -> Text] /\ job[p].main \in [File -> Blamed]
  BY <1>0, JobFields DEF JobsTyped
<1>2. CASE StartCall(p)
  <2> DEFINE listed == [f \in File |-> StatusOf(f)]
  <2>1. listed \in [File -> Status]  BY DEF StatusOf, Status
  <2>2. [job[p] EXCEPT !.listed = listed] \in Job  BY <1>1, <2>1, Zenon DEF Job
  <2>3. JobsTyped'
    <3>1. CASE \A f \in File : listed[f] = "clean"
      BY <1>0, <1>2, <3>1 DEF StartCall, JobsTyped
    <3>2. CASE ~\A f \in File : listed[f] = "clean"
      <4>1. job' = [job EXCEPT ![p].listed = listed]
        BY <1>2, <3>2, Zenon DEF StartCall
      <4> QED  BY <1>0, <2>2, <4>1, JobsKept DEF JobsTyped
    <3> QED  BY <3>1, <3>2
  <2>4. LockTyped'  BY <1>0, <1>2, PlaceKept DEF StartCall, Place
  <2> QED  BY <1>0, <1>2, <2>3, <2>4 DEF StartCall, ViewsTyped
<1>3. CASE RecLock(p)
  BY <1>0, <1>3, PlaceTaken DEF RecLock, ViewsTyped, JobsTyped
<1>4. CASE RecLockBusy(p)
  <2>1. AfterError(p) \in Place \ Locked  BY DEF AfterError, Place
  <2>2. LockTyped'  BY <1>0, <1>4, <2>1, PlaceKept DEF RecLockBusy, Place
  <2> QED
    BY <1>0, <1>4, <2>2, NoJobTyped DEF RecLockBusy, ViewsTyped, JobsTyped
<1>5. CASE RecRead(p)
  <2>1. PICK todo \in SUBSET File, snap \in [File -> Text] :
          job' = [job EXCEPT ![p].todo = todo, ![p].snap = snap, ![p].base = agent,
                             ![p].trusted = trusted, ![p].main = main]
    <3> DEFINE snap == [f \in File |->
                 IF job[p].listed[f] = "deleted" THEN Absent ELSE human[f]]
    <3>1. snap \in [File -> Text]  BY <1>0 DEF ViewsTyped, Text
    <3> QED  BY <1>5, <3>1, Zenon DEF RecRead
  <2>2. [job[p] EXCEPT !.todo = todo, !.snap = snap, !.base = agent,
                       !.trusted = trusted, !.main = main] \in Job
    BY <1>0, <1>1 DEF ViewsTyped, Job
  <2>3. JobsTyped'  BY <1>0, <2>1, <2>2, JobsKept DEF JobsTyped
  <2>4. LockTyped'  BY <1>0, <1>5, PlaceKept DEF RecRead, Place
  <2> QED  BY <1>0, <1>5, <2>3, <2>4 DEF RecRead, ViewsTyped
<1>6. CASE RecStable(p)
  <2> DEFINE safe == {f \in job[p].todo : human[f] = job[p].snap[f]}
  <2>1. [job[p] EXCEPT !.todo = safe] \in Job  BY <1>1, Zenon DEF Job
  <2>2. LockTyped' /\ JobsTyped'
    <3>1. CASE Leave(p, "ready")
      BY <1>0, <1>6, <3>1, PlaceLeft DEF RecStable, Place
    <3>2. CASE job' = [job EXCEPT ![p].todo = safe] /\ Goto(p, "recStable") /\ UNCHANGED lock
      BY <1>0, <1>6, <2>1, <3>2, JobsKept, PlaceKept DEF RecStable, Place, JobsTyped
    <3> QED  BY <1>6, <3>1, <3>2 DEF RecStable
  <2> QED  BY <1>0, <1>6, <2>2 DEF RecStable, ViewsTyped
<1>7. CASE RecApply(p)
  <2>1. \A f \in File : Merge(job[p].listed[f], job[p].base[f], job[p].snap[f]) \in Text
    BY <1>1, MergedIsText
  <2>2. agent' \in [File -> Text]  BY <1>0, <1>7, <2>1 DEF RecApply, ViewsTyped
  <2>3. LockTyped'  BY <1>0, <1>7, PlaceKept DEF RecApply, Place
  <2> QED  BY <1>0, <1>7, <2>2, <2>3 DEF RecApply, ViewsTyped, JobsTyped
<1>8. CASE RecTrusted(p)
  <2>1. trusted' \in [File -> Text]
    BY <1>0, <1>8 DEF RecTrusted, CommitTrustedBranch, ViewsTyped
  <2>2. LockTyped'  BY <1>0, <1>8, PlaceKept DEF RecTrusted, Place
  <2> QED  BY <1>0, <1>8, <2>1, <2>2 DEF RecTrusted, ViewsTyped, JobsTyped
<1>9. CASE RecMain(p)
  <2>1. main' \in [File -> Blamed]
    BY <1>0, <1>1, <1>9 DEF RecMain, CommitMainBranch, ViewsTyped, Blamed, Kind
  <2>2. draft' \in [File -> Text \cup {None}]
    BY <1>0, <1>9 DEF RecMain, RecordDrafts, ViewsTyped
  <2>3. LockTyped' /\ JobsTyped'  BY <1>0, <1>9, PlaceLeft DEF RecMain, Place
  <2> QED  BY <1>0, <1>9, <2>1, <2>2, <2>3 DEF RecMain, ViewsTyped
<1>10. CASE RecFail(p)
  <2>1. AfterError(p) \in Place \ Locked  BY DEF AfterError, Place
  <2>2. LockTyped' /\ JobsTyped'  BY <1>0, <1>10, <2>1, PlaceLeft DEF RecFail
  <2> QED
    BY <1>0, <1>1, <1>10, <2>2 DEF RecFail, ResetBranches, ViewsTyped
<1>11. CASE RecGiveUp(p)
  <2>1. AfterError(p) \in Place \ Locked  BY DEF AfterError, Place
  <2>2. LockTyped' /\ JobsTyped'  BY <1>0, <1>11, <2>1, PlaceLeft DEF RecGiveUp
  <2> QED  BY <1>0, <1>11, <2>2 DEF RecGiveUp, ViewsTyped
<1> QED
  BY <1>2, <1>3, <1>4, <1>5, <1>6, <1>7, <1>8, <1>9, <1>10, <1>11 DEF Reconcile

\* So do the tools,
LEMMA ToolTyped ==
  ASSUME TypeOK, NEW p \in Process, Tool(p)
  PROVE  TypeOK'
<1> USE DEF Locked
<1> SUFFICES ViewsTyped' /\ LockTyped' /\ JobsTyped'
  BY DEF TypeOK, ViewsTyped, LockTyped, JobsTyped, Place
<1>0. ViewsTyped /\ LockTyped /\ JobsTyped  BY TypeParts
<1>1. \A s \in Source : SymbolOf(s) \in Text  BY DEF SymbolOf, Text, Symbol, Part
<1>2. ASSUME NEW f \in File, ToolWrite(p, f) PROVE ViewsTyped' /\ LockTyped' /\ JobsTyped'
  <2>1. ToolTexts \subseteq Text  BY <1>1 DEF ToolTexts, Text
  <2> QED  BY <1>0, <1>2, <2>1 DEF ToolWrite, ViewsTyped, LockTyped, JobsTyped
<1>3. ASSUME NEW f \in File, ExecWrite(p, f) PROVE ViewsTyped' /\ LockTyped' /\ JobsTyped'
  <2>1. \A s \in Source : Resolve(SymbolOf(s)) \in Text  BY <1>1, ResolvedIsText
  <2> QED  BY <1>0, <1>3, <2>1 DEF ExecWrite, ViewsTyped, LockTyped, JobsTyped
<1>4. CASE ToolReturns(p)
  <2>1. LockTyped'  BY <1>0, <1>4, PlaceKept DEF ToolReturns, Place
  <2> QED  BY <1>0, <1>4, <2>1 DEF ToolReturns, ViewsTyped, JobsTyped
<1> QED  BY <1>2, <1>3, <1>4 DEF Tool

\* the human,
LEMMA HumanTyped ==
  ASSUME TypeOK, NEW f \in File, HumanStep(f)
  PROVE  TypeOK'
<1> SUFFICES ViewsTyped' /\ LockTyped' /\ JobsTyped'
  BY DEF TypeOK, ViewsTyped, LockTyped, JobsTyped, Place
<1>0. ViewsTyped /\ LockTyped /\ JobsTyped  BY TypeParts
<1>1. ASSUME NEW t \in Text, HumanSaves(f, t)
      PROVE  ViewsTyped' /\ LockTyped' /\ JobsTyped'
  BY <1>0, <1>1 DEF HumanSaves, ViewsTyped, LockTyped, JobsTyped
<1>2. Absent \in Text /\ Literal \subseteq Text  BY DEF Text
<1>3. main[f].text \in Text  BY <1>0 DEF ViewsTyped, Blamed
<1>4. human[f] \in Raw => [human[f] EXCEPT !.part = "part"] \in Text
  BY DEF Raw, Part, Text
<1> QED
  BY <1>1, <1>2, <1>3, <1>4
     DEF HumanStep, HumanTypes, HumanDeletes, HumanAmends, HumanUndoes

\* A backup is there while it is being restored, and only during an installation.
BackupHeld ==
  \A p \in Process :
    /\ pc[p] = "restoring" => job[p].moved # None
    /\ job[p].moved # None => pc[p] \in {"installing", "restoring"}

\* and the file commit, the backup included that it puts back.
LEMMA InstallTyped ==
  ASSUME TypeOK, BackupHeld, NEW p \in Process, Install(p)
  PROVE  TypeOK'
<1> USE DEF Locked
<1> SUFFICES ViewsTyped' /\ LockTyped' /\ JobsTyped'
  BY DEF TypeOK, ViewsTyped, LockTyped, JobsTyped, Place
<1>0. ViewsTyped /\ LockTyped /\ JobsTyped  BY TypeParts
<1>1. /\ job[p] \in Job /\ job[p].todo \in SUBSET File /\ job[p].done \in SUBSET File
      /\ job[p].snap \in [File -> Text] /\ job[p].main \in [File -> Blamed]
      /\ job[p].moved \in [file : File, text : Text] \cup {None}
  BY <1>0, JobFields DEF JobsTyped
<1>2. Absent \in Text  BY DEF Text
<1>3. \A f \in File : Desired(p, f) \in Text  BY <1>1, ResolvedIsText DEF Desired
<1>4. job[p].moved # None => job[p].moved.file \in File /\ job[p].moved.text \in Text
  BY <1>1
<1>5. ASSUME NEW f \in File, InstallTake(p, f) PROVE ViewsTyped' /\ LockTyped' /\ JobsTyped'
  <2>1. human[f] \in Text  BY <1>0 DEF ViewsTyped
  <2>2. [job[p] EXCEPT !.moved = [file |-> f, text |-> human[f]]] \in Job
    BY <1>1, <2>1 DEF Job
  <2>3. JobsTyped'  BY <1>0, <1>5, <2>2, JobsKept DEF InstallTake, JobsTyped
  <2> QED  BY <1>0, <1>2, <1>5, <2>3 DEF InstallTake, ViewsTyped, LockTyped
<1>6. CASE InstallPut(p)
  <2>1. [job[p] EXCEPT !.moved = None, !.todo = @ \ {job[p].moved.file},
                       !.done = @ \cup {job[p].moved.file}] \in Job
    BY <1>1, <1>4, <1>6 DEF InstallPut, Job
  <2>2. JobsTyped'  BY <1>0, <1>6, <2>1, JobsKept DEF InstallPut, JobsTyped
  <2> QED  BY <1>0, <1>3, <1>4, <1>6, <2>2 DEF InstallPut, ViewsTyped, LockTyped
<1>7. [job[p] EXCEPT !.moved = None, !.todo = @ \ {job[p].moved.file}] \in Job
  BY <1>1 DEF Job
<1>8. CASE InstallDiscard(p)
  <2>1. JobsTyped'  BY <1>0, <1>7, <1>8, JobsKept DEF InstallDiscard, JobsTyped
  <2> QED  BY <1>0, <1>8, <2>1 DEF InstallDiscard, ViewsTyped, LockTyped
<1>9. CASE InstallRefuse(p)
  <2>1. LockTyped'  BY <1>0, <1>9, PlaceKept DEF InstallRefuse, Place
  <2> QED  BY <1>0, <1>9, <2>1 DEF InstallRefuse, ViewsTyped, JobsTyped
<1>10. CASE InstallRestore(p)
  <2>1. human' \in [File -> Text]
    <3>1. job[p].moved # None  BY <1>10 DEF InstallRestore, BackupHeld
    <3> QED  BY <1>0, <1>4, <1>10, <3>1 DEF InstallRestore, ViewsTyped
  <2>2. LockTyped'  BY <1>0, <1>10, PlaceKept DEF InstallRestore, Place
  <2>3. JobsTyped'  BY <1>0, <1>7, <1>10, JobsKept DEF InstallRestore, JobsTyped
  <2> QED  BY <1>0, <1>10, <2>1, <2>2, <2>3 DEF InstallRestore, ViewsTyped
<1>11. CASE InstallFail(p)
  <2>1. human' \in [File -> Text]
    BY <1>0, <1>1, <1>11 DEF InstallFail, Reinstalled, ViewsTyped, Blamed
  <2>2. LockTyped' /\ JobsTyped'  BY <1>0, <1>11, PlaceLeft DEF InstallFail, Place
  <2> QED  BY <1>0, <1>11, <2>1, <2>2 DEF InstallFail, ViewsTyped
<1> QED  BY <1>5, <1>6, <1>8, <1>9, <1>10, <1>11 DEF Install

LEMMA FileCommitTyped ==
  ASSUME TypeOK, BackupHeld, NEW p \in Process, FileCommit(p)
  PROVE  TypeOK'
<1> USE DEF Locked
<1> SUFFICES ASSUME ~Install(p) PROVE ViewsTyped' /\ LockTyped' /\ JobsTyped'
  BY InstallTyped DEF TypeOK, ViewsTyped, LockTyped, JobsTyped, Place
<1>0. ViewsTyped /\ LockTyped /\ JobsTyped  BY TypeParts
<1>1. /\ job[p] \in Job /\ job[p].todo \in SUBSET File /\ job[p].done \in SUBSET File
      /\ job[p].snap \in [File -> Text] /\ job[p].main \in [File -> Blamed]
      /\ job[p].trusted \in [File -> Text]
  BY <1>0, JobFields DEF JobsTyped
<1>2. \A f \in File : Desired(p, f) \in Text  BY <1>1, ResolvedIsText DEF Desired
<1>3. Reinstalled(p) \in [File -> Text]
  BY <1>0, <1>1 DEF Reinstalled, ViewsTyped, Blamed
<1>4. CASE CommitScan(p)
  <2> DEFINE listed == [f \in File |-> IF agent[f] = trusted[f] THEN "clean" ELSE "modified"]
  <2>1. listed \in [File -> Status]  BY DEF Status
  <2>2. [job[p] EXCEPT !.listed = listed] \in Job  BY <1>1, <2>1, Zenon DEF Job
  <2>3. UNCHANGED job \/ job' = [job EXCEPT ![p].listed = listed]
    BY <1>4 DEF CommitScan
  <2> HIDE DEF listed
  <2>4. JobsTyped'  BY <1>0, <2>2, <2>3, JobsKept DEF JobsTyped
  <2>5. LockTyped'  BY <1>0, <1>4, PlaceKept DEF CommitScan, Place
  <2> QED  BY <1>0, <1>4, <2>4, <2>5 DEF CommitScan, ViewsTyped
<1>5. CASE CommitLock(p)
  BY <1>0, <1>5, PlaceTaken DEF CommitLock, ViewsTyped, JobsTyped
<1>6. CASE CommitLockBusy(p)
  <2>1. LockTyped'  BY <1>0, <1>6, PlaceKept DEF CommitLockBusy, Place
  <2> QED  BY <1>0, <1>6, <2>1, NoJobTyped DEF CommitLockBusy, ViewsTyped, JobsTyped
<1>7. CASE CommitRead(p)
  <2>1. [job[p] EXCEPT !.snap = agent, !.trusted = trusted, !.main = main] \in Job
    BY <1>0, <1>1 DEF ViewsTyped, Job
  <2>2. JobsTyped'  BY <1>0, <1>7, <2>1, JobsKept DEF CommitRead, JobsTyped
  <2>3. LockTyped'  BY <1>0, <1>7, PlaceKept DEF CommitRead, Place
  <2> QED  BY <1>0, <1>7, <2>2, <2>3 DEF CommitRead, ViewsTyped
<1>8. ASSUME NEW fs \in SUBSET File, job' = [job EXCEPT ![p].todo = fs] PROVE JobsTyped'
  <2>1. [job[p] EXCEPT !.todo = fs] \in Job  BY <1>1, Zenon DEF Job
  <2> QED  BY <1>0, <1>8, <2>1, JobsKept DEF JobsTyped
<1>9. CASE CommitCheck(p)
  <2>1. LockTyped'  BY <1>0, <1>9, PlaceKept DEF CommitCheck, Place
  <2>2. {f \in Changed(p) : human[f] = main[f].text} \in SUBSET File  BY DEF Changed
  <2>3. JobsTyped'  BY <1>8, <1>9, <2>2 DEF CommitCheck
  <2> QED  BY <1>0, <1>9, <2>1, <2>3 DEF CommitCheck, ViewsTyped
<1>10. CASE CommitGiveUp(p)
  <2>1. LockTyped' /\ JobsTyped'  BY <1>0, <1>10, PlaceLeft DEF CommitGiveUp, Place
  <2> QED  BY <1>0, <1>10, <2>1 DEF CommitGiveUp, ViewsTyped
<1>11. CASE CommitRecheck(p)
  <2>1. LockTyped'  BY <1>0, <1>11, PlaceKept DEF CommitRecheck, Place
  <2>2. {f \in job[p].done : human[f] = Desired(p, f)} \in SUBSET File  BY <1>1
  <2>3. JobsTyped'  BY <1>8, <1>11, <2>2 DEF CommitRecheck
  <2> QED  BY <1>0, <1>11, <2>1, <2>3 DEF CommitRecheck, ViewsTyped
<1>12. CASE CommitTrusted(p)
  <2>1. LockTyped'  BY <1>0, <1>12, PlaceKept DEF CommitTrusted, Place
  <2>2. trusted' \in [File -> Text]
    BY <1>0, <1>1, <1>12 DEF CommitTrusted, CommitTrustedBranch, ViewsTyped
  <2> QED  BY <1>0, <1>12, <2>1, <2>2 DEF CommitTrusted, ViewsTyped, JobsTyped
<1>5a. CASE CommitRestore(p)
  <2>1. agent' \in [File -> Text]  BY <1>0, <1>5a DEF CommitRestore, ViewsTyped
  <2>2. diverged' \in SUBSET File
    BY <1>0, <1>5a DEF CommitRestore, ViewsTyped, Changed
  <2>3. LockTyped' /\ JobsTyped'
    <3>1. CASE Leave(p, "idle")
      BY <1>0, <1>5a, <3>1, PlaceLeft DEF CommitRestore, Place
    <3>2. CASE (Goto(p, "comRestored") \/ Goto(p, "comFailed")) /\ UNCHANGED <<lock, job>>
      <4>1. LockTyped'  BY <1>0, <1>5a, <3>2, PlaceKept DEF CommitRestore, Place
      <4> QED  BY <1>0, <3>2, <4>1 DEF JobsTyped
    <3> QED  BY <1>5a, <3>1, <3>2 DEF CommitRestore
  <2> QED  BY <1>0, <1>5a, <2>1, <2>2, <2>3 DEF CommitRestore, ViewsTyped
<1>14. CASE CommitMainTrusted(p)
  <2>1. LockTyped'  BY <1>0, <1>14, PlaceKept DEF CommitMainTrusted, Place
  <2>2. main' \in [File -> Blamed]
    BY <1>0, <1>1, <1>14 DEF CommitMainTrusted, CommitMainBranch, ViewsTyped, Blamed, Kind
  <2> QED  BY <1>0, <1>14, <2>1, <2>2 DEF CommitMainTrusted, ViewsTyped, JobsTyped
<1>15. CASE CommitMainUntrusted(p)
  <2>1. LockTyped' /\ JobsTyped'  BY <1>0, <1>15, PlaceLeft DEF CommitMainUntrusted, Place
  <2>2. main' \in [File -> Blamed]
    BY <1>0, <1>2, <1>15 DEF CommitMainUntrusted, CommitMainBranch, ViewsTyped, Blamed, Kind
  <2>3. draft' \in [File -> Text \cup {None}] /\ diverged' \in SUBSET File
    BY <1>0, <1>15 DEF CommitMainUntrusted, RecordDrafts, ViewsTyped, Changed
  <2> QED  BY <1>0, <1>15, <2>1, <2>2, <2>3 DEF CommitMainUntrusted, ViewsTyped
<1>16. CASE CommitFail(p)
  <2>1. LockTyped' /\ JobsTyped'  BY <1>0, <1>16, PlaceLeft DEF CommitFail, Place
  <2>2. agent' \in [File -> Text]  BY <1>0, <1>1, <1>16 DEF CommitFail, ViewsTyped
  <2>3. draft' \in [File -> Text \cup {None}]
    BY <1>0, <1>16 DEF CommitFail, RecordDrafts, ViewsTyped
  <2> QED
    BY <1>0, <1>1, <1>3, <1>16, <2>1, <2>2, <2>3 DEF CommitFail, ResetBranches, ViewsTyped
<1> QED
  BY <1>4, <1>5, <1>6, <1>7, <1>9, <1>10, <1>11, <1>12, <1>5a, <1>14, <1>15, <1>16
     DEF FileCommit

\* and a rollback that fails.
LEMMA PartlyBackTyped ==
  ASSUME agent \in [File -> Text], NEW text \in [File -> Text],
         NEW files, PartlyBack(files, text)
  PROVE  agent' \in [File -> Text]
<1>1. Absent \in Text  BY DEF Text
<1> QED  BY <1>1 DEF PartlyBack

LEMMA PartlyReinstalledTyped ==
  ASSUME ViewsTyped, JobsTyped, NEW p \in Process,
         NEW files, PartlyReinstalled(p, files)
  PROVE  human' \in [File -> Text]
<1>1. job[p].main \in [File -> Blamed]  BY JobFields DEF JobsTyped
<1>2. Reinstalled(p) \in [File -> Text]  BY <1>1 DEF Reinstalled, ViewsTyped, Blamed
<1> QED  BY <1>2 DEF PartlyReinstalled, ViewsTyped

LEMMA ResetTyped ==
  ASSUME ViewsTyped, JobsTyped, NEW p \in Process,
         NEW mainBack, NEW trustedBack, ResetReported(p, mainBack, trustedBack)
  PROVE  trusted' \in [File -> Text] /\ main' \in [File -> Blamed]
<1>1. job[p].main \in [File -> Blamed] /\ job[p].trusted \in [File -> Text]
  BY JobFields DEF JobsTyped
<1> QED  BY <1>1 DEF ResetReported, ViewsTyped

LEMMA UndoFailsTyped ==
  ASSUME TypeOK, NEW p \in Process, UndoFails(p)
  PROVE  TypeOK'
<1> USE DEF Locked
<1> SUFFICES ViewsTyped' /\ LockTyped' /\ JobsTyped'
  BY DEF TypeOK, ViewsTyped, LockTyped, JobsTyped, Place
<1>0. ViewsTyped /\ LockTyped /\ JobsTyped  BY TypeParts
<1>1. job[p].base \in [File -> Text] /\ job[p].snap \in [File -> Text]
  BY <1>0, JobFields DEF JobsTyped
<1>2. CASE RecUndoFails(p)
  <2>1. AfterError(p) \in Place \ Locked  BY DEF AfterError, Place
  <2>2. LockTyped' /\ JobsTyped'  BY <1>0, <1>2, <2>1, PlaceLeft DEF RecUndoFails
  <2>3. agent' \in [File -> Text]
    BY <1>0, <1>1, <1>2, PartlyBackTyped DEF RecUndoFails, ViewsTyped
  <2>4. trusted' \in [File -> Text] /\ main' \in [File -> Blamed]
    BY <1>0, <1>2, ResetTyped DEF RecUndoFails
  <2> QED  BY <1>0, <1>2, <2>2, <2>3, <2>4 DEF RecUndoFails, ViewsTyped
<1>3. CASE InstallUndoFails(p)
  <2>1. LockTyped' /\ JobsTyped'  BY <1>0, <1>3, PlaceLeft DEF InstallUndoFails, Place
  <2>2. human' \in [File -> Text]
    BY <1>0, <1>3, PartlyReinstalledTyped DEF InstallUndoFails
  <2> QED  BY <1>0, <1>3, <2>1, <2>2 DEF InstallUndoFails, ViewsTyped
<1>4. CASE CommitUndoFails(p)
  <2>1. LockTyped' /\ JobsTyped'  BY <1>0, <1>4, PlaceLeft DEF CommitUndoFails, Place
  <2>2. agent' \in [File -> Text]
    BY <1>0, <1>1, <1>4, PartlyBackTyped DEF CommitUndoFails, ViewsTyped
  <2>3. human' \in [File -> Text]
    BY <1>0, <1>4, PartlyReinstalledTyped DEF CommitUndoFails, ViewsTyped
  <2>4. trusted' \in [File -> Text] /\ main' \in [File -> Blamed]
    BY <1>0, <1>4, ResetTyped DEF CommitUndoFails
  <2>5. draft' \in [File -> Text \cup {None}]
    BY <1>0, <1>4 DEF CommitUndoFails, RecordDrafts, ViewsTyped
  <2> QED  BY <1>0, <1>4, <2>1, <2>2, <2>3, <2>4, <2>5 DEF CommitUndoFails, ViewsTyped
<1> QED  BY <1>2, <1>3, <1>4 DEF UndoFails

LEMMA TypesKept ==
  ASSUME TypeOK, BackupHeld, [Next]_vars
  PROVE  TypeOK'
<1>1. CASE UNCHANGED vars
  BY <1>1 DEF vars, TypeOK
<1> QED
  BY <1>1, HumanTyped, ReconcileTyped, ToolTyped, FileCommitTyped, UndoFailsTyped DEF Next

LEMMA TypesInitially == Init => TypeOK /\ BackupHeld
<1> SUFFICES ASSUME Init PROVE ViewsTyped /\ LockTyped /\ JobsTyped /\ BackupHeld
  BY TypeParts
<1>1. Literal \cup {SymbolOf(s) : s \in Source} \cup {Absent} \subseteq Text
  BY DEF SymbolOf, Text, Symbol, Part
<1>2. agent \in [File -> Text]  BY <1>1 DEF Init
<1>3. human \in [File -> Text]  BY <1>2, ResolvedIsText DEF Init
<1>4. ViewsTyped  BY <1>2, <1>3 DEF Init, ViewsTyped, Blamed, Kind
<1>5. LockTyped  BY DualFSAssumption DEF Init, LockTyped, Place, Locked
<1>6. JobsTyped  BY NoJobTyped DEF Init, JobsTyped
<1>7. BackupHeld  BY DEF Init, BackupHeld, NoJob
<1> QED  BY <1>4, <1>5, <1>6, <1>7

---------------------------------------------------------------------------
(***************************************************************************)
(* Who may do what: a step is the human's, or one process's, and only the  *)
(* process that has the lock changes the branches.                         *)
(***************************************************************************)
Works(p) == Reconcile(p) \/ Tool(p) \/ FileCommit(p)

LEMMA NextSteps ==
  ASSUME [Next]_vars
  PROVE  \/ UNCHANGED vars
         \/ \E f \in File : HumanStep(f)
         \/ \E p \in Process : Works(p) \/ UndoFails(p)
BY DEF Next, Works

\* A process whose rollback has failed gives up the lock, and forgets its job.
LEMMA UndoFailsLeaves ==
  ASSUME TypeOK, NEW p \in Process, UndoFails(p)
  PROVE  /\ \E l \in {"idle", "ready"} : Leave(p, l)
         /\ pc[p] \in Locked
         /\ BackupHeld => job[p].moved = None
         /\ \A q \in Process \ {p} : /\ pc'[q] = pc[q] /\ job'[q] = job[q]
                                    /\ pc[q] \notin Locked
<1> USE DEF Locked
<1>1. \E l \in {"idle", "ready"} : Leave(p, l)
  BY DEF UndoFails, RecUndoFails, InstallUndoFails, CommitUndoFails, AfterError
<1>2. pc[p] \in Locked /\ (BackupHeld => job[p].moved = None)
  BY DEF UndoFails, RecUndoFails, InstallUndoFails, CommitUndoFails, BackupHeld
<1>3. \A q \in Process \ {p} : pc'[q] = pc[q] /\ job'[q] = job[q] /\ pc[q] \notin Locked
  BY <1>1, <1>2 DEF TypeOK, Leave, Goto
<1> QED  BY <1>1, <1>2, <1>3

LEMMA OthersStay ==
  ASSUME TypeOK, NEW p \in Process, Works(p), NEW q \in Process, q # p
  PROVE  pc'[q] = pc[q] /\ job'[q] = job[q]
<1>1. pc \in [Process -> Place] /\ job \in [Process -> Job]
  BY DEF TypeOK, Place
<1>2. CASE Reconcile(p)
  BY <1>1, <1>2
     DEF Reconcile, StartCall, RecLock, RecLockBusy, RecRead, RecStable, RecApply,
         RecTrusted, RecMain, RecFail, RecGiveUp, Goto, Leave
<1>3. CASE Tool(p)
  BY <1>1, <1>3 DEF Tool, ToolWrite, ExecWrite, ToolReturns, Goto
<1>4. CASE Install(p)
  BY <1>1, <1>4
     DEF Install, InstallTake, InstallPut, InstallDiscard, InstallRefuse,
         InstallRestore, InstallFail, Goto, Leave
<1>5. CASE FileCommit(p) /\ ~Install(p)
  BY <1>1, <1>5
     DEF FileCommit, CommitScan, CommitLock, CommitLockBusy, CommitRead, CommitCheck,
         CommitGiveUp, CommitRecheck, CommitTrusted, CommitRestore,
         CommitMainTrusted, CommitMainUntrusted, CommitFail, Goto, Leave
<1> QED  BY <1>2, <1>3, <1>4, <1>5 DEF Works

LEMMA WithoutLock ==
  ASSUME TypeOK, NEW p \in Process, Works(p), pc[p] \notin Locked
  PROVE  /\ UNCHANGED <<main, trusted, diverged>>
         /\ (UNCHANGED <<lock, cycle>>) \/ TakeLock(p)
<1> USE DEF Locked
<1>1. CASE Reconcile(p)
  BY <1>1
     DEF Reconcile, StartCall, RecLock, RecLockBusy, RecRead, RecStable, RecApply,
         RecTrusted, RecMain, RecFail, RecGiveUp
<1>2. CASE Tool(p)
  BY <1>2 DEF Tool, ToolWrite, ExecWrite, ToolReturns
<1>3. CASE Install(p)
  BY <1>3
     DEF Install, InstallTake, InstallPut, InstallDiscard, InstallRefuse,
         InstallRestore, InstallFail
<1>4. CASE FileCommit(p) /\ ~Install(p)
  BY <1>4
     DEF FileCommit, CommitScan, CommitLock, CommitLockBusy, CommitRead, CommitCheck,
         CommitGiveUp, CommitRecheck, CommitTrusted, CommitRestore,
         CommitMainTrusted, CommitMainUntrusted, CommitFail
<1> QED  BY <1>1, <1>2, <1>3, <1>4 DEF Works

\* While a process has the lock, the steps of the others leave the branches.
LEMMA HolderAlone ==
  ASSUME TypeOK, NEW p \in Process, Works(p), NEW q \in Process, q # p, pc[q] \in Locked
  PROVE  UNCHANGED <<main, trusted, diverged, lock, cycle>>
<1>1. lock = q /\ pc[p] \notin Locked  BY DEF TypeOK
<1>2. lock # Nobody  BY <1>1, DualFSAssumption
<1> QED  BY <1>1, <1>2, WithoutLock DEF TakeLock

LEMMA HumanLeaves ==
  ASSUME NEW f \in File, HumanStep(f)
  PROVE  UNCHANGED <<agent, trusted, main, lock, pc, job, diverged, cycle>>
BY DEF HumanStep, HumanTypes, HumanDeletes, HumanAmends, HumanUndoes, HumanSaves

---------------------------------------------------------------------------
(***************************************************************************)
(* The backup, and the types.                                              *)
(***************************************************************************)
BackupHeldBy(p) ==
  /\ pc[p] = "restoring" => job[p].moved # None
  /\ job[p].moved # None => pc[p] \in {"installing", "restoring"}

LEMMA BackupByOne == BackupHeld <=> \A p \in Process : BackupHeldBy(p)
BY DEF BackupHeld, BackupHeldBy

LEMMA NoJobEmpty == NoJob.moved = None /\ NoJob.done = {} /\ NoJob.todo = {}
BY DEF NoJob

LEMMA LeftEmpty ==
  ASSUME TypeOK, NEW p \in Process, NEW l \in Place, Leave(p, l)
  PROVE  /\ pc'[p] = l /\ lock' = Nobody
         /\ job'[p].moved = None /\ job'[p].done = {}
BY NoJobEmpty DEF Leave, Goto, TypeOK

LEMMA RecReadJob ==
  ASSUME TypeOK, NEW p \in Process, RecRead(p)
  PROVE  /\ pc[p] = "recLocked" /\ pc'[p] = "recRead"
         /\ job'[p].moved = job[p].moved /\ job'[p].done = job[p].done
         /\ job'[p].listed = job[p].listed
         /\ job'[p].base = agent /\ job'[p].trusted = trusted /\ job'[p].main = main
         /\ job'[p].snap = [f \in File |->
               IF job[p].listed[f] = "deleted" THEN Absent ELSE human[f]]
         /\ job'[p].todo = {f \in File :
               \/ job[p].listed[f] = "deleted" /\ agent[f] # Absent
               \/ job[p].listed[f] \in {"untracked", "modified"} /\ human[f] # Absent}
<1> DEFINE todo == {f \in File :
                 \/ job[p].listed[f] = "deleted" /\ agent[f] # Absent
                 \/ job[p].listed[f] \in {"untracked", "modified"} /\ human[f] # Absent}
           snap == [f \in File |->
                 IF job[p].listed[f] = "deleted" THEN Absent ELSE human[f]]
<1>1. job' = [job EXCEPT ![p].todo = todo, ![p].snap = snap, ![p].base = agent,
                         ![p].trusted = trusted, ![p].main = main]
  BY DEF RecRead
<1>2. job[p] \in Job /\ job \in [Process -> Job] /\ pc \in [Process -> Place]
  BY DEF TypeOK, Place
<1>3. pc[p] = "recLocked" /\ pc'[p] = "recRead"  BY <1>2 DEF RecRead, Goto
<1> HIDE DEF todo, snap
<1>4. /\ job'[p].moved = job[p].moved /\ job'[p].done = job[p].done
      /\ job'[p].listed = job[p].listed
      /\ job'[p].base = agent /\ job'[p].trusted = trusted /\ job'[p].main = main
      /\ job'[p].snap = snap /\ job'[p].todo = todo
  BY <1>1, <1>2 DEF Job
<1> QED  BY <1>3, <1>4 DEF todo, snap

LEMMA BackupKept ==
  ASSUME TypeOK, BackupHeld, [Next]_vars
  PROVE  BackupHeld'
<1> USE DEF Place, Locked
<1>0. pc \in [Process -> Place] /\ job \in [Process -> Job]
  BY DEF TypeOK
<1>1. CASE UNCHANGED vars
  BY <1>1 DEF vars, BackupHeld
<1>2. ASSUME NEW f \in File, HumanStep(f) PROVE BackupHeld'
  BY <1>2, HumanLeaves DEF BackupHeld
<1>3. ASSUME NEW p \in Process, Works(p) PROVE BackupHeld'
  <2>1. \A q \in Process \ {p} : BackupHeldBy(q)'
    BY <1>3, OthersStay, BackupByOne DEF BackupHeldBy
  <2> SUFFICES BackupHeldBy(p)'
    BY <2>1 DEF BackupHeld, BackupHeldBy
  <2>2. AfterError(p) \in Place  BY DEF AfterError
  <2>3. BackupHeldBy(p)  BY BackupByOne
  <2>4. CASE Reconcile(p)
    <3>1. AfterError(p) # "restoring"  BY DEF AfterError
    <3>2. CASE RecFail(p) \/ RecGiveUp(p) \/ RecMain(p) \/ Leave(p, "ready")
      BY <2>2, <3>1, <3>2, LeftEmpty DEF RecFail, RecGiveUp, RecMain, BackupHeldBy
    <3>3. CASE StartCall(p)
      BY <1>0, <2>3, <3>3 DEF Job, StartCall, Goto, BackupHeldBy
    <3>4. CASE RecLockBusy(p)
      BY <1>0, <2>2, <3>1, <3>4, NoJobEmpty DEF RecLockBusy, Goto, BackupHeldBy
    <3>5. CASE RecRead(p)
      BY <2>3, <3>5, RecReadJob DEF BackupHeldBy
    <3>6. CASE RecStable(p) /\ ~Leave(p, "ready")
      BY <1>0, <2>3, <3>6 DEF Job, RecStable, Goto, BackupHeldBy
    <3>7. CASE RecLock(p) \/ RecApply(p) \/ RecTrusted(p)
      BY <1>0, <2>3, <3>7 DEF RecLock, RecApply, RecTrusted, Goto, BackupHeldBy
    <3> QED
      BY <2>4, <3>2, <3>3, <3>4, <3>5, <3>6, <3>7 DEF Reconcile
  <2>5. CASE Tool(p)
    BY <1>0, <2>3, <2>5 DEF Tool, ToolWrite, ExecWrite, ToolReturns, Goto, BackupHeldBy
  <2>6. CASE Install(p)
    <3>1. CASE InstallFail(p)
      BY <3>1, LeftEmpty DEF InstallFail, BackupHeldBy
    <3>2. CASE \E f \in File : InstallTake(p, f)
      BY <1>0, <2>3, <3>2 DEF InstallTake, BackupHeldBy
    <3>3. CASE InstallPut(p) \/ InstallDiscard(p) \/ InstallRefuse(p)
      BY <1>0, <2>3, <3>3
         DEF InstallPut, InstallDiscard, InstallRefuse, Goto, BackupHeldBy
    <3>4. CASE InstallRestore(p)
      BY <1>0, <2>3, <3>4 DEF InstallRestore, Goto, BackupHeldBy
    <3> QED  BY <2>6, <3>1, <3>2, <3>3, <3>4 DEF Install
  <2>7. CASE FileCommit(p) /\ ~Install(p)
    <3>1. CASE CommitGiveUp(p) \/ CommitMainUntrusted(p) \/ CommitFail(p) \/ Leave(p, "idle")
      BY <3>1, LeftEmpty DEF CommitGiveUp, CommitMainUntrusted, CommitFail, BackupHeldBy
    <3>2. CASE CommitScan(p)
      BY <1>0, <2>3, <3>2 DEF Job, CommitScan, Goto, BackupHeldBy
    <3>3. CASE CommitLockBusy(p)
      BY <1>0, <3>3, NoJobEmpty DEF CommitLockBusy, Goto, BackupHeldBy
    <3>4. CASE CommitRead(p) \/ CommitCheck(p) \/ CommitRecheck(p)
      BY <1>0, <2>3, <3>4 DEF Job, CommitRead, CommitCheck, CommitRecheck, Goto, BackupHeldBy
    <3>5. CASE CommitLock(p) \/ CommitTrusted(p) \/ CommitMainTrusted(p)
      BY <1>0, <2>3, <3>5 DEF CommitLock, CommitTrusted, CommitMainTrusted, Goto, BackupHeldBy
    <3>6. CASE CommitRestore(p) /\ ~Leave(p, "idle")
      BY <1>0, <2>3, <3>6 DEF CommitRestore, Goto, BackupHeldBy
    <3> QED  BY <2>7, <3>1, <3>2, <3>3, <3>4, <3>5, <3>6 DEF FileCommit
  <2> QED  BY <1>3, <2>4, <2>5, <2>6, <2>7 DEF Works
<1>4. ASSUME NEW p \in Process, UndoFails(p) PROVE BackupHeld'
  <2>1. PICK l \in {"idle", "ready"} : Leave(p, l)  BY <1>4, UndoFailsLeaves
  <2>2. BackupHeldBy(p)'  BY <2>1, LeftEmpty DEF BackupHeldBy
  <2>3. \A q \in Process \ {p} : BackupHeldBy(q)'
    BY <1>4, UndoFailsLeaves DEF BackupHeld, BackupHeldBy
  <2> QED  BY <2>2, <2>3 DEF BackupHeld, BackupHeldBy
<1> QED  BY <1>1, <1>2, <1>3, <1>4, NextSteps

\* For any processes, files and texts, whatever the human and the tools write,
\* and whether or not the rollbacks of failed handlers fail in their turn:
\* every variable keeps its type, and a process is between taking and giving up
\* commit.lock exactly while the lock is its own.
THEOREM TypesAreKept == Spec => []TypeOK
<1>1. Init => TypeOK /\ BackupHeld
  BY TypesInitially
<1>2. TypeOK /\ BackupHeld /\ [Next]_vars => (TypeOK /\ BackupHeld)'
  BY TypesKept, BackupKept
<1> QED  BY <1>1, <1>2, PTL DEF Spec

---------------------------------------------------------------------------
(***************************************************************************)
(* The commits of a cycle.                                                 *)
(***************************************************************************)
Reconciles == {"recRead", "recStable", "recApplied", "recTrusted"}
Installs == {"installing", "restoring", "installed"}
Commits == {"comTrusted", "comFailed", "comRestored"}

\* The commits made so far are those of the place the holder of the lock is at.
CycleSoFar(p) ==
  /\ pc[p] \in {"recLocked", "recRead", "recStable", "recApplied",
                "comLocked", "comRead"} \cup Installs => cycle = NoCycle
  /\ pc[p] = "recTrusted" =>
       cycle \in {NoCycle, Made(<<"HUMAN">>, <<>>)}
  /\ pc[p] \in Commits => cycle = Made(<<"TRUSTED">>, <<>>)
  /\ pc[p] = "comMain" => cycle = Made(<<"TRUSTED">>, <<"TRUSTED">>)

CycleFits ==
  /\ AllOrNothing
  /\ \A p \in Process : CycleSoFar(p)

LEMMA FieldReplaced ==
  ASSUME NEW t, NEW m, NEW r, NEW kind
  PROVE  /\ [[trusted |-> t, main |-> m, reported |-> r] EXCEPT !.trusted = kind]
              = [trusted |-> kind, main |-> m, reported |-> r]
         /\ [[trusted |-> t, main |-> m, reported |-> r] EXCEPT !.main = kind]
              = [trusted |-> t, main |-> kind, reported |-> r]
OBVIOUS

LEMMA CommitAppended ==
  ASSUME NEW t, NEW m, NEW kind
  PROVE  /\ [Made(t, m) EXCEPT !.trusted = kind] = Made(kind, m)
         /\ [Made(t, m) EXCEPT !.main = kind] = Made(t, kind)
         /\ Made(t, m).trusted = t /\ Made(t, m).main = m
<1>0. PICK r : \A a, b : Made(a, b) = [trusted |-> a, main |-> b, reported |-> r]
  BY Zenon DEF Made
<1>1. [Made(t, m) EXCEPT !.trusted = kind] = Made(kind, m)
  BY <1>0, FieldReplaced
<1>2. [Made(t, m) EXCEPT !.main = kind] = Made(t, kind)
  BY <1>0, FieldReplaced
<1>3. Made(t, m).trusted = t /\ Made(t, m).main = m  BY SMT DEF Made
<1> QED  BY <1>1, <1>2, <1>3

LEMMA FirstCommit == \A kind : Append(<<>>, kind) = <<kind>>
OBVIOUS

LEMMA SecondCommit ==
  ASSUME NEW a, NEW b
  PROVE  Append(<<a>>, b) = <<a, b>>
<1> DEFINE S == {a, b}
           s == Append(<<a>>, b)
           t == <<a, b>>
<1>1. <<a>> \in Seq(S) /\ Len(<<a>>) = 1  OBVIOUS
<1>2. s \in Seq(S) /\ Len(s) = 2 /\ s[1] = a /\ s[2] = b
  BY <1>1, AppendProperties
<1>3. t \in Seq(S) /\ Len(t) = 2 /\ t[1] = a /\ t[2] = b  OBVIOUS
<1> HIDE DEF S, s, t
<1>4. s = t  BY <1>2, <1>3, SeqEqual
<1> QED  BY <1>4 DEF s, t

LEMMA CycleKept ==
  ASSUME TypeOK, CycleFits, [Next]_vars
  PROVE  CycleFits'
<1> USE DEF Place, Locked, Reconciles, Installs, Commits
<1>0. pc \in [Process -> Place]
  BY DEF TypeOK
<1>1. CASE UNCHANGED vars
  BY <1>1 DEF vars, CycleFits, CycleSoFar, AllOrNothing
<1>2. ASSUME NEW f \in File, HumanStep(f) PROVE CycleFits'
  BY <1>2, HumanLeaves DEF CycleFits, CycleSoFar, AllOrNothing
<1>3. ASSUME NEW p \in Process, Works(p) PROVE CycleFits'
  <2>1. \A q \in Process \ {p} : CycleSoFar(q)'
    BY <1>3, OthersStay, HolderAlone DEF CycleFits, CycleSoFar
  <2> SUFFICES AllOrNothing' /\ CycleSoFar(p)'
    BY <2>1 DEF CycleFits
  <2>2. AllOrNothing /\ CycleSoFar(p)  BY DEF CycleFits
  <2>3. p # Nobody /\ (pc[p] \in Locked <=> lock = p)
    BY DualFSAssumption DEF TypeOK
  <2>4. CASE Reconcile(p)
    <3>1. AfterError(p) \in {"idle", "ready"}  BY DEF AfterError
    <3>2. CASE RecFail(p)
      BY <1>0, <3>1, <3>2 DEF RecFail, ResetBranches, Leave, Goto, CycleSoFar,
                              AllOrNothing, WholeCycles
    <3>3. CASE RecGiveUp(p)
      BY <1>0, <2>2, <3>1, <3>3 DEF RecGiveUp, Leave, Goto, CycleSoFar,
                                    AllOrNothing, WholeCycles
    <3>4. CASE StartCall(p) \/ RecLockBusy(p)
      BY <1>0, <2>2, <2>3, <3>1, <3>4 DEF StartCall, RecLockBusy, Goto, CycleSoFar, AllOrNothing
    <3>5. CASE RecLock(p)
      BY <1>0, <2>3, <3>5 DEF RecLock, TakeLock, Goto, CycleSoFar, AllOrNothing
    <3>6. CASE RecRead(p) \/ RecApply(p)
      BY <1>0, <2>2, <2>3, <3>6 DEF RecRead, RecApply, Goto, CycleSoFar, AllOrNothing
    <3>7. CASE RecStable(p)
      BY <1>0, <2>2, <2>3, <3>7 DEF RecStable, Goto, Leave, CycleSoFar, AllOrNothing, WholeCycles
    <3>8. CASE RecTrusted(p)
      <4>1. cycle = NoCycle  BY <2>2, <3>8 DEF RecTrusted, CycleSoFar
      <4>2. cycle' \in {NoCycle, Made(<<"HUMAN">>, <<>>)}
        BY <3>8, <4>1, CommitAppended, FirstCommit
           DEF RecTrusted, CommitTrustedBranch, NoCycle
      <4> QED  BY <1>0, <2>3, <3>8, <4>2 DEF RecTrusted, Goto, CycleSoFar, AllOrNothing
    <3>9. CASE RecMain(p)
      <4>1. cycle \in {NoCycle, Made(<<"HUMAN">>, <<>>)}
        BY <2>2, <3>9 DEF RecMain, CycleSoFar
      <4>2. cycle' = [cycle EXCEPT !.main = Append(@, "HUMAN")]
        BY <3>9 DEF RecMain, CommitMainBranch
      <4>3. cycle' \in WholeCycles
        <5>1. CASE cycle = NoCycle
          <6>1. cycle' = Made(<<>>, <<"HUMAN">>)
            BY <4>2, <5>1, CommitAppended, FirstCommit DEF NoCycle
          <6> QED  BY <6>1 DEF WholeCycles
        <5>2. CASE cycle = Made(<<"HUMAN">>, <<>>)
          <6>1. cycle' = Made(<<"HUMAN">>, <<"HUMAN">>)
            BY <4>2, <5>2, CommitAppended, FirstCommit
          <6> QED  BY <6>1 DEF WholeCycles
        <5> QED  BY <4>1, <5>1, <5>2
      <4> QED  BY <1>0, <3>9, <4>3 DEF RecMain, Leave, Goto, CycleSoFar, AllOrNothing
    <3> QED
      BY <2>4, <3>2, <3>3, <3>4, <3>5, <3>6, <3>7, <3>8, <3>9 DEF Reconcile
  <2>5. CASE Tool(p)
    BY <1>0, <2>2, <2>5 DEF Tool, ToolWrite, ExecWrite, ToolReturns, Goto, CycleSoFar, AllOrNothing
  <2>6. CASE Install(p)
    BY <1>0, <2>2, <2>3, <2>6
       DEF Install, InstallTake, InstallPut, InstallDiscard, InstallRefuse,
           InstallRestore, InstallFail, Goto, Leave, CycleSoFar, AllOrNothing, WholeCycles
  <2>7. CASE FileCommit(p) /\ ~Install(p)
    <3>1. CASE CommitGiveUp(p)
      BY <1>0, <2>2, <3>1 DEF CommitGiveUp, Leave, Goto, CycleSoFar, AllOrNothing, WholeCycles
    <3>2. CASE CommitFail(p)
      BY <1>0, <3>2 DEF CommitFail, ResetBranches, Leave, Goto, CycleSoFar,
                        AllOrNothing, WholeCycles
    <3>3. CASE CommitScan(p) \/ CommitLockBusy(p)
      BY <1>0, <2>2, <3>3 DEF CommitScan, CommitLockBusy, Goto, CycleSoFar, AllOrNothing
    <3>4. CASE CommitLock(p)
      BY <1>0, <2>3, <3>4 DEF CommitLock, TakeLock, Goto, CycleSoFar, AllOrNothing
    <3>5. CASE CommitRead(p) \/ CommitCheck(p) \/ CommitRecheck(p)
      BY <1>0, <2>2, <2>3, <3>5 DEF CommitRead, CommitCheck, CommitRecheck, Goto,
                                    CycleSoFar, AllOrNothing
    <3>6. CASE CommitTrusted(p)
      <4>1. cycle = NoCycle  BY <2>2, <3>6 DEF CommitTrusted, CycleSoFar
      <4>2. cycle' = Made(<<"TRUSTED">>, <<>>)
        BY <3>6, <4>1, CommitAppended, FirstCommit
           DEF CommitTrusted, CommitTrustedBranch, NoCycle
      <4> QED  BY <1>0, <2>3, <3>6, <4>2 DEF CommitTrusted, Goto, CycleSoFar, AllOrNothing
    <3>7. CASE CommitRestore(p)
      BY <1>0, <2>2, <2>3, <3>7 DEF CommitRestore, Goto, Leave, CycleSoFar,
                                    AllOrNothing, WholeCycles
    <3>8. CASE CommitMainTrusted(p)
      <4>1. cycle = Made(<<"TRUSTED">>, <<>>)
        BY <2>2, <3>8 DEF CommitMainTrusted, CycleSoFar
      <4>2. cycle' = Made(<<"TRUSTED">>, <<"TRUSTED">>)
        BY <3>8, <4>1, CommitAppended, FirstCommit
           DEF CommitMainTrusted, CommitMainBranch
      <4> QED  BY <1>0, <2>3, <3>8, <4>2 DEF CommitMainTrusted, Goto, CycleSoFar, AllOrNothing
    <3>9. CASE CommitMainUntrusted(p)
      <4>1. cycle = Made(<<"TRUSTED">>, <<"TRUSTED">>)
        BY <2>2, <3>9 DEF CommitMainUntrusted, CycleSoFar
      <4>2. cycle' = Made(<<"TRUSTED">>, <<"TRUSTED", "UNTRUSTED">>)
        BY <3>9, <4>1, CommitAppended, SecondCommit
           DEF CommitMainUntrusted, CommitMainBranch
      <4> QED
        BY <1>0, <3>9, <4>2 DEF CommitMainUntrusted, Leave, Goto, CycleSoFar,
                                AllOrNothing, WholeCycles
    <3> QED
      BY <2>7, <3>1, <3>2, <3>3, <3>4, <3>5, <3>6, <3>7, <3>8, <3>9 DEF FileCommit
  <2> QED  BY <1>3, <2>4, <2>5, <2>6, <2>7 DEF Works
<1>4. ASSUME NEW p \in Process, UndoFails(p) PROVE CycleFits'
  <2>1. \A q \in Process : pc'[q] \notin Locked
    <3>1. PICK l \in {"idle", "ready"} : Leave(p, l)  BY <1>4, UndoFailsLeaves
    <3>2. pc'[p] \notin Locked  BY <1>0, <3>1 DEF Leave, Goto
    <3> QED  BY <1>4, <3>2, UndoFailsLeaves
  <2>2. \A q \in Process : CycleSoFar(q)'  BY <2>1 DEF CycleSoFar
  <2>3. cycle' \in PartsOfCycles
    <3>1. pc[p] \in {"recStable", "recApplied", "recTrusted"} \cup Installs \cup Commits \cup {"comMain"}
      BY <1>4 DEF UndoFails, RecUndoFails, InstallUndoFails, CommitUndoFails
    <3>2. CycleSoFar(p)  BY DEF CycleFits
    <3>3. /\ cycle.trusted \in {<<>>, <<"HUMAN">>, <<"TRUSTED">>}
          /\ cycle.main \in {<<>>, <<"TRUSTED">>}
          /\ cycle = Made(cycle.trusted, cycle.main)
      BY <3>1, <3>2 DEF CycleSoFar, NoCycle, Made
    <3>4. CASE InstallUndoFails(p)
      BY <3>3, <3>4 DEF InstallUndoFails, PartsOfCycles, Made
    <3>5. CASE RecUndoFails(p) \/ CommitUndoFails(p)
      <4>1. PICK mainBack \in BOOLEAN, trustedBack \in BOOLEAN : ResetReported(p, mainBack, trustedBack)
        BY <3>5 DEF RecUndoFails, CommitUndoFails
      <4> QED  BY <3>3, <4>1 DEF ResetReported, PartsOfCycles
    <3> QED  BY <1>4, <3>4, <3>5 DEF UndoFails
  <2> QED  BY <2>2, <2>3 DEF CycleFits, AllOrNothing
<1> QED  BY <1>1, <1>2, <1>3, <1>4, NextSteps

\* However many processes run, and whatever step of a handler fails: when the lock
\* is free, both branches have the commits of a whole cycle, or none, or the
\* handler that had it last has reported a rollback that failed. Then either branch
\* may keep part of the cycle, main never the resolved text alone; the next cycle
\* is whole again, or reported in its turn.
THEOREM CyclesAreWhole == Spec => []AllOrNothing
<1>1. Init => CycleFits
  BY DEF Init, CycleFits, CycleSoFar, AllOrNothing, WholeCycles, Installs, Commits
<1>2. TypeOK /\ CycleFits /\ [Next]_vars => CycleFits'
  BY CycleKept
<1>3. CycleFits => AllOrNothing  BY DEF CycleFits
<1> QED  BY <1>1, <1>2, <1>3, TypesAreKept, PTL DEF Spec

---------------------------------------------------------------------------
(***************************************************************************)
(* What a handler remembers after each step: the fields that the step sets *)
(* and those that it leaves.                                               *)
(***************************************************************************)
\* The heads and texts read under the lock, and the listing.
SameRead(p) ==
  /\ job'[p].main = job[p].main /\ job'[p].trusted = job[p].trusted
  /\ job'[p].snap = job[p].snap /\ job'[p].base = job[p].base
  /\ job'[p].listed = job[p].listed

LEMMA SameReadKeeps ==
  ASSUME NEW p, SameRead(p)
  PROVE  Changed(p)' = Changed(p) /\ (\A f \in File : Desired(p, f)' = Desired(p, f))
BY DEF SameRead, Changed, Desired

LEMMA ListedJob ==
  ASSUME TypeOK, NEW p \in Process, NEW listed, job' = [job EXCEPT ![p].listed = listed]
  PROVE  /\ job'[p].main = job[p].main /\ job'[p].trusted = job[p].trusted
         /\ job'[p].snap = job[p].snap /\ job'[p].base = job[p].base
         /\ job'[p].done = job[p].done /\ job'[p].moved = job[p].moved
         /\ job'[p].listed = listed /\ job'[p].todo = job[p].todo
BY DEF TypeOK, Job

LEMMA TodoJob ==
  ASSUME TypeOK, NEW p \in Process, NEW todo, job' = [job EXCEPT ![p].todo = todo]
  PROVE  /\ SameRead(p) /\ job'[p].todo = todo
         /\ job'[p].done = job[p].done /\ job'[p].moved = job[p].moved
BY DEF TypeOK, Job, SameRead

LEMMA ReadJob ==
  ASSUME TypeOK, NEW p \in Process, CommitRead(p)
  PROVE  /\ job'[p].snap = agent /\ job'[p].trusted = trusted /\ job'[p].main = main
         /\ job'[p].done = job[p].done /\ job'[p].moved = job[p].moved
         /\ job'[p].listed = job[p].listed /\ job'[p].todo = job[p].todo
BY DEF TypeOK, Job, CommitRead

LEMMA TakeJob ==
  ASSUME TypeOK, NEW p \in Process, NEW f \in File, InstallTake(p, f)
  PROVE  /\ SameRead(p) /\ job'[p].moved = [file |-> f, text |-> human[f]]
         /\ job'[p].done = job[p].done /\ job'[p].todo = job[p].todo
BY DEF TypeOK, Job, SameRead, InstallTake

LEMMA PutJob ==
  ASSUME TypeOK, NEW p \in Process, InstallPut(p)
  PROVE  /\ SameRead(p) /\ job'[p].moved = None
         /\ job'[p].done = job[p].done \cup {job[p].moved.file}
         /\ job'[p].todo = job[p].todo \ {job[p].moved.file}
BY DEF TypeOK, Job, SameRead, InstallPut

LEMMA DropJob ==
  ASSUME TypeOK, NEW p \in Process, InstallDiscard(p) \/ InstallRestore(p)
  PROVE  /\ SameRead(p) /\ job'[p].moved = None
         /\ job'[p].done = job[p].done /\ job'[p].todo = job[p].todo \ {job[p].moved.file}
BY DEF TypeOK, Job, SameRead, InstallDiscard, InstallRestore

\* The steps that remember nothing new.
LEMMA PlainJob ==
  ASSUME NEW p, UNCHANGED job
  PROVE  /\ SameRead(p) /\ job'[p].todo = job[p].todo
         /\ job'[p].done = job[p].done /\ job'[p].moved = job[p].moved
BY DEF SameRead

---------------------------------------------------------------------------
(***************************************************************************)
(* The heads that were read are the heads until the process commits, and   *)
(* what is installed is what git status listed.                            *)
(***************************************************************************)
HeadsReadBy(p) ==
  /\ pc[p] \in Reconciles \cup {"comRead"} \cup Installs \cup Commits => job[p].main = main
  /\ pc[p] \in (Reconciles \ {"recTrusted"}) \cup {"comRead"} \cup Installs =>
       job[p].trusted = trusted

HeadsRead == \A p \in Process : HeadsReadBy(p)

LEMMA HeadsReadKept ==
  ASSUME TypeOK, HeadsRead, [Next]_vars
  PROVE  HeadsRead'
<1> USE DEF Place, Locked, Reconciles, Installs, Commits
<1>0. pc \in [Process -> Place]
  BY DEF TypeOK
<1>1. CASE UNCHANGED vars
  BY <1>1 DEF vars, HeadsRead, HeadsReadBy
<1>2. ASSUME NEW f \in File, HumanStep(f) PROVE HeadsRead'
  BY <1>2, HumanLeaves DEF HeadsRead, HeadsReadBy
<1>3. ASSUME NEW p \in Process, Works(p) PROVE HeadsRead'
  <2>1. \A q \in Process \ {p} : HeadsReadBy(q)'
    BY <1>3, OthersStay, HolderAlone DEF HeadsRead, HeadsReadBy
  <2> SUFFICES HeadsReadBy(p)'
    BY <2>1 DEF HeadsRead
  <2>2. HeadsReadBy(p)  BY DEF HeadsRead
  <2>3. ASSUME NEW l \in {"idle", "recListed", "ready", "ran", "comListed",
                          "recLocked", "comLocked", "comMain"}, Goto(p, l)
        PROVE  HeadsReadBy(p)'
    BY <1>0, <2>3 DEF Goto, HeadsReadBy
  <2>4. CASE Reconcile(p)
    <3>1. AfterError(p) \in {"idle", "ready"}  BY DEF AfterError
    <3>2. CASE \E l \in {"idle", "recListed", "ready", "recLocked"} : Goto(p, l)
      BY <2>3, <3>2
    <3>3. CASE RecRead(p)
      BY <3>3, RecReadJob DEF RecRead, HeadsReadBy
    <3>4. CASE RecStable(p) /\ ~Leave(p, "ready")
      <4>1. SameRead(p)  BY <3>4, TodoJob DEF RecStable
      <4> QED  BY <1>0, <2>2, <3>4, <4>1 DEF RecStable, Goto, HeadsReadBy, SameRead
    <3>5. CASE RecApply(p) \/ RecTrusted(p)
      BY <1>0, <2>2, <3>5 DEF RecApply, RecTrusted, Goto, HeadsReadBy
    <3> QED
      BY <2>4, <3>1, <3>2, <3>3, <3>4, <3>5
         DEF Reconcile, StartCall, RecLock, RecLockBusy, RecStable, RecMain, RecFail,
             RecGiveUp, Leave
  <2>5. CASE Tool(p)
    BY <1>0, <2>2, <2>5 DEF Tool, ToolWrite, ExecWrite, ToolReturns, Goto, HeadsReadBy
  <2>6. CASE Install(p)
    <3>1. CASE InstallFail(p)
      BY <2>3, <3>1 DEF InstallFail, Leave
    <3>2. CASE ~InstallFail(p)
      <4>1. SameRead(p)
        BY <2>6, <3>2, TakeJob, PutJob, DropJob, PlainJob DEF Install, InstallRefuse
      <4>2. UNCHANGED <<main, trusted>> /\ pc[p] \in {"installing", "restoring"}
            /\ pc'[p] \in {"installing", "restoring"}
        BY <1>0, <2>6, <3>2
           DEF Install, InstallTake, InstallPut, InstallDiscard, InstallRefuse,
               InstallRestore, Goto
      <4> QED  BY <2>2, <4>1, <4>2 DEF HeadsReadBy, SameRead
    <3> QED  BY <3>1, <3>2
  <2>7. CASE FileCommit(p) /\ ~Install(p)
    <3>1. CASE \E l \in {"idle", "comListed", "comLocked", "comMain"} : Goto(p, l)
      BY <2>3, <3>1
    <3>2. CASE CommitRead(p)
      <4>1. job'[p].trusted = trusted /\ job'[p].main = main  BY <3>2, ReadJob
      <4> QED  BY <1>0, <3>2, <4>1 DEF CommitRead, HeadsReadBy
    <3>3. CASE CommitCheck(p) \/ CommitRecheck(p)
      <4>1. SameRead(p)  BY <3>3, TodoJob DEF CommitCheck, CommitRecheck
      <4> QED
        BY <1>0, <2>2, <3>3, <4>1 DEF CommitCheck, CommitRecheck, Goto, HeadsReadBy, SameRead
    <3>4. CASE CommitTrusted(p) \/ (CommitRestore(p) /\ ~Leave(p, "idle"))
      BY <1>0, <2>2, <3>4 DEF CommitTrusted, CommitRestore, Goto, HeadsReadBy
    <3> QED
      BY <2>7, <3>1, <3>2, <3>3, <3>4
         DEF FileCommit, CommitScan, CommitLock, CommitLockBusy, CommitGiveUp,
             CommitRestore, CommitMainTrusted, CommitMainUntrusted, CommitFail, Leave
  <2> QED  BY <1>3, <2>4, <2>5, <2>6, <2>7 DEF Works
<1>4. ASSUME NEW p \in Process, UndoFails(p) PROVE HeadsRead'
  <2>1. \A q \in Process : pc'[q] \notin Locked
    <3>1. PICK l \in {"idle", "ready"} : Leave(p, l)  BY <1>4, UndoFailsLeaves
    <3>2. pc'[p] \notin Locked  BY <1>0, <3>1 DEF Leave, Goto
    <3> QED  BY <1>4, <3>2, UndoFailsLeaves
  <2> QED  BY <2>1 DEF HeadsRead, HeadsReadBy
<1> QED  BY <1>1, <1>2, <1>3, <1>4, NextSteps

InstallOfChangedBy(p) ==
  /\ job[p].done # {} => pc[p] \in Installs \cup Commits \cup {"comMain"}
  /\ pc[p] \in Installs \cup Commits \cup {"comMain"} =>
       job[p].done \cup job[p].todo \subseteq Changed(p)
  /\ job[p].moved # None => job[p].moved.file \in Changed(p)

InstallOfChanged == \A p \in Process : InstallOfChangedBy(p)

LEMMA InstallOfChangedKept ==
  ASSUME TypeOK, BackupHeld, InstallOfChanged, [Next]_vars
  PROVE  InstallOfChanged'
<1> USE DEF Place, Locked, Reconciles, Installs, Commits
<1>0. pc \in [Process -> Place]
  BY DEF TypeOK
<1>1. CASE UNCHANGED vars
  BY <1>1 DEF vars, InstallOfChanged, InstallOfChangedBy, Changed
<1>2. ASSUME NEW f \in File, HumanStep(f) PROVE InstallOfChanged'
  BY <1>2, HumanLeaves DEF InstallOfChanged, InstallOfChangedBy, Changed
<1>3. ASSUME NEW p \in Process, Works(p) PROVE InstallOfChanged'
  <2>1. \A q \in Process \ {p} : InstallOfChangedBy(q)'
    BY <1>3, OthersStay DEF InstallOfChanged, InstallOfChangedBy, Changed
  <2> SUFFICES InstallOfChangedBy(p)'
    BY <2>1 DEF InstallOfChanged
  <2>2. InstallOfChangedBy(p) /\ BackupHeldBy(p)
    BY BackupByOne DEF InstallOfChanged
  <2>3. ASSUME NEW l \in {"idle", "ready"}, Leave(p, l) PROVE InstallOfChangedBy(p)'
    BY <2>3, LeftEmpty DEF InstallOfChangedBy
  <2>4. ASSUME NEW l \in {"idle", "ready"}, Goto(p, l), job' = [job EXCEPT ![p] = NoJob]
        PROVE  InstallOfChangedBy(p)'
    BY <1>0, <2>4, NoJobEmpty DEF TypeOK, Goto, InstallOfChangedBy
  <2>5. ASSUME pc[p] \notin Installs \cup Commits \cup {"comMain"},
               pc'[p] \notin Installs \cup Commits \cup {"comMain"},
               job'[p].done = job[p].done, job'[p].moved = job[p].moved
        PROVE  InstallOfChangedBy(p)'
    BY <2>2, <2>5 DEF InstallOfChangedBy, BackupHeldBy
  <2>6. ASSUME SameRead(p), job'[p].done = job[p].done, job'[p].moved = job[p].moved,
               pc'[p] \in Installs \cup Commits \cup {"comMain"},
               job'[p].todo \cup job[p].done \subseteq Changed(p)
        PROVE  InstallOfChangedBy(p)'
    BY <2>2, <2>6, SameReadKeeps DEF InstallOfChangedBy
  <2>7. CASE Reconcile(p)
    <3>1. AfterError(p) \in {"idle", "ready"}  BY DEF AfterError
    <3>2. CASE StartCall(p)
      <4>1. job'[p].done = job[p].done /\ job'[p].moved = job[p].moved
        BY <3>2, ListedJob DEF StartCall
      <4> QED  BY <1>0, <2>5, <3>2, <4>1 DEF StartCall, Goto
    <3>3. CASE RecRead(p)
      BY <2>5, <3>3, RecReadJob
    <3>4. CASE RecStable(p) /\ ~Leave(p, "ready")
      <4>1. job'[p].done = job[p].done /\ job'[p].moved = job[p].moved
        BY <3>4, TodoJob DEF RecStable
      <4> QED  BY <1>0, <2>5, <3>4, <4>1 DEF RecStable, Goto
    <3>5. CASE RecLock(p) \/ RecApply(p) \/ RecTrusted(p)
      BY <1>0, <2>5, <3>5 DEF RecLock, RecApply, RecTrusted, Goto
    <3>6. CASE RecLockBusy(p)
      BY <2>4, <3>1, <3>6 DEF RecLockBusy
    <3> QED
      BY <2>3, <2>7, <3>1, <3>2, <3>3, <3>4, <3>5, <3>6
         DEF Reconcile, RecStable, RecMain, RecFail, RecGiveUp
  <2>8. CASE Tool(p)
    BY <1>0, <2>5, <2>8 DEF Tool, ToolWrite, ExecWrite, ToolReturns, Goto
  <2>9. CASE Install(p)
    <3>1. CASE InstallFail(p)
      BY <2>3, <3>1 DEF InstallFail
    <3>2. ASSUME NEW f \in File, InstallTake(p, f) PROVE InstallOfChangedBy(p)'
      <4>1. /\ SameRead(p) /\ job'[p].moved = [file |-> f, text |-> human[f]]
            /\ job'[p].done = job[p].done /\ job'[p].todo = job[p].todo
        BY <3>2, TakeJob
      <4>2. UNCHANGED pc /\ pc[p] = "installing" /\ f \in job[p].todo
        BY <3>2 DEF InstallTake
      <4> QED  BY <2>2, <4>1, <4>2, SameReadKeeps DEF InstallOfChangedBy
    <3>3. CASE InstallPut(p)
      <4>1. UNCHANGED pc /\ pc[p] = "installing" /\ job[p].moved # None
        BY <3>3 DEF InstallPut
      <4> QED  BY <2>2, <3>3, <4>1, PutJob, SameReadKeeps DEF InstallOfChangedBy
    <3>4. CASE InstallDiscard(p) \/ InstallRestore(p)
      <4>1. pc[p] \in Installs /\ pc'[p] = "installing"
        BY <1>0, <3>4 DEF InstallDiscard, InstallRestore, Goto
      <4> QED  BY <2>2, <3>4, <4>1, DropJob, SameReadKeeps DEF InstallOfChangedBy
    <3>5. CASE InstallRefuse(p)
      <4>1. pc[p] \in Installs /\ pc'[p] = "restoring" /\ UNCHANGED job
        BY <1>0, <3>5 DEF InstallRefuse, Goto
      <4> QED  BY <2>2, <4>1 DEF InstallOfChangedBy, Changed
    <3> QED  BY <2>9, <3>1, <3>2, <3>3, <3>4, <3>5 DEF Install
  <2>10. CASE FileCommit(p) /\ ~Install(p)
    <3>1. CASE CommitScan(p)
      <4>1. job'[p].done = job[p].done /\ job'[p].moved = job[p].moved
        BY <3>1, ListedJob DEF CommitScan
      <4> QED  BY <1>0, <2>5, <3>1, <4>1 DEF CommitScan, Goto
    <3>2. CASE CommitLock(p)
      BY <1>0, <2>5, <3>2 DEF CommitLock, Goto
    <3>3. CASE CommitLockBusy(p)
      BY <2>4, <3>3 DEF CommitLockBusy
    <3>4. CASE CommitRead(p)
      <4>1. pc[p] = "comLocked" /\ pc'[p] = "comRead"  BY <1>0, <3>4 DEF CommitRead, Goto
      <4> QED  BY <2>5, <3>4, <4>1, ReadJob
    <3>5. CASE CommitCheck(p)
      <4>1. pc[p] = "comRead" /\ pc'[p] = "installing"  BY <1>0, <3>5 DEF CommitCheck, Goto
      <4>2. /\ SameRead(p) /\ job'[p].done = job[p].done /\ job'[p].moved = job[p].moved
            /\ job'[p].todo \subseteq Changed(p)
        BY <3>5, TodoJob DEF CommitCheck
      <4>3. job[p].done = {}  BY <2>2, <4>1 DEF InstallOfChangedBy
      <4> QED  BY <2>6, <4>1, <4>2, <4>3
    <3>6. CASE CommitRecheck(p)
      <4>1. pc[p] = "installing" /\ pc'[p] = "installed"  BY <1>0, <3>6 DEF CommitRecheck, Goto
      <4>2. /\ SameRead(p) /\ job'[p].done = job[p].done /\ job'[p].moved = job[p].moved
            /\ job'[p].todo \subseteq job[p].done
        BY <3>6, TodoJob DEF CommitRecheck
      <4>3. job[p].done \subseteq Changed(p)  BY <2>2, <4>1 DEF InstallOfChangedBy
      <4> QED  BY <2>6, <4>1, <4>2, <4>3
    <3>7. CASE CommitTrusted(p) \/ CommitMainTrusted(p) \/ (CommitRestore(p) /\ ~Leave(p, "idle"))
      <4>1. /\ pc[p] \in Installs \cup Commits \cup {"comMain"} /\ UNCHANGED job
            /\ pc'[p] \in Installs \cup Commits \cup {"comMain"}
        BY <1>0, <3>7 DEF CommitTrusted, CommitMainTrusted, CommitRestore, Goto
      <4> QED  BY <2>2, <4>1 DEF InstallOfChangedBy, Changed
    <3> QED
      BY <2>3, <2>10, <3>1, <3>2, <3>3, <3>4, <3>5, <3>6, <3>7
         DEF FileCommit, CommitGiveUp, CommitRestore, CommitMainUntrusted, CommitFail
  <2> QED  BY <1>3, <2>7, <2>8, <2>9, <2>10 DEF Works
<1>4. ASSUME NEW p \in Process, UndoFails(p) PROVE InstallOfChanged'
  <2>1. \A q \in Process \ {p} : InstallOfChangedBy(q)'
    BY <1>4, UndoFailsLeaves DEF InstallOfChanged, InstallOfChangedBy, Changed
  <2>2. PICK l \in {"idle", "ready"} : Leave(p, l)  BY <1>4, UndoFailsLeaves
  <2>3. InstallOfChangedBy(p)'  BY <2>2, LeftEmpty DEF InstallOfChangedBy
  <2> QED  BY <2>1, <2>3 DEF InstallOfChanged
<1> QED  BY <1>1, <1>2, <1>3, <1>4, NextSteps

---------------------------------------------------------------------------
(***************************************************************************)
(* What the human has saved.  The hazard is the window of an installation  *)
(* between the rename of the human's file and the link of the new text.    *)
(***************************************************************************)
\* Only a commit of the main branch may hold what is still a draft, and only
\* until the cycle it is in ends.
DraftsOpen ==
  (\A p \in Process : pc[p] # "comMain") => \A f \in File : draft[f] # main[f].text

\* A draft of the file that is being installed is the backup, as long as no file
\* is in its place, or what has been saved there since.
MovedDraftsBy(p) ==
  LET m == job[p].moved IN
  m # None =>
    \/ draft[m.file] = None
    \/ human[m.file] = Absent /\ draft[m.file] = m.text
    \/ pc[p] = "installing" /\ human[m.file] # Absent /\ draft[m.file] = human[m.file]

MovedDrafts == \A p \in Process : MovedDraftsBy(p)

\* What has been installed is no draft, so taking it back loses none.
DoneDrafts ==
  \A p \in Process : \A f \in job[p].done : draft[f] # Desired(p, f)

DraftsHeld == DraftsSurvive /\ MovedDrafts /\ DoneDrafts

LEMMA OneHolder ==
  ASSUME TypeOK, NEW p \in Process, NEW q \in Process, pc[p] \in Locked, pc[q] \in Locked
  PROVE  p = q
BY DEF TypeOK

LEMMA OneBackup ==
  ASSUME TypeOK, BackupHeld, NEW p \in Process, pc[p] \in Locked, NEW q \in Process, q # p
  PROVE  job[q].moved = None
BY OneHolder DEF BackupHeld, Locked

LEMMA NotText ==
  /\ \A t \in Text : t # None
  /\ TypeOK => /\ \A f \in File : human[f] # None /\ main[f].text # None
               /\ \A p \in Process, f \in File : Desired(p, f) # None
<1>1. \A t \in Text : t # None  BY TextAssumption
<1>2. ASSUME TypeOK
      PROVE  /\ \A f \in File : human[f] \in Text /\ main[f].text \in Text
             /\ \A p \in Process, f \in File : Desired(p, f) \in Text
  BY <1>2, ResolvedIsText DEF TypeOK, Blamed, Job, Desired
<1> QED  BY <1>1, <1>2

LEMMA DraftsOpenKept ==
  ASSUME TypeOK, BackupHeld, HeadsRead, DraftsOpen, [Next]_vars
  PROVE  DraftsOpen'
<1> USE DEF Place, Locked, Reconciles, Installs, Commits
<1>0. pc \in [Process -> Place] /\ main \in [File -> Blamed]
      /\ draft \in [File -> Text \cup {None}]
  BY DEF TypeOK
<1>1. CASE UNCHANGED vars
  BY <1>1 DEF vars, DraftsOpen
<1>2. ASSUME NEW f \in File, HumanStep(f) PROVE DraftsOpen'
  <2>1. ASSUME NEW t, HumanSaves(f, t) PROVE DraftsOpen'
    BY <1>0, <2>1, NotText DEF HumanSaves, DraftsOpen
  <2> QED
    BY <1>2, <2>1 DEF HumanStep, HumanTypes, HumanDeletes, HumanAmends, HumanUndoes
<1>3. ASSUME NEW p \in Process, Works(p) PROVE DraftsOpen'
  <2>1. ASSUME RecordDrafts, main' \in [File -> Blamed] PROVE DraftsOpen'
    <3>1. \A f \in File : main'[f].text # None
      BY <2>1, TextAssumption DEF Blamed
    <3> QED  BY <2>1, <3>1 DEF RecordDrafts, DraftsOpen
  <2>2. CASE RecordDrafts
    <3>1. TypeOK'  BY TypesKept
    <3> QED  BY <2>1, <2>2, <3>1 DEF TypeOK
  <2>3. CASE \E f \in File : ExecWrite(p, f)
    BY <1>0, <2>3, NotText DEF ExecWrite, DraftsOpen
  <2>4. ASSUME UNCHANGED <<main, draft>>, pc[p] = "comMain" => pc'[p] = "comMain"
        PROVE  DraftsOpen'
    BY <1>3, <2>4, OthersStay DEF DraftsOpen
  <2>5. CASE CommitMainTrusted(p)
    BY <1>0, <2>5 DEF CommitMainTrusted, Goto, DraftsOpen
  <2>6. CASE RecFail(p)
    <3>1. main' = main /\ draft' = draft /\ pc[p] # "comMain"
      BY <2>6 DEF RecFail, ResetBranches, HeadsRead, HeadsReadBy
    <3> QED  BY <2>4, <3>1
  <2>7. CASE Reconcile(p) /\ ~RecFail(p) /\ ~RecordDrafts
    <3>1. UNCHANGED <<main, draft>> /\ pc[p] # "comMain"
      BY <2>7
         DEF Reconcile, StartCall, RecLock, RecLockBusy, RecRead, RecStable, RecApply,
             RecTrusted, RecMain, RecGiveUp
    <3> QED  BY <2>4, <3>1
  <2>8. CASE Tool(p) /\ ~\E f \in File : ExecWrite(p, f)
    <3>1. UNCHANGED <<main, draft>> /\ pc[p] # "comMain"
      BY <2>8 DEF Tool, ToolWrite, ToolReturns
    <3> QED  BY <2>4, <3>1
  <2>9. CASE Install(p)
    <3>1. UNCHANGED <<main, draft>> /\ pc[p] # "comMain"
      BY <2>9
         DEF Install, InstallTake, InstallPut, InstallDiscard, InstallRefuse,
             InstallRestore, InstallFail
    <3> QED  BY <2>4, <3>1
  <2>10. CASE FileCommit(p) /\ ~Install(p) /\ ~CommitMainTrusted(p) /\ ~RecordDrafts
    <3>1. UNCHANGED <<main, draft>> /\ pc[p] # "comMain"
      BY <2>10
         DEF FileCommit, CommitScan, CommitLock, CommitLockBusy, CommitRead, CommitCheck,
             CommitGiveUp, CommitRecheck, CommitTrusted, CommitRestore,
             CommitMainUntrusted, CommitFail
    <3> QED  BY <2>4, <3>1
  <2> QED
    BY <1>3, <2>2, <2>3, <2>5, <2>6, <2>7, <2>8, <2>9, <2>10 DEF Works
<1>4. ASSUME NEW p \in Process, UndoFails(p) PROVE DraftsOpen'
  <2>1. CASE CommitUndoFails(p)
    <3>1. \A f \in File : main'[f].text # None
      BY <1>4, TypesKept, TextAssumption DEF Next, TypeOK, Blamed
    <3> QED  BY <2>1, <3>1 DEF CommitUndoFails, RecordDrafts, DraftsOpen
  <2>2. CASE RecUndoFails(p) \/ InstallUndoFails(p)
    <3>1. UNCHANGED <<main, draft>> /\ pc[p] # "comMain"
      BY <2>2 DEF RecUndoFails, InstallUndoFails, ResetReported, HeadsRead, HeadsReadBy
    <3>2. \A q \in Process : pc[q] # "comMain"
      BY <1>4, <3>1, UndoFailsLeaves
    <3> QED  BY <3>1, <3>2 DEF DraftsOpen
  <2> QED  BY <1>4, <2>1, <2>2 DEF UndoFails
<1> QED  BY <1>1, <1>2, <1>3, <1>4, NextSteps

\* Steps that move no text and begin no installation.
LEMMA QuietDrafts ==
  ASSUME DraftsHeld, UNCHANGED human,
         \A f \in File : draft'[f] = draft[f] \/ draft'[f] = None,
         \A p \in Process :
           /\ job'[p].moved = job[p].moved
           /\ job[p].moved # None => job[p].moved.file \in File /\ pc'[p] = pc[p]
           /\ \/ job'[p].done = {}
              \/ job'[p].done = job[p].done /\ job'[p].snap = job[p].snap,
         \A p \in Process : \A f \in job[p].done :
           f \in File /\ Desired(p, f)' # None
  PROVE  DraftsHeld'
<1>1. DraftsSurvive'  BY DEF DraftsHeld, DraftsSurvive
<1>2. MovedDrafts'  BY DEF DraftsHeld, MovedDrafts, MovedDraftsBy
<1>3. DoneDrafts'
  <2> SUFFICES ASSUME NEW p \in Process, NEW f \in job'[p].done
               PROVE  draft'[f] # Desired(p, f)'
    BY DEF DoneDrafts
  <2>1. f \in job[p].done /\ job'[p].snap = job[p].snap  OBVIOUS
  <2>2. Desired(p, f)' = Desired(p, f)  BY <2>1 DEF Desired
  <2> QED  BY <2>1, <2>2 DEF DraftsHeld, DoneDrafts
<1> QED  BY <1>1, <1>2, <1>3 DEF DraftsHeld

LEMMA QuietSteps ==
  ASSUME TypeOK, BackupHeld, InstallOfChanged, DraftsHeld,
         NEW p \in Process, Works(p), ~Install(p), ~CommitFail(p),
         \A f \in File : ~ExecWrite(p, f)
  PROVE  DraftsHeld'
<1> USE DEF Place, Locked, Reconciles, Installs, Commits
<1>0. /\ pc \in [Process -> Place] /\ job \in [Process -> Job]
      /\ draft \in [File -> Text \cup {None}]
  BY DEF TypeOK
<1>1. TypeOK'  BY TypesKept DEF Works, Next
<1>2. \A q \in Process, f \in File : Desired(q, f)' # None
  <2>1. \A q \in Process, f \in File : job'[q].snap[f] \in Text  BY <1>1 DEF TypeOK, Job
  <2>2. \A t \in Text : Resolve(t) # None  BY ResolvedIsText, NotText
  <2> QED  BY <2>1, <2>2 DEF Desired
<1>3. \A q \in Process : job[q].done \subseteq File
      /\ (job[q].moved # None => job[q].moved.file \in File)
  BY <1>0 DEF Job
<1>4. UNCHANGED human /\ \A f \in File : draft'[f] = draft[f] \/ draft'[f] = None
  <2>1. CASE Reconcile(p)
    BY <2>1
       DEF Reconcile, StartCall, RecLock, RecLockBusy, RecRead, RecStable, RecApply,
           RecTrusted, RecMain, RecFail, RecGiveUp, RecordDrafts
  <2>2. CASE Tool(p)
    BY <2>2 DEF Tool, ToolWrite, ToolReturns
  <2>3. CASE FileCommit(p)
    BY <2>3
       DEF FileCommit, CommitScan, CommitLock, CommitLockBusy, CommitRead, CommitCheck,
           CommitGiveUp, CommitRecheck, CommitTrusted, CommitRestore,
           CommitMainTrusted, CommitMainUntrusted, RecordDrafts
  <2> QED  BY <2>1, <2>2, <2>3 DEF Works
<1>5. /\ job'[p].moved = job[p].moved
      /\ job[p].moved # None => pc'[p] = pc[p]
      /\ \/ job'[p].done = {}
         \/ job'[p].done = job[p].done /\ job'[p].snap = job[p].snap
  <2>1. BackupHeldBy(p) /\ InstallOfChangedBy(p)  BY BackupByOne DEF InstallOfChanged
  <2>2. CASE pc[p] \in {"installing", "restoring"}
    <3>1. CommitRecheck(p)
      BY <2>2
         DEF Works, Reconcile, StartCall, RecLock, RecLockBusy, RecRead, RecStable, RecApply,
             RecTrusted, RecMain, RecFail, RecGiveUp, Tool, ToolWrite, ToolReturns,
             FileCommit, CommitScan, CommitLock, CommitLockBusy, CommitRead, CommitCheck,
             CommitGiveUp, CommitRecheck, CommitTrusted, CommitRestore,
             CommitMainTrusted, CommitMainUntrusted
    <3>2. SameRead(p) /\ job'[p].done = job[p].done /\ job'[p].moved = job[p].moved
          /\ job[p].moved = None
      BY <3>1, TodoJob DEF CommitRecheck
    <3> QED  BY <3>2 DEF SameRead
  <2>3. CASE pc[p] \notin {"installing", "restoring"}
    <3>1. job[p].moved = None  BY <2>1, <2>3 DEF BackupHeldBy
    <3>2. ASSUME NEW l \in Place, Leave(p, l)
          PROVE  job'[p].moved = None /\ job'[p].done = {}
      BY <3>2, LeftEmpty
    <3>3. ASSUME NEW l \in Place, job' = [job EXCEPT ![p] = NoJob]
          PROVE  job'[p].moved = None /\ job'[p].done = {}
      BY <1>0, <3>3, NoJobEmpty
    <3>4. CASE UNCHANGED job
      BY <3>1, <3>4
    <3>5. CASE \E todo : job' = [job EXCEPT ![p].todo = todo]
      BY <3>1, <3>5, TodoJob DEF SameRead
    <3>6. CASE \E listed : job' = [job EXCEPT ![p].listed = listed]
      BY <3>1, <3>6, ListedJob
    <3>7. CASE RecRead(p) \/ CommitRead(p)
      <4>1. job[p].done = {}
        BY <2>1, <3>7 DEF RecRead, CommitRead, InstallOfChangedBy
      <4> QED  BY <3>1, <3>7, <4>1, RecReadJob, ReadJob
    <3>8. AfterError(p) \in Place  BY DEF AfterError
    <3>9. CASE Reconcile(p)
      BY <3>1, <3>2, <3>3, <3>4, <3>5, <3>6, <3>7, <3>8, <3>9
         DEF Reconcile, StartCall, RecLock, RecLockBusy, RecStable, RecApply,
             RecTrusted, RecMain, RecFail, RecGiveUp
    <3>10. CASE Tool(p)
      BY <3>4, <3>10 DEF Tool, ToolWrite, ToolReturns
    <3>11. CASE FileCommit(p)
      BY <3>1, <3>2, <3>3, <3>4, <3>5, <3>6, <3>7, <3>11
         DEF FileCommit, CommitScan, CommitLock, CommitLockBusy, CommitCheck,
             CommitGiveUp, CommitRecheck, CommitTrusted, CommitRestore,
             CommitMainTrusted, CommitMainUntrusted
    <3> QED  BY <3>9, <3>10, <3>11 DEF Works
  <2> QED  BY <2>2, <2>3
<1>6. \A q \in Process \ {p} : pc'[q] = pc[q] /\ job'[q] = job[q]
  BY OthersStay
<1> QED  BY <1>2, <1>3, <1>4, <1>5, <1>6, QuietDrafts

\* The human saves: not while a backup is moved back.
LEMMA HumanDrafts ==
  ASSUME QuietRestore, TypeOK, BackupHeld, DraftsHeld, NEW f \in File, NEW t \in Text,
         HumanSaves(f, t)
  PROVE  DraftsHeld'
<1>0. /\ human \in [File -> Text] /\ draft \in [File -> Text \cup {None}]
      /\ job \in [Process -> Job]
  BY DEF TypeOK
<1>1. /\ human' = [human EXCEPT ![f] = t] /\ UNCHANGED <<pc, job>>
      /\ draft' = [draft EXCEPT ![f] =
           IF t = main[f].text \/ BeingInstalled(f, t) THEN None ELSE t]
      /\ \A p \in Process : pc[p] # "restoring"
  BY DEF HumanSaves
<1>2. draft'[f] # None => draft'[f] = t /\ ~BeingInstalled(f, t)
  BY <1>0, <1>1
<1>3. \A g \in File \ {f} : human'[g] = human[g] /\ draft'[g] = draft[g]
  BY <1>0, <1>1
<1>4. human'[f] = t  BY <1>0, <1>1
<1>5. DraftsSurvive'
  BY <1>1, <1>2, <1>3, <1>4 DEF DraftsHeld, DraftsSurvive
<1>6. MovedDrafts'
  <2> SUFFICES ASSUME NEW p \in Process, job[p].moved # None PROVE MovedDraftsBy(p)'
    BY <1>1 DEF MovedDrafts, MovedDraftsBy
  <2>1. job[p].moved.file \in File /\ pc[p] = "installing"
    BY <1>0, <1>1 DEF Job, BackupHeld
  <2>2. CASE job[p].moved.file = f
    <3>1. draft'[f] # None => t # Absent
      BY <1>2, <2>2 DEF BeingInstalled
    <3> QED  BY <1>1, <1>2, <1>4, <2>1, <2>2, <3>1 DEF MovedDraftsBy
  <2>3. CASE job[p].moved.file # f
    <3>1. MovedDraftsBy(p)  BY DEF DraftsHeld, MovedDrafts
    <3> QED  BY <1>1, <1>3, <2>1, <2>3, <3>1 DEF MovedDraftsBy
  <2> QED  BY <2>2, <2>3
<1>7. DoneDrafts'
  <2> SUFFICES ASSUME NEW p \in Process, NEW g \in job[p].done
               PROVE  draft'[g] # Desired(p, g)
    BY <1>1 DEF DoneDrafts, Desired
  <2>1. g \in File /\ Desired(p, g) # None  BY <1>0, NotText DEF Job
  <2>2. CASE g = f
    <3>1. draft'[f] # None => t # Desired(p, f)
      BY <1>2, <2>2 DEF BeingInstalled, Desired
    <3> QED  BY <1>2, <2>1, <2>2, <3>1
  <2>3. CASE g # f
    BY <1>3, <2>1, <2>3 DEF DraftsHeld, DoneDrafts
  <2> QED  BY <2>2, <2>3
<1> QED  BY <1>5, <1>6, <1>7 DEF DraftsHeld

\* A command in the Human view was told to replace the file.
LEMMA ExecDrafts ==
  ASSUME TypeOK, DraftsHeld, NEW p \in Process, NEW f \in File, ExecWrite(p, f)
  PROVE  DraftsHeld'
<1>0. /\ human \in [File -> Text] /\ draft \in [File -> Text \cup {None}]
      /\ job \in [Process -> Job]
  BY DEF TypeOK
<1>1. /\ \A g \in File \ {f} : human'[g] = human[g] /\ draft'[g] = draft[g]
      /\ draft'[f] = None /\ UNCHANGED <<pc, job>>
  BY <1>0 DEF ExecWrite
<1>2. \A q \in Process : job[q].done \subseteq File
      /\ (job[q].moved # None => job[q].moved.file \in File)
  BY <1>0 DEF Job
<1>3. DraftsSurvive'  BY <1>1 DEF DraftsHeld, DraftsSurvive
<1>4. MovedDrafts'  BY <1>1, <1>2 DEF DraftsHeld, MovedDrafts, MovedDraftsBy
<1>5. DoneDrafts'
  <2> SUFFICES ASSUME NEW q \in Process, NEW g \in job[q].done
               PROVE  draft'[g] # Desired(q, g)
    BY <1>1 DEF DoneDrafts, Desired
  <2> QED  BY <1>1, <1>2, NotText DEF DraftsHeld, DoneDrafts
<1> QED  BY <1>3, <1>4, <1>5 DEF DraftsHeld

\* What is put back is what was installed, and no draft.
LEMMA ReinstalledDrafts ==
  ASSUME TypeOK, DraftsHeld, NEW f \in File, NEW p \in Process,
         \A q \in Process : job[q].moved = None, draft[f] # None
  PROVE  Reinstalled(p)[f] = draft[f]
<1>1. human[f] = draft[f]
  <2>1. draft[f] \in Text  BY DEF TypeOK
  <2>2. [file |-> f, text |-> draft[f]] # None  BY <2>1, TextAssumption
  <2> QED  BY <2>2 DEF DraftsHeld, DraftsSurvive
<1>2. f \in job[p].done => human[f] # Desired(p, f)
  BY <1>1 DEF DraftsHeld, DoneDrafts
<1> QED  BY <1>1, <1>2 DEF Reinstalled

LEMMA UndoneDrafts ==
  ASSUME TypeOK, BackupHeld, DraftsHeld, NEW p \in Process,
         InstallFail(p) \/ CommitFail(p) \/ UndoFails(p)
  PROVE  DraftsHeld'
<1>0. /\ pc[p] \in Locked /\ (\E l \in {"idle", "ready"} : Leave(p, l))
      /\ job[p].moved = None
      /\ \A f \in File : draft'[f] = draft[f] \/ draft'[f] = None
  <2>1. CASE InstallFail(p) \/ CommitFail(p)
    BY <2>1 DEF InstallFail, CommitFail, RecordDrafts, Locked, BackupHeld
  <2>2. CASE UndoFails(p)
    <3>1. \A f \in File : draft'[f] = draft[f] \/ draft'[f] = None
      BY <2>2 DEF UndoFails, RecUndoFails, InstallUndoFails, CommitUndoFails, RecordDrafts
    <3> QED  BY <2>2, <3>1, UndoFailsLeaves
  <2> QED  BY <2>1, <2>2
<1>1. \A f \in File : human'[f] = human[f] \/ human'[f] = Reinstalled(p)[f]
  BY DEF InstallFail, CommitFail, UndoFails, RecUndoFails, InstallUndoFails,
         CommitUndoFails, PartlyReinstalled
<1>2. \A q \in Process : job[q].moved = None
  BY <1>0, OneBackup
<1>3. job' = [job EXCEPT ![p] = NoJob] /\ job \in [Process -> Job]
  BY <1>0 DEF Leave, TypeOK
<1>4. \A q \in Process : job'[q].moved = None
  BY <1>2, <1>3, NoJobEmpty
<1>5. DraftsSurvive'
  <2> SUFFICES ASSUME NEW f \in File, draft'[f] # None PROVE human'[f] = draft'[f]
    BY DEF DraftsSurvive
  <2>1. draft'[f] = draft[f] /\ draft[f] # None  BY <1>0
  <2>2. Reinstalled(p)[f] = draft[f]  BY <1>2, <2>1, ReinstalledDrafts
  <2>3. human[f] = draft[f]
    <3>1. draft[f] \in Text  BY <2>1 DEF TypeOK
    <3>2. [file |-> f, text |-> draft[f]] # None  BY <3>1, TextAssumption
    <3> QED  BY <1>2, <2>1, <3>2 DEF DraftsHeld, DraftsSurvive
  <2> QED  BY <1>1, <2>1, <2>2, <2>3
<1>6. MovedDrafts'  BY <1>4 DEF MovedDrafts, MovedDraftsBy
<1>7. DoneDrafts'
  <2> SUFFICES ASSUME NEW q \in Process, NEW g \in job'[q].done
               PROVE  draft'[g] # Desired(q, g)'
    BY DEF DoneDrafts
  <2>1. q # p /\ job'[q] = job[q]  BY <1>3, NoJobEmpty
  <2>2. g \in File /\ Desired(q, g)' = Desired(q, g) /\ Desired(q, g) # None
    BY <1>3, <2>1, NotText DEF Job, Desired
  <2> QED  BY <1>0, <2>1, <2>2 DEF DraftsHeld, DoneDrafts
<1> QED  BY <1>5, <1>6, <1>7 DEF DraftsHeld

\* The human's file is moved away, and the new text or the old one put there.
LEMMA InstallDrafts ==
  ASSUME TypeOK, BackupHeld, HeadsRead, DraftsOpen, DraftsHeld,
         NEW p \in Process, Install(p)
  PROVE  DraftsHeld'
<1> USE DEF Locked, Installs
<1> DEFINE m == job[p].moved
<1>0. /\ human \in [File -> Text] /\ draft \in [File -> Text \cup {None}]
      /\ job \in [Process -> Job] /\ pc \in [Process -> Place]
  BY DEF TypeOK, Place
<1>1. pc[p] \in {"installing", "restoring"}
  BY DEF Install, InstallTake, InstallPut, InstallDiscard, InstallRefuse,
         InstallRestore, InstallFail
<1>2. \A q \in Process \ {p} : /\ pc'[q] = pc[q] /\ job'[q] = job[q]
                               /\ job[q].moved = None
  BY <1>1, OthersStay, OneBackup DEF Works, FileCommit
<1>3. \A q \in Process : job[q].done \subseteq File
  BY <1>0 DEF Job
<1>4. m # None => m \in [file : File, text : Text]
  BY <1>0 DEF Job
<1>5. \A f \in File : draft[f] # None =>
        human[f] = draft[f] \/ (m = [file |-> f, text |-> draft[f]])
  <2> SUFFICES ASSUME NEW f \in File, draft[f] # None, human[f] # draft[f]
               PROVE  m = [file |-> f, text |-> draft[f]]
    OBVIOUS
  <2>1. PICK q \in Process : job[q].moved = [file |-> f, text |-> draft[f]]
    BY DEF DraftsHeld, DraftsSurvive
  <2>2. draft[f] \in Text  BY <1>0
  <2>3. job[q].moved # None  BY <2>1, <2>2, TextAssumption
  <2> QED  BY <1>2, <2>1, <2>3
<1>5a. \A f \in File : draft[f] # None /\ f # m.file => human[f] = draft[f]
  <2> SUFFICES ASSUME NEW f \in File, draft[f] # None, human[f] # draft[f]
               PROVE  m.file = f
    OBVIOUS
  <2>1. m = [file |-> f, text |-> draft[f]]  BY <1>5
  <2> HIDE DEF m
  <2> QED  BY <2>1
<1>6. MovedDraftsBy(p) /\ (\A f \in job[p].done : draft[f] # Desired(p, f))
  BY DEF DraftsHeld, MovedDrafts, DoneDrafts
<1>7. ASSUME UNCHANGED draft, SameRead(p),
             \A f \in File : draft[f] # None =>
               human'[f] = draft[f] \/ (job'[p].moved = [file |-> f, text |-> draft[f]]),
             MovedDraftsBy(p)',
             \A f \in job'[p].done : f \in job[p].done \/ draft[f] # Desired(p, f)
      PROVE  DraftsHeld'
  <2>1. DraftsSurvive'  BY <1>7 DEF DraftsSurvive
  <2>2. MovedDrafts'
    BY <1>2, <1>7 DEF MovedDrafts, MovedDraftsBy
  <2>3. DoneDrafts'
    <3> SUFFICES ASSUME NEW q \in Process, NEW f \in job'[q].done
                 PROVE  draft'[f] # Desired(q, f)'
      BY DEF DoneDrafts
    <3>1. CASE q = p
      BY <1>6, <1>7, <3>1 DEF Desired, SameRead
    <3>2. CASE q # p
      BY <1>2, <1>7, <3>2 DEF DraftsHeld, DoneDrafts, Desired
    <3> QED  BY <3>1, <3>2
  <2> QED  BY <2>1, <2>2, <2>3 DEF DraftsHeld
<1>8. ASSUME NEW f \in File, InstallTake(p, f) PROVE DraftsHeld'
  <2>1. /\ SameRead(p) /\ job'[p].moved = [file |-> f, text |-> human[f]]
        /\ job'[p].done = job[p].done
    BY <1>8, TakeJob
  <2>2. /\ m = None /\ human' = [human EXCEPT ![f] = Absent] /\ UNCHANGED <<pc, draft>>
    BY <1>8 DEF InstallTake
  <2>3. \A g \in File : draft[g] # None => human[g] = draft[g]
    BY <1>0, <1>5, <2>2, TextAssumption
  <2>4. MovedDraftsBy(p)'
    BY <1>0, <2>1, <2>2, <2>3 DEF MovedDraftsBy
  <2> QED  BY <1>0, <1>7, <2>1, <2>2, <2>3, <2>4
<1>9. CASE InstallPut(p)
  <2>1. /\ m # None /\ m.text = job[p].main[m.file].text /\ human[m.file] = Absent
        /\ human' = [human EXCEPT ![m.file] = Desired(p, m.file)] /\ UNCHANGED draft
        /\ pc[p] = "installing"
    BY <1>9 DEF InstallPut
  <2>2. m.file \in File  BY <1>4, <2>1
  <2>3. draft[m.file] # main[m.file].text
    BY <1>1, <2>2, OneHolder DEF DraftsOpen
  <2>4. main[m.file].text = m.text
    BY <2>1 DEF HeadsRead, HeadsReadBy
  <2>5. draft[m.file] = None
    BY <1>6, <2>1, <2>3, <2>4 DEF MovedDraftsBy
  <2>6. \A f \in File : draft[f] # None => human'[f] = draft[f]
    BY <1>0, <1>5a, <2>1, <2>2, <2>5
  <2>7. /\ SameRead(p) /\ job'[p].moved = None
        /\ job'[p].done = job[p].done \cup {m.file}
    BY <1>9, PutJob
  <2>8. MovedDraftsBy(p)'  BY <2>7 DEF MovedDraftsBy
  <2>9. draft[m.file] # Desired(p, m.file)  BY <2>2, <2>5, NotText
  <2> QED  BY <1>7, <2>1, <2>6, <2>7, <2>8, <2>9
<1>10. CASE InstallDiscard(p)
  <2>1. m # None /\ human[m.file] # Absent /\ UNCHANGED <<human, draft>>
    BY <1>10 DEF InstallDiscard
  <2>2. draft[m.file] # None => human[m.file] = draft[m.file]
    BY <1>6, <2>1 DEF MovedDraftsBy
  <2>3. \A f \in File : draft[f] # None => human'[f] = draft[f]
    BY <1>5a, <2>1, <2>2
  <2>4. SameRead(p) /\ job'[p].moved = None /\ job'[p].done = job[p].done
    BY <1>10, DropJob
  <2>5. MovedDraftsBy(p)'  BY <2>4 DEF MovedDraftsBy
  <2> QED  BY <1>7, <2>1, <2>3, <2>4, <2>5
<1>11. CASE InstallRefuse(p)
  <2>1. /\ pc'[p] = "restoring" /\ human[m.file] = Absent /\ UNCHANGED <<human, draft, job>>
    BY <1>0, <1>11 DEF InstallRefuse, Goto
  <2>2. SameRead(p)  BY <2>1, PlainJob
  <2>3. MovedDraftsBy(p)'  BY <1>6, <2>1 DEF MovedDraftsBy
  <2> QED  BY <1>5, <1>7, <2>1, <2>2, <2>3
<1>12. CASE InstallRestore(p)
  <2>1. /\ pc[p] = "restoring" /\ UNCHANGED draft
        /\ human' = IF m.text = Absent THEN human ELSE [human EXCEPT ![m.file] = m.text]
    BY <1>12 DEF InstallRestore
  <2>2. m # None /\ m.file \in File  BY <1>4, <2>1 DEF BackupHeld
  <2>3. draft[m.file] # None => human[m.file] = Absent /\ draft[m.file] = m.text
    BY <1>6, <2>1, <2>2 DEF MovedDraftsBy
  <2>4. \A f \in File : draft[f] # None => human'[f] = draft[f]
    BY <1>0, <1>5a, <2>1, <2>2, <2>3
  <2>5. SameRead(p) /\ job'[p].moved = None /\ job'[p].done = job[p].done
    BY <1>12, DropJob
  <2>6. MovedDraftsBy(p)'  BY <2>5 DEF MovedDraftsBy
  <2> QED  BY <1>7, <2>1, <2>4, <2>5, <2>6
<1> QED  BY <1>8, <1>9, <1>10, <1>11, <1>12, UndoneDrafts DEF Install

LEMMA DraftsKept ==
  ASSUME QuietRestore, TypeOK, BackupHeld, HeadsRead, InstallOfChanged,
         DraftsOpen, DraftsHeld, [Next]_vars
  PROVE  DraftsHeld'
<1>1. CASE UNCHANGED vars
  BY <1>1 DEF vars, DraftsHeld, DraftsSurvive, MovedDrafts, MovedDraftsBy, DoneDrafts, Desired
<1>2. ASSUME NEW f \in File, HumanStep(f) PROVE DraftsHeld'
  <2>1. Absent \in Text /\ Literal \subseteq Text  BY DEF Text
  <2>2. main[f].text \in Text  BY DEF TypeOK, Blamed
  <2>3. human[f] \in Raw => [human[f] EXCEPT !.part = "part"] \in Text
    BY DEF Raw, Part, Text
  <2> QED
    BY <1>2, <2>1, <2>2, <2>3, HumanDrafts
       DEF HumanStep, HumanTypes, HumanDeletes, HumanAmends, HumanUndoes
<1>3. ASSUME NEW p \in Process, Works(p) PROVE DraftsHeld'
  BY <1>3, QuietSteps, ExecDrafts, InstallDrafts, UndoneDrafts
<1>4. ASSUME NEW p \in Process, UndoFails(p) PROVE DraftsHeld'
  BY <1>4, UndoneDrafts
<1> QED  BY <1>1, <1>2, <1>3, <1>4, NextSteps

\* If no save falls into the instant in which a backup is moved back: what the
\* human has saved is never lost, for any number of processes, at whatever step
\* an installation is refused, fails, is undone, or is undone in part.
THEOREM DraftsAreSafe ==
  ASSUME QuietRestore
  PROVE  Spec => []DraftsSurvive
<1> DEFINE IInv == TypeOK /\ BackupHeld /\ HeadsRead /\ InstallOfChanged /\ DraftsOpen
                   /\ DraftsHeld
<1>1. Init => IInv
  <2> SUFFICES ASSUME Init PROVE IInv
    OBVIOUS
  <2>1. TypeOK /\ BackupHeld  BY TypesInitially
  <2>2. HeadsRead
    BY DEF Init, HeadsRead, HeadsReadBy, Reconciles, Installs, Commits
  <2>3. InstallOfChanged
    BY NoJobEmpty
       DEF Init, InstallOfChanged, InstallOfChangedBy, Installs, Commits
  <2>4. DraftsOpen
    BY <2>1, NotText DEF Init, DraftsOpen
  <2>5. DraftsHeld
    BY NoJobEmpty
       DEF Init, DraftsHeld, DraftsSurvive, MovedDrafts, MovedDraftsBy, DoneDrafts
  <2> QED  BY <2>1, <2>2, <2>3, <2>4, <2>5
<1>2. IInv /\ [Next]_vars => IInv'
  <2> SUFFICES ASSUME IInv, [Next]_vars PROVE IInv'
    OBVIOUS
  <2> QED
    BY TypesKept, BackupKept, HeadsReadKept, InstallOfChangedKept, DraftsOpenKept, DraftsKept
<1>3. IInv => DraftsSurvive  BY DEF DraftsHeld
<1> QED  BY <1>1, <1>2, <1>3, PTL DEF Spec

===========================================================================
