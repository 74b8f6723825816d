------------------------- MODULE DualFSBranchProofs -------------------------
(***************************************************************************)
(* Theorems about what the two branches of DualFS hold: what git blame     *)
(* says of the main branch, and that each cycle reaches both branches at   *)
(* once, for any processes; that the views agree and the Agent view stays  *)
(* symbolized, for one process.                                            *)
(***************************************************************************)
EXTENDS DualFSProofs

\* If no rollback fails, the steps are those of the human, the handlers and tools.
LEMMA StepsUndone ==
  ASSUME ~RollbackFails, [Next]_vars
  PROVE  \/ UNCHANGED vars
         \/ \E f \in File : HumanStep(f)
         \/ \E p \in Process : Works(p)
<1>1. \A p \in Process : ~UndoFails(p)
  BY DEF UndoFails, RecUndoFails, InstallUndoFails, CommitUndoFails
<1> QED  BY <1>1, NextSteps

---------------------------------------------------------------------------
(***************************************************************************)
(* The steps of a process without the lock, and with it.                   *)
(***************************************************************************)
ToolStep(p) == \E f \in File : ToolWrite(p, f) \/ ExecWrite(p, f)

LEMMA Outside ==
  ASSUME TypeOK, NEW p \in Process, Works(p), pc[p] \notin Locked
  PROVE  /\ UNCHANGED <<main, trusted, diverged>>
         /\ UNCHANGED <<agent, human>> \/ ToolStep(p)
         /\ pc'[p] \in (Place \ Locked) \cup {"recLocked", "comLocked"}
<1> USE DEF Locked, Place
<1>0. pc \in [Process -> Place]
  BY DEF TypeOK
<1>1. AfterError(p) \in {"idle", "ready"}
  BY DEF AfterError
<1>2. CASE Reconcile(p)
  BY <1>0, <1>1, <1>2
     DEF Reconcile, StartCall, RecLock, RecLockBusy, RecRead, RecStable, RecApply,
         RecTrusted, RecMain, RecFail, RecGiveUp, Goto
<1>3. CASE Tool(p)
  BY <1>0, <1>3 DEF Tool, ToolStep, ToolWrite, ExecWrite, ToolReturns, Goto
<1>4. CASE Install(p)
  BY <1>4
     DEF Install, InstallTake, InstallPut, InstallDiscard, InstallRefuse,
         InstallRestore, InstallFail
<1>5. CASE FileCommit(p) /\ ~Install(p)
  BY <1>0, <1>5
     DEF FileCommit, CommitScan, CommitLock, CommitLockBusy, CommitRead, CommitCheck,
         CommitGiveUp, CommitRecheck, CommitTrusted, CommitRestore,
         CommitMainTrusted, CommitMainUntrusted, CommitFail, Goto
<1> QED  BY <1>2, <1>3, <1>4, <1>5 DEF Works

\* Under the lock the steps are those between taking it and giving it up.
UnderLock(p) ==
  \/ RecRead(p) \/ RecStable(p) \/ RecApply(p) \/ RecTrusted(p) \/ RecMain(p)
  \/ RecFail(p) \/ RecGiveUp(p)
  \/ CommitRead(p) \/ CommitCheck(p) \/ CommitGiveUp(p) \/ Install(p) \/ CommitRecheck(p)
  \/ CommitTrusted(p) \/ CommitRestore(p) \/ CommitMainTrusted(p)
  \/ CommitMainUntrusted(p) \/ CommitFail(p)

LEMMA Inside ==
  ASSUME NEW p \in Process, Works(p), pc[p] \in Locked
  PROVE  UnderLock(p)
<1> USE DEF Locked
<1>1. ~StartCall(p) /\ ~RecLock(p) /\ ~RecLockBusy(p)
  BY DEF StartCall, RecLock, RecLockBusy
<1>2. ~Tool(p)
  BY DEF Tool, ToolWrite, ExecWrite, ToolReturns
<1>3. ~CommitScan(p) /\ ~CommitLock(p) /\ ~CommitLockBusy(p)
  BY DEF CommitScan, CommitLock, CommitLockBusy
<1> QED  BY <1>1, <1>2, <1>3 DEF Works, Reconcile, FileCommit, UnderLock

LEMMA ToolStepLeaves ==
  ASSUME NEW p \in Process, ToolStep(p)
  PROVE  UNCHANGED <<trusted, main, lock, pc, job, diverged, cycle>>
BY DEF ToolStep, ToolWrite, ExecWrite

\* The kinds of text exclude each other.
LEMMA KindsApart ==
  /\ \A t \in Symbol : t \notin Raw /\ t \notin Literal /\ t # Absent
  /\ \A t \in Raw : t \notin Symbol /\ t \notin Literal /\ t # Absent
  /\ \A t \in Literal : t \notin Symbol /\ t \notin Raw /\ t # Absent
  /\ Absent \notin Symbol \cup Raw \cup Literal
BY TextAssumption DEF Symbol, Raw

LEMMA ToolTextsNotRaw == \A t \in ToolTexts : t \in Text /\ t \notin Raw
<1>1. \A s \in Source : SymbolOf(s) \in Symbol
  BY DEF SymbolOf, Symbol, Part
<1> QED  BY <1>1, KindsApart DEF ToolTexts, Text

---------------------------------------------------------------------------
(***************************************************************************)
(* Raw text in the Agent view is on the main branch already: a commit that *)
(* is called trusted never brings any.                                     *)
(***************************************************************************)
RawFiles ==
  \A f \in File : agent[f] \in Raw =>
    \/ main[f].text = agent[f]
    \/ \E p \in Process : pc[p] \in {"recApplied", "recTrusted"} /\ f \in job[p].todo

RawOnMainBy(p) ==
  /\ pc[p] \in {"recApplied", "recTrusted"} =>
       \A f \in job[p].todo : agent[f] \in Raw => agent[f] = job[p].snap[f]
  /\ pc[p] \in Reconciles =>
       \A f \in File : job[p].base[f] \in Raw => job[p].main[f].text = job[p].base[f]
  /\ pc[p] \in {"comRead", "comMain"} \cup Installs \cup Commits =>
       \A f \in File : /\ job[p].snap[f] \in Raw => job[p].main[f].text = job[p].snap[f]
                       /\ agent[f] \in Raw => agent[f] = job[p].snap[f]
  /\ pc[p] = "comTrusted" => \A f \in Changed(p) : trusted[f] = job[p].snap[f]

RawOnMain == RawFiles /\ \A p \in Process : RawOnMainBy(p)

\* While p has the lock, the raw text it has not just taken over is on the branch.
LEMMA RawHeld ==
  ASSUME TypeOK, RawOnMain, NEW p \in Process, pc[p] \in Locked,
         NEW f \in File, agent[f] \in Raw
  PROVE  \/ main[f].text = agent[f]
         \/ pc[p] \in {"recApplied", "recTrusted"} /\ f \in job[p].todo
BY OneHolder DEF RawOnMain, RawFiles, Locked

LEMMA MergedRaw ==
  ASSUME NEW a \in Text, NEW h \in Text, NEW status, Merge(status, a, h) \in Raw
  PROVE  Merge(status, a, h) = h
<1>1. CASE Merge(status, a, h) = [symbol |-> h.raw, part |-> h.part]
           /\ h \in Raw
  <2>1. Merge(status, a, h) \in Symbol  BY <1>1 DEF Raw, Symbol
  <2> QED  BY <2>1, KindsApart
<1> QED  BY <1>1 DEF Merge

LEMMA RawByReconcile ==
  ASSUME TypeOK, HeadsRead, RawOnMain, NEW p \in Process,
         RecRead(p) \/ RecStable(p) \/ RecApply(p) \/ RecTrusted(p) \/ RecMain(p)
           \/ RecFail(p) \/ RecGiveUp(p)
  PROVE  RawFiles' /\ RawOnMainBy(p)'
<1> USE DEF Locked, Place, Reconciles, Installs, Commits
<1>0. /\ pc \in [Process -> Place] /\ job \in [Process -> Job]
      /\ agent \in [File -> Text] /\ main \in [File -> Blamed]
      /\ job[p].todo \subseteq File
      /\ job[p].base \in [File -> Text] /\ job[p].snap \in [File -> Text]
  BY DEF TypeOK, Job
<1>1. RawOnMainBy(p) /\ HeadsReadBy(p)
  BY DEF RawOnMain, HeadsRead
<1>2. pc[p] \in Locked
  BY DEF RecRead, RecStable, RecApply, RecTrusted, RecMain, RecFail, RecGiveUp
<1>3. ASSUME \A f \in File : agent'[f] \in Raw => main'[f].text = agent'[f]
      PROVE  RawFiles'
  BY <1>3 DEF RawFiles
<1>4. AfterError(p) \in {"idle", "ready"}
  BY DEF AfterError
<1>5. ASSUME NEW l \in {"idle", "ready"}, Leave(p, l) PROVE RawOnMainBy(p)'
  BY <1>0, <1>5 DEF Leave, Goto, RawOnMainBy
<1>6. CASE RecRead(p)
  <2>1. \A f \in File : agent[f] \in Raw => main[f].text = agent[f]
    BY <1>2, <1>6, RawHeld DEF RecRead
  <2>2. UNCHANGED <<agent, main>>  BY <1>6 DEF RecRead
  <2>3. pc'[p] = "recRead" /\ job'[p].base = agent /\ job'[p].main = main
    BY <1>6, RecReadJob
  <2> QED  BY <1>3, <2>1, <2>2, <2>3 DEF RawOnMainBy
<1>7. CASE RecStable(p) \/ RecGiveUp(p)
  <2>1. \A f \in File : agent[f] \in Raw => main[f].text = agent[f]
    BY <1>2, <1>7, RawHeld DEF RecStable, RecGiveUp
  <2>2. UNCHANGED <<agent, main>>  BY <1>7 DEF RecStable, RecGiveUp
  <2>3. RawOnMainBy(p)'
    <3>1. CASE \E l \in {"idle", "ready"} : Leave(p, l)
      BY <1>5, <3>1
    <3>2. CASE RecStable(p) /\ ~Leave(p, "ready")
      <4>1. SameRead(p)  BY <3>2, TodoJob DEF RecStable
      <4>2. pc[p] = "recRead" /\ pc'[p] = "recStable"
        BY <1>0, <3>2 DEF RecStable, Goto
      <4> QED  BY <1>1, <4>1, <4>2 DEF RawOnMainBy, SameRead
    <3> QED  BY <1>4, <1>7, <3>1, <3>2 DEF RecGiveUp
  <2> QED  BY <1>3, <2>1, <2>2, <2>3
<1>8. CASE RecApply(p)
  <2>1. /\ pc[p] = "recStable" /\ pc'[p] = "recApplied" /\ UNCHANGED <<main, job>>
        /\ \A f \in File : agent'[f] =
             IF f \in job[p].todo
             THEN Merge(job[p].listed[f], job[p].base[f], job[p].snap[f]) ELSE agent[f]
    BY <1>0, <1>8 DEF RecApply, Goto
  <2>2. \A f \in job[p].todo : agent'[f] \in Raw => agent'[f] = job[p].snap[f]
    BY <1>0, <2>1, MergedRaw
  <2>3. RawFiles'
    <3> SUFFICES ASSUME NEW f \in File, agent'[f] \in Raw, f \notin job[p].todo
                 PROVE  main[f].text = agent'[f]
      BY <2>1 DEF RawFiles
    <3> QED  BY <1>2, <2>1, RawHeld
  <2> QED  BY <1>1, <2>1, <2>2, <2>3 DEF RawOnMainBy
<1>9. CASE RecTrusted(p)
  <2>1. pc[p] = "recApplied" /\ pc'[p] = "recTrusted" /\ UNCHANGED <<agent, main, job>>
    BY <1>0, <1>9 DEF RecTrusted, Goto
  <2>2. RawFiles'
    BY <1>2, <2>1, RawHeld DEF RawFiles
  <2> QED  BY <1>1, <2>1, <2>2 DEF RawOnMainBy
<1>10. CASE RecMain(p)
  <2>1. /\ pc[p] = "recTrusted" /\ UNCHANGED agent
        /\ \A f \in File :
             /\ f \in job[p].todo => main'[f].text = job[p].snap[f]
             /\ f \notin job[p].todo => main'[f] = main[f]
    BY <1>0, <1>10 DEF RecMain, CommitMainBranch
  <2>2. \A f \in File : agent[f] \in Raw => main'[f].text = agent[f]
    <3> SUFFICES ASSUME NEW f \in File, agent[f] \in Raw PROVE main'[f].text = agent[f]
      OBVIOUS
    <3>1. CASE f \in job[p].todo
      BY <1>1, <2>1, <3>1 DEF RawOnMainBy
    <3>2. CASE f \notin job[p].todo
      BY <1>2, <2>1, <3>2, RawHeld
    <3> QED  BY <3>1, <3>2
  <2> QED  BY <1>3, <1>5, <1>10, <2>1, <2>2 DEF RecMain
<1>11. CASE RecFail(p)
  <2>1. /\ pc[p] \in {"recStable", "recApplied", "recTrusted"}
        /\ main' = job[p].main
        /\ \A f \in File : agent'[f] = IF f \in job[p].todo THEN job[p].base[f] ELSE agent[f]
    BY <1>0, <1>11 DEF RecFail, ResetBranches
  <2>2. main' = main  BY <1>1, <2>1 DEF HeadsReadBy
  <2>3. \A f \in File : agent'[f] \in Raw => main'[f].text = agent'[f]
    <3> SUFFICES ASSUME NEW f \in File, agent'[f] \in Raw PROVE main'[f].text = agent'[f]
      OBVIOUS
    <3>1. CASE f \in job[p].todo
      BY <1>1, <2>1, <3>1 DEF RawOnMainBy
    <3>2. CASE f \notin job[p].todo
      BY <1>2, <2>1, <2>2, <3>2, RawHeld
    <3> QED  BY <3>1, <3>2
  <2> QED  BY <1>3, <1>4, <1>5, <1>11, <2>3 DEF RecFail
<1> QED  BY <1>6, <1>7, <1>8, <1>9, <1>10, <1>11

LEMMA RawByCommit ==
  ASSUME TypeOK, HeadsRead, RawOnMain, NEW p \in Process, pc[p] \in Locked,
         CommitRead(p) \/ CommitCheck(p) \/ CommitGiveUp(p) \/ Install(p)
           \/ CommitRecheck(p) \/ CommitTrusted(p) \/ CommitRestore(p)
           \/ CommitMainTrusted(p) \/ CommitMainUntrusted(p) \/ CommitFail(p)
  PROVE  RawFiles' /\ RawOnMainBy(p)'
<1> USE DEF Locked, Place, Reconciles, Installs, Commits
<1>0. /\ pc \in [Process -> Place] /\ job \in [Process -> Job]
      /\ agent \in [File -> Text] /\ main \in [File -> Blamed]
      /\ job[p].snap \in [File -> Text]
  BY DEF TypeOK, Job
<1>1. RawOnMainBy(p) /\ HeadsReadBy(p)
  BY DEF RawOnMain, HeadsRead
<1>2. ASSUME \A f \in File : agent'[f] \in Raw => main'[f].text = agent'[f]
      PROVE  RawFiles'
  BY <1>2 DEF RawFiles
<1>3. ASSUME Leave(p, "idle") PROVE RawOnMainBy(p)'
  BY <1>0, <1>3 DEF Leave, Goto, RawOnMainBy
<1>4. ASSUME pc[p] \in {"comRead"} \cup Installs \cup Commits \cup {"comMain"},
             NEW f \in File, job[p].snap[f] \in Raw
      PROVE  job[p].main[f].text = job[p].snap[f]
             /\ (pc[p] # "comMain" => main[f].text = job[p].snap[f])
  BY <1>1, <1>4 DEF RawOnMainBy, HeadsReadBy
<1>5. CASE CommitRead(p)
  <2>1. \A f \in File : agent[f] \in Raw => main[f].text = agent[f]
    BY <1>5, RawHeld DEF CommitRead
  <2>2. UNCHANGED <<agent, main>> /\ pc'[p] = "comRead"
    BY <1>0, <1>5 DEF CommitRead, Goto
  <2>3. job'[p].snap = agent /\ job'[p].main = main
    BY <1>5, ReadJob
  <2> QED  BY <1>2, <2>1, <2>2, <2>3 DEF RawOnMainBy
<1>6. CASE CommitCheck(p) \/ CommitGiveUp(p) \/ Install(p) \/ CommitRecheck(p)
  <2>1. /\ pc[p] \notin {"recApplied", "recTrusted"} /\ UNCHANGED <<agent, main>>
    BY <1>6
       DEF CommitCheck, CommitGiveUp, CommitRecheck, Install, InstallTake, InstallPut,
           InstallDiscard, InstallRefuse, InstallRestore, InstallFail
  <2>2. \A f \in File : agent[f] \in Raw => main[f].text = agent[f]
    BY <2>1, RawHeld
  <2>3. RawOnMainBy(p)'
    <3>1. CASE CommitGiveUp(p) \/ InstallFail(p)
      BY <1>3, <3>1 DEF CommitGiveUp, InstallFail
    <3>2. CASE ~(CommitGiveUp(p) \/ InstallFail(p))
      <4>1. SameRead(p)
        <5>1. CASE CommitCheck(p) \/ CommitRecheck(p)
          BY <5>1, TodoJob DEF CommitCheck, CommitRecheck
        <5>2. CASE Install(p)
          BY <3>2, <5>2, TakeJob, PutJob, DropJob, PlainJob DEF Install, InstallRefuse
        <5> QED  BY <1>6, <3>2, <5>1, <5>2
      <4>2. pc[p] \in {"comRead"} \cup Installs /\ pc'[p] \in Installs
        BY <1>0, <1>6, <3>2
           DEF CommitCheck, CommitRecheck, Install, InstallTake, InstallPut,
               InstallDiscard, InstallRefuse, InstallRestore, Goto
      <4> QED  BY <1>1, <2>1, <4>1, <4>2 DEF RawOnMainBy, SameRead
    <3> QED  BY <3>1, <3>2
  <2> QED  BY <1>2, <2>1, <2>2, <2>3
<1>7. CASE CommitTrusted(p)
  <2>1. /\ pc[p] = "installed" /\ pc'[p] = "comTrusted" /\ UNCHANGED <<agent, main, job>>
        /\ \A f \in Changed(p) : trusted'[f] = job[p].snap[f]
    BY <1>0, <1>7 DEF CommitTrusted, CommitTrustedBranch, Goto, Changed
  <2>2. \A f \in File : agent[f] \in Raw => main[f].text = agent[f]
    BY <2>1, RawHeld
  <2>3. Changed(p)' = Changed(p)  BY <2>1 DEF Changed
  <2> QED  BY <1>1, <1>2, <2>1, <2>2, <2>3 DEF RawOnMainBy
<1>8. CASE CommitRestore(p)
  <2>1. /\ pc[p] = "comTrusted" /\ UNCHANGED main
        /\ \A f \in File : agent'[f] =
             IF f \in Changed(p) \ job[p].todo THEN trusted[f] ELSE agent[f]
    BY <1>8 DEF CommitRestore
  <2>2. \A f \in File : agent'[f] \in Raw => agent'[f] = job[p].snap[f]
    BY <1>1, <2>1 DEF RawOnMainBy
  <2>3. \A f \in File : agent'[f] \in Raw => main[f].text = agent'[f]
    BY <1>4, <2>1, <2>2
  <2>4. RawOnMainBy(p)'
    <3>1. CASE Leave(p, "idle")
      BY <1>3, <3>1
    <3>2. CASE ~Leave(p, "idle")
      <4>1. pc'[p] \in {"comRestored", "comFailed"} /\ UNCHANGED job
        BY <1>0, <1>8, <3>2 DEF CommitRestore, Goto
      <4> QED  BY <1>1, <2>1, <2>2, <4>1 DEF RawOnMainBy
    <3> QED  BY <3>1, <3>2
  <2> QED  BY <1>2, <2>1, <2>3, <2>4
<1>9. CASE CommitMainTrusted(p)
  <2>1. /\ pc[p] = "comRestored" /\ pc'[p] = "comMain" /\ UNCHANGED <<agent, job>>
        /\ \A f \in File :
             \/ main'[f].text = main[f].text
             \/ main'[f].text = job[p].snap[f]
    BY <1>0, <1>9 DEF CommitMainTrusted, CommitMainBranch, Goto
  <2>2. \A f \in File : agent[f] \in Raw => main'[f].text = agent[f]
    <3> SUFFICES ASSUME NEW f \in File, agent[f] \in Raw PROVE main'[f].text = agent[f]
      OBVIOUS
    <3>1. agent[f] = job[p].snap[f]  BY <1>1, <2>1 DEF RawOnMainBy
    <3>2. main[f].text = job[p].snap[f]  BY <1>4, <2>1, <3>1
    <3> QED  BY <2>1, <3>1, <3>2
  <2> QED  BY <1>1, <1>2, <2>1, <2>2 DEF RawOnMainBy
<1>10. CASE CommitMainUntrusted(p)
  <2>1. /\ pc[p] = "comMain" /\ UNCHANGED agent
        /\ \A f \in File :
             \/ main'[f].text = main[f].text
             \/ main'[f].text = Desired(p, f)
    BY <1>0, <1>10 DEF CommitMainUntrusted, CommitMainBranch
  <2>2. \A f \in File : agent[f] \in Raw => main'[f].text = agent[f]
    <3> SUFFICES ASSUME NEW f \in File, agent[f] \in Raw PROVE main'[f].text = agent[f]
      OBVIOUS
    <3>1. agent[f] = job[p].snap[f]  BY <1>1, <2>1 DEF RawOnMainBy
    <3>2. Desired(p, f) = agent[f]  BY <3>1, KindsApart DEF Desired, Resolve
    <3>3. main[f].text = agent[f]  BY <2>1, RawHeld
    <3> QED  BY <2>1, <3>2, <3>3
  <2> QED  BY <1>2, <1>3, <1>10, <2>2 DEF CommitMainUntrusted
<1>11. CASE CommitFail(p)
  <2>1. /\ pc[p] \in {"installed", "comTrusted", "comFailed", "comRestored", "comMain"}
        /\ main' = job[p].main
        /\ \A f \in File : agent'[f] = IF f \in Changed(p) THEN job[p].snap[f] ELSE agent[f]
    BY <1>11 DEF CommitFail, ResetBranches
  <2>2. \A f \in File : agent'[f] \in Raw => main'[f].text = agent'[f]
    <3> SUFFICES ASSUME NEW f \in File, agent'[f] \in Raw PROVE main'[f].text = agent'[f]
      OBVIOUS
    <3>1. agent'[f] = job[p].snap[f]  BY <1>1, <2>1 DEF RawOnMainBy
    <3> QED  BY <1>4, <2>1, <3>1
  <2> QED  BY <1>2, <1>3, <1>11, <2>2 DEF CommitFail
<1> QED  BY <1>5, <1>6, <1>7, <1>8, <1>9, <1>10, <1>11

LEMMA RawOnMainKept ==
  ASSUME ~RollbackFails, TypeOK, HeadsRead, RawOnMain, [Next]_vars
  PROVE  RawOnMain'
<1> USE DEF Locked, Place, Reconciles, Installs, Commits
<1>1. CASE UNCHANGED vars
  BY <1>1 DEF vars, RawOnMain, RawFiles, RawOnMainBy, Changed
<1>2. ASSUME NEW f \in File, HumanStep(f) PROVE RawOnMain'
  BY <1>2, HumanLeaves DEF RawOnMain, RawFiles, RawOnMainBy, Changed
<1>3. ASSUME NEW p \in Process, Works(p) PROVE RawOnMain'
  <2>1. CASE ToolStep(p)
    <3>1. \A f \in File : agent'[f] \in Raw => agent'[f] = agent[f]
      BY <2>1, ToolTextsNotRaw DEF ToolStep, ToolWrite, ExecWrite, TypeOK
    <3>2. \A q \in Process : job[q].todo \subseteq File
      BY DEF TypeOK, Job
    <3> QED
      BY <2>1, <3>1, <3>2, ToolStepLeaves DEF RawOnMain, RawFiles, RawOnMainBy, Changed
  <2>2. CASE ~ToolStep(p) /\ pc[p] \notin Locked
    <3>1. /\ UNCHANGED <<main, trusted, agent>>
          /\ pc'[p] \in {"idle", "recListed", "ready", "ran", "comListed",
                         "recLocked", "comLocked"}
      BY <1>3, <2>2, Outside
    <3>2. RawOnMainBy(p)'  BY <3>1 DEF RawOnMainBy
    <3>3. \A q \in Process \ {p} : RawOnMainBy(q)'
      BY <1>3, <3>1, OthersStay DEF RawOnMain, RawOnMainBy, Changed
    <3>4. RawFiles'
      BY <1>3, <2>2, <3>1, OthersStay DEF RawOnMain, RawFiles
    <3> QED  BY <3>2, <3>3, <3>4 DEF RawOnMain
  <2>3. CASE pc[p] \in Locked
    <3>1. RawFiles' /\ RawOnMainBy(p)'
      BY <1>3, <2>3, Inside, RawByReconcile, RawByCommit DEF UnderLock
    <3>2. ASSUME NEW q \in Process \ {p} PROVE RawOnMainBy(q)'
      <4>1. pc'[q] = pc[q]  BY <1>3, <3>2, OthersStay
      <4>2. pc[q] \notin Locked  BY <2>3, <3>2, OneHolder
      <4> QED  BY <4>1, <4>2 DEF RawOnMainBy
    <3> QED  BY <3>1, <3>2 DEF RawOnMain
  <2> QED  BY <2>1, <2>2, <2>3
<1> QED  BY <1>1, <1>2, <1>3, StepsUndone

---------------------------------------------------------------------------
(***************************************************************************)
(* What git blame says of the main branch.                                 *)
(***************************************************************************)
Separate(m) ==
  /\ m.text \notin Symbol
  /\ m.text \in Raw => m.by \in {"UNTRUSTED", "HUMAN"}
  /\ m.text \in Literal => m.by # "UNTRUSTED"

\* The human is shown no symbols, in the files and in what handlers hold of them.
HumanResolvedBy(p) ==
  /\ pc[p] \in Reconciles => \A f \in File : job[p].snap[f] \notin Symbol
  /\ job[p].moved # None => job[p].moved.text \notin Symbol

HumanResolved ==
  /\ \A f \in File : human[f] \notin Symbol
  /\ \A p \in Process : HumanResolvedBy(p)

\* Symbols are on the main branch between the two commits of a cycle only, which
\* a failure undoes.
MainSeparateBy(p) ==
  pc[p] = "comMain" =>
    /\ \A f \in job[p].todo : main[f].text = job[p].snap[f]
    /\ \A f \in File : Separate(job[p].main[f])

FilesSeparate ==
  \A f \in File :
    \/ Separate(main[f])
    \/ \E p \in Process :
         pc[p] = "comMain" /\ f \in job[p].todo /\ job[p].snap[f] \in Symbol

MainSeparate == FilesSeparate /\ \A p \in Process : MainSeparateBy(p)

\* The heads that were read separate the texts, at every place they are used.
LEMMA SeparateHeads ==
  ASSUME TypeOK, HeadsRead, MainSeparate, NEW p \in Process,
         pc[p] \in Reconciles \cup {"comRead", "comMain"} \cup Installs \cup Commits,
         NEW f \in File
  PROVE  Separate(job[p].main[f])
<1> USE DEF Locked, Reconciles, Installs, Commits
<1>1. CASE pc[p] = "comMain"
  BY <1>1 DEF MainSeparate, MainSeparateBy
<1>2. CASE pc[p] # "comMain"
  <2>1. job[p].main = main  BY <1>2 DEF HeadsRead, HeadsReadBy
  <2>2. \A q \in Process : pc[q] # "comMain"
    BY <1>2, OneHolder
  <2> QED  BY <2>1, <2>2 DEF MainSeparate, FilesSeparate
<1> QED  BY <1>1, <1>2

LEMMA DesiredResolved ==
  ASSUME TypeOK, NEW p \in Process, NEW f \in File
  PROVE  Desired(p, f) \in Text \ Symbol
<1>1. job[p].snap[f] \in Text  BY DEF TypeOK, Job
<1> QED  BY <1>1, ResolvedIsText DEF Desired

LEMMA HumanSavesResolved ==
  ASSUME TypeOK, HumanResolved, NEW f \in File, HumanStep(f)
  PROVE  HumanResolved'
<1>1. UNCHANGED <<pc, job>>  BY HumanLeaves
<1>2. ASSUME NEW t \in Text \ Symbol, HumanSaves(f, t) PROVE HumanResolved'
  BY <1>1, <1>2 DEF TypeOK, HumanSaves, HumanResolved, HumanResolvedBy
<1>3. Literal \cup {Absent} \subseteq Text \ Symbol
  BY KindsApart DEF Text
<1>4. human[f] \in Raw => [human[f] EXCEPT !.part = "part"] \in Text \ Symbol
  <2>1. human[f] \in Raw => [human[f] EXCEPT !.part = "part"] \in Raw
    BY DEF Raw, Part
  <2> QED  BY <2>1, KindsApart DEF Text
<1>5. main[f].text \in Text
  BY DEF TypeOK, Blamed
<1> QED
  BY <1>2, <1>3, <1>4, <1>5
     DEF HumanStep, HumanTypes, HumanDeletes, HumanAmends, HumanUndoes

LEMMA InstallResolved ==
  ASSUME TypeOK, BackupHeld, HeadsRead, HumanResolved, MainSeparate,
         NEW p \in Process, Install(p) \/ CommitFail(p)
  PROVE  (\A f \in File : human'[f] \notin Symbol) /\ HumanResolvedBy(p)'
<1> USE DEF Locked, Place, Reconciles, Installs, Commits
<1>0. /\ pc \in [Process -> Place] /\ human \in [File -> Text]
      /\ job[p].moved # None => job[p].moved.file \in File
  BY DEF TypeOK, Job
<1>1. HumanResolvedBy(p) /\ \A f \in File : human[f] \notin Symbol
  BY DEF HumanResolved
<1>2. Absent \notin Symbol  BY KindsApart
<1>3. ASSUME NEW f \in File, InstallTake(p, f)
      PROVE  (\A g \in File : human'[g] \notin Symbol) /\ HumanResolvedBy(p)'
  <2>1. UNCHANGED pc /\ pc[p] = "installing" /\ human' = [human EXCEPT ![f] = Absent]
    BY <1>3 DEF InstallTake
  <2>2. job'[p].moved = [file |-> f, text |-> human[f]]
    BY <1>3, TakeJob
  <2> QED  BY <1>0, <1>1, <1>2, <2>1, <2>2 DEF HumanResolvedBy
<1>4. CASE InstallPut(p)
  <2>1. UNCHANGED pc /\ pc[p] = "installing" /\ job[p].moved # None
        /\ human' = [human EXCEPT ![job[p].moved.file] = Desired(p, job[p].moved.file)]
    BY <1>4 DEF InstallPut
  <2>2. job'[p].moved = None  BY <1>4, PutJob
  <2>3. Desired(p, job[p].moved.file) \notin Symbol
    BY <1>0, <2>1, DesiredResolved
  <2> QED  BY <1>0, <1>1, <2>1, <2>2, <2>3 DEF HumanResolvedBy
<1>5. CASE InstallDiscard(p)
  <2>1. UNCHANGED <<pc, human>> /\ pc[p] = "installing"  BY <1>5 DEF InstallDiscard
  <2>2. job'[p].moved = None  BY <1>5, DropJob
  <2> QED  BY <1>1, <2>1, <2>2 DEF HumanResolvedBy
<1>6. CASE InstallRefuse(p)
  BY <1>0, <1>1, <1>6 DEF InstallRefuse, Goto, HumanResolvedBy
<1>7. CASE InstallRestore(p)
  <2>1. /\ pc[p] = "restoring" /\ pc'[p] = "installing"
        /\ human' = IF job[p].moved.text = Absent THEN human
                    ELSE [human EXCEPT ![job[p].moved.file] = job[p].moved.text]
    BY <1>0, <1>7 DEF InstallRestore, Goto
  <2>2. job[p].moved # None  BY <2>1 DEF BackupHeld
  <2>3. job'[p].moved = None  BY <1>7, DropJob
  <2> QED  BY <1>0, <1>1, <2>1, <2>2, <2>3 DEF HumanResolvedBy
<1>8. CASE InstallFail(p) \/ CommitFail(p)
  <2>1. /\ Leave(p, "idle") /\ human' = Reinstalled(p)
        /\ pc[p] \in Installs \cup Commits \cup {"comMain"}
    BY <1>8 DEF InstallFail, CommitFail
  <2>2. \A f \in File : job[p].main[f].text \notin Symbol
    BY <2>1, SeparateHeads DEF Separate
  <2>3. pc'[p] = "idle" /\ job'[p].moved = None
    BY <2>1, LeftEmpty
  <2> QED  BY <1>1, <2>1, <2>2, <2>3 DEF Reinstalled, HumanResolvedBy
<1> QED  BY <1>3, <1>4, <1>5, <1>6, <1>7, <1>8 DEF Install

LEMMA HumanResolvedKept ==
  ASSUME ~RollbackFails,
         TypeOK, BackupHeld, HeadsRead, HumanResolved, MainSeparate, [Next]_vars
  PROVE  HumanResolved'
<1> USE DEF Locked, Place, Reconciles, Installs, Commits
<1>0. pc \in [Process -> Place]
  BY DEF TypeOK
<1>1. CASE UNCHANGED vars
  BY <1>1 DEF vars, HumanResolved, HumanResolvedBy
<1>2. ASSUME NEW p \in Process, Works(p) PROVE HumanResolved'
  <2>1. HumanResolvedBy(p) /\ BackupHeldBy(p)
    BY BackupByOne DEF HumanResolved
  <2>2. \A q \in Process \ {p} : HumanResolvedBy(q)'
    BY <1>2, OthersStay DEF HumanResolved, HumanResolvedBy
  <2>3. BackupHeldBy(p)'
    BY BackupKept, BackupByOne DEF BackupHeld, BackupHeldBy
  <2>4. CASE Install(p) \/ CommitFail(p)
    BY <2>2, <2>4, InstallResolved DEF HumanResolved
  <2>5. CASE ToolStep(p)
    <3>1. \A s \in Source : Resolve(SymbolOf(s)) \notin Symbol
      <4>1. \A s \in Source : SymbolOf(s) \in Text
        BY DEF SymbolOf, Symbol, Text, Part
      <4> QED  BY <4>1, ResolvedIsText
    <3>2. \A f \in File : human'[f] \notin Symbol
      BY <2>5, <3>1 DEF ToolStep, ToolWrite, ExecWrite, HumanResolved, TypeOK
    <3> QED
      BY <2>5, <3>2, ToolStepLeaves DEF HumanResolved, HumanResolvedBy
  <2>6. CASE ~Install(p) /\ ~CommitFail(p) /\ ~ToolStep(p)
    <3>1. UNCHANGED human
      BY <1>2, <2>6
         DEF Works, Reconcile, StartCall, RecLock, RecLockBusy, RecRead, RecStable, RecApply,
             RecTrusted, RecMain, RecFail, RecGiveUp, Tool, ToolStep, ToolReturns,
             FileCommit, CommitScan, CommitLock, CommitLockBusy, CommitRead, CommitCheck,
             CommitGiveUp, CommitRecheck, CommitTrusted, CommitRestore,
             CommitMainTrusted, CommitMainUntrusted
    <3>2. HumanResolvedBy(p)'
      <4>1. CASE pc'[p] \notin Reconciles \cup {"installing", "restoring"}
        BY <2>3, <4>1 DEF BackupHeldBy, HumanResolvedBy
      <4>2. CASE RecRead(p)
        <5>1. pc'[p] = "recRead"  BY <4>2, RecReadJob
        <5>2. \A f \in File : job'[p].snap[f] \notin Symbol
          <6> SUFFICES ASSUME NEW f \in File PROVE job'[p].snap[f] \notin Symbol
            OBVIOUS
          <6>1. job'[p].snap = [g \in File |->
                  IF job[p].listed[g] = "deleted" THEN Absent ELSE human[g]]
            BY <4>2, RecReadJob
          <6>2. job'[p].snap[f] = Absent \/ job'[p].snap[f] = human[f]  BY <6>1
          <6> QED  BY <6>2, KindsApart DEF HumanResolved
        <5>3. job'[p].moved = None  BY <2>3, <5>1 DEF BackupHeldBy
        <5> QED  BY <5>1, <5>2, <5>3 DEF HumanResolvedBy
      <4>3. CASE RecStable(p) \/ RecApply(p) \/ RecTrusted(p)
        <5>1. CASE Leave(p, "ready")
          BY <4>1, <5>1, LeftEmpty
        <5>2. CASE ~Leave(p, "ready")
          <6>1. SameRead(p) /\ pc[p] \in Reconciles /\ pc'[p] \in Reconciles
            BY <1>0, <4>3, <5>2, TodoJob, PlainJob DEF RecStable, RecApply, RecTrusted, Goto
          <6> QED  BY <2>1, <2>3, <6>1 DEF HumanResolvedBy, SameRead, BackupHeldBy
        <5> QED  BY <5>1, <5>2
      <4>4. CASE CommitCheck(p)
        <5>1. pc[p] = "comRead" /\ pc'[p] = "installing" /\ job'[p].moved = job[p].moved
          BY <1>0, <4>4, TodoJob DEF CommitCheck, Goto
        <5> QED  BY <2>1, <5>1 DEF HumanResolvedBy
      <4>5. CASE ~RecRead(p) /\ ~RecStable(p) /\ ~RecApply(p) /\ ~RecTrusted(p) /\ ~CommitCheck(p)
        <5>1. AfterError(p) \in {"idle", "ready"}  BY DEF AfterError
        <5>2. pc'[p] \notin Reconciles \cup {"installing", "restoring"}
          BY <1>0, <1>2, <2>6, <4>5, <5>1
             DEF Works, Reconcile, StartCall, RecLock, RecLockBusy,
                 RecMain, RecFail, RecGiveUp, Tool, ToolStep, ToolReturns,
                 FileCommit, CommitScan, CommitLock, CommitLockBusy, CommitRead,
                 CommitGiveUp, CommitRecheck, CommitTrusted, CommitRestore,
                 CommitMainTrusted, CommitMainUntrusted, Leave, Goto
        <5> QED  BY <4>1, <5>2
      <4> QED  BY <4>2, <4>3, <4>4, <4>5
    <3> QED  BY <2>2, <3>1, <3>2 DEF HumanResolved
  <2> QED  BY <2>4, <2>5, <2>6
<1> QED  BY <1>1, <1>2, HumanSavesResolved, StepsUndone

\* Only these steps change the main branch.
LEMMA MainLeft ==
  ASSUME HeadsRead, NEW p \in Process, UnderLock(p),
         ~RecMain(p), ~CommitMainTrusted(p), ~CommitMainUntrusted(p), ~CommitFail(p)
  PROVE  UNCHANGED main
<1>1. CASE RecFail(p)
  BY <1>1 DEF RecFail, ResetBranches, HeadsRead, HeadsReadBy, Reconciles
<1>2. CASE Install(p)
  BY <1>2
     DEF Install, InstallTake, InstallPut, InstallDiscard, InstallRefuse,
         InstallRestore, InstallFail
<1> QED
  BY <1>1, <1>2
     DEF UnderLock, RecRead, RecStable, RecApply, RecTrusted, RecGiveUp, CommitRead,
         CommitCheck, CommitGiveUp, CommitRecheck, CommitTrusted, CommitRestore

LEMMA MainSeparateUnderLock ==
  ASSUME TypeOK, HeadsRead, HumanResolved, MainSeparate, RawOnMain,
         NEW p \in Process, pc[p] \in Locked, UnderLock(p)
  PROVE  FilesSeparate' /\ MainSeparateBy(p)'
<1> USE DEF Locked, Place, Reconciles, Installs, Commits
<1>0. /\ pc \in [Process -> Place] /\ main \in [File -> Blamed]
      /\ job[p].snap \in [File -> Text] /\ job[p].todo \subseteq File
  BY DEF TypeOK, Job
<1>1. \A f \in File : \/ Separate(main[f])
                      \/ pc[p] = "comMain" /\ f \in job[p].todo /\ job[p].snap[f] \in Symbol
  BY OneHolder DEF MainSeparate, FilesSeparate
<1>2. ASSUME \A f \in File : Separate(main'[f]), pc'[p] # "comMain"
      PROVE  FilesSeparate' /\ MainSeparateBy(p)'
  <2>1. \A f \in File : Separate(main[f])'  BY <1>2 DEF Separate
  <2> QED  BY <1>2, <2>1 DEF FilesSeparate, MainSeparateBy
<1>3. \A l : Leave(p, l) => pc'[p] = l
  BY <1>0 DEF Leave, Goto
<1>4. CASE RecMain(p)
  <2>1. \A f \in File : main'[f] = IF f \in job[p].todo /\ job[p].snap[f] # main[f].text
                                   THEN [text |-> job[p].snap[f], by |-> "HUMAN"] ELSE main[f]
    BY <1>0, <1>4 DEF RecMain, CommitMainBranch
  <2>2. \A f \in File : job[p].snap[f] \notin Symbol
    BY <1>4 DEF RecMain, HumanResolved, HumanResolvedBy
  <2>3. \A f \in File : Separate(main'[f])
    <3> SUFFICES ASSUME NEW f \in File PROVE Separate(main'[f])
      OBVIOUS
    <3>1. Separate(main[f])  BY <1>1, <1>4 DEF RecMain
    <3>2. Separate([text |-> job[p].snap[f], by |-> "HUMAN"])  BY <2>2 DEF Separate
    <3> QED  BY <2>1, <3>1, <3>2
  <2> QED  BY <1>2, <1>3, <1>4, <2>3 DEF RecMain
<1>5. CASE CommitMainTrusted(p)
  <2>1. /\ pc[p] = "comRestored" /\ pc'[p] = "comMain" /\ UNCHANGED job
        /\ \A f \in File : main'[f] = IF f \in job[p].todo /\ job[p].snap[f] # main[f].text
                                   THEN [text |-> job[p].snap[f], by |-> "TRUSTED"] ELSE main[f]
    BY <1>0, <1>5 DEF CommitMainTrusted, CommitMainBranch, Goto
  <2>2. ASSUME NEW f \in File, f \in job[p].todo, job[p].snap[f] # main[f].text
        PROVE  job[p].snap[f] \notin Raw
    BY <2>1, <2>2 DEF RawOnMain, RawOnMainBy, HeadsRead, HeadsReadBy
  <2>3. FilesSeparate'
    <3> SUFFICES ASSUME NEW f \in File, ~(f \in job[p].todo /\ job[p].snap[f] \in Symbol)
                 PROVE  Separate(main'[f])
      BY <2>1 DEF FilesSeparate, Separate
    <3>1. Separate(main[f])  BY <1>1, <2>1
    <3>2. CASE f \in job[p].todo /\ job[p].snap[f] # main[f].text
      <4>1. Separate([text |-> job[p].snap[f], by |-> "TRUSTED"])
        BY <2>2, <3>2 DEF Separate
      <4> QED  BY <2>1, <3>2, <4>1
    <3>3. CASE ~(f \in job[p].todo /\ job[p].snap[f] # main[f].text)
      BY <2>1, <3>1, <3>3
    <3> QED  BY <3>2, <3>3
  <2>4. \A f \in File : Separate(job[p].main[f])
    BY <2>1, SeparateHeads
  <2>5. \A f \in job[p].todo : main'[f].text = job[p].snap[f]
    <3> SUFFICES ASSUME NEW f \in job[p].todo PROVE main'[f].text = job[p].snap[f]
      OBVIOUS
    <3>1. f \in File  BY <1>0
    <3>2. main'[f] = IF job[p].snap[f] # main[f].text
                     THEN [text |-> job[p].snap[f], by |-> "TRUSTED"] ELSE main[f]
      BY <2>1, <3>1
    <3> QED  BY <3>2
  <2> QED  BY <2>1, <2>3, <2>4, <2>5 DEF MainSeparateBy, Separate
<1>6. CASE CommitMainUntrusted(p)
  <2>1. /\ pc[p] = "comMain"
        /\ \A f \in File : main'[f] = IF f \in job[p].todo /\ Desired(p, f) # main[f].text
                             THEN [text |-> Desired(p, f), by |-> "UNTRUSTED"] ELSE main[f]
    BY <1>0, <1>6 DEF CommitMainUntrusted, CommitMainBranch
  <2>2. \A f \in job[p].todo : main[f].text = job[p].snap[f]
    BY <2>1 DEF MainSeparate, MainSeparateBy
  <2>3. \A f \in File : Separate(main'[f])
    <3> SUFFICES ASSUME NEW f \in File PROVE Separate(main'[f])
      OBVIOUS
    <3>1. CASE f \in job[p].todo /\ job[p].snap[f] \in Symbol
      <4>1. Desired(p, f) \in Raw
        BY <3>1 DEF Desired, Resolve, Symbol, Raw
      <4>2. main'[f] = [text |-> Desired(p, f), by |-> "UNTRUSTED"]
        BY <2>1, <2>2, <3>1, <4>1, KindsApart
      <4> QED  BY <4>1, <4>2, KindsApart DEF Separate
    <3>2. CASE ~(f \in job[p].todo /\ job[p].snap[f] \in Symbol)
      <4>1. f \in job[p].todo => Desired(p, f) = main[f].text
        BY <2>2, <3>2 DEF Desired, Resolve
      <4> QED  BY <1>1, <2>1, <3>2, <4>1
    <3> QED  BY <3>1, <3>2
  <2> QED  BY <1>2, <1>3, <1>6, <2>3 DEF CommitMainUntrusted
<1>7. CASE CommitFail(p)
  <2>1. main' = job[p].main /\ pc[p] \in Installs \cup Commits \cup {"comMain"}
    BY <1>7 DEF CommitFail, ResetBranches
  <2>2. \A f \in File : Separate(main'[f])
    BY <2>1, SeparateHeads
  <2> QED  BY <1>2, <1>3, <1>7, <2>2 DEF CommitFail
<1>8. CASE ~RecMain(p) /\ ~CommitMainTrusted(p) /\ ~CommitMainUntrusted(p) /\ ~CommitFail(p)
  <2>1. UNCHANGED main  BY <1>8, MainLeft
  <2>2. AfterError(p) \in {"idle", "ready"}  BY DEF AfterError
  <2>3. pc[p] # "comMain" /\ pc'[p] # "comMain"
    BY <1>0, <1>3, <1>8, <2>2
       DEF UnderLock, RecRead, RecStable, RecApply, RecTrusted, RecFail, RecGiveUp,
           CommitRead, CommitCheck, CommitGiveUp, CommitRecheck, CommitTrusted,
           CommitRestore, Install, InstallTake, InstallPut, InstallDiscard,
           InstallRefuse, InstallRestore, InstallFail, Goto
  <2> QED  BY <1>1, <1>2, <2>1, <2>3
<1> QED  BY <1>4, <1>5, <1>6, <1>7, <1>8

LEMMA MainSeparateKept ==
  ASSUME ~RollbackFails,
         TypeOK, HeadsRead, HumanResolved, MainSeparate, RawOnMain, [Next]_vars
  PROVE  MainSeparate'
<1> USE DEF Locked, Place
<1>1. CASE UNCHANGED vars
  BY <1>1 DEF vars, MainSeparate, FilesSeparate, MainSeparateBy
<1>2. ASSUME NEW f \in File, HumanStep(f) PROVE MainSeparate'
  BY <1>2, HumanLeaves DEF MainSeparate, FilesSeparate, MainSeparateBy
<1>3. ASSUME NEW p \in Process, Works(p) PROVE MainSeparate'
  <2>1. CASE pc[p] \notin Locked
    <3>1. UNCHANGED main /\ pc[p] # "comMain" /\ pc'[p] # "comMain"
      BY <1>3, <2>1, Outside
    <3> QED
      BY <1>3, <3>1, OthersStay DEF MainSeparate, FilesSeparate, MainSeparateBy
  <2>2. CASE pc[p] \in Locked
    <3>1. FilesSeparate' /\ MainSeparateBy(p)'
      BY <1>3, <2>2, Inside, MainSeparateUnderLock
    <3>2. ASSUME NEW q \in Process \ {p} PROVE MainSeparateBy(q)'
      <4>1. pc'[q] = pc[q]  BY <1>3, OthersStay
      <4>2. pc[q] \notin Locked  BY <2>2, OneHolder
      <4> QED  BY <4>1, <4>2 DEF MainSeparateBy
    <3> QED  BY <3>1, <3>2 DEF MainSeparate
  <2> QED  BY <2>1, <2>2
<1> QED  BY <1>1, <1>2, <1>3, StepsUndone

BlameInv ==
  /\ TypeOK /\ BackupHeld /\ HeadsRead
  /\ HumanResolved /\ MainSeparate /\ RawOnMain

BlameHeld == BlameInv /\ InstallOfChanged

LEMMA BlameInitially == Init => BlameHeld
<1> SUFFICES ASSUME Init PROVE BlameHeld
  OBVIOUS
<1> USE DEF Reconciles, Installs, Commits
<1>1. TypeOK /\ BackupHeld  BY TypesInitially
<1>2. HeadsRead  BY DEF Init, HeadsRead, HeadsReadBy
<1>3. \A f \in File : human[f] \notin Symbol
  BY <1>1, ResolvedIsText DEF TypeOK, Init
<1>4. HumanResolved
  BY <1>3, NoJobEmpty DEF Init, HumanResolved, HumanResolvedBy
<1>5. \A f \in File : Separate(main[f])
  <2> SUFFICES ASSUME NEW f \in File PROVE Separate(main[f])
    OBVIOUS
  <2>1. main[f] = [text |-> human[f],
                   by |-> IF agent[f] \in Symbol THEN "UNTRUSTED" ELSE "TRUSTED"]
        /\ human[f] = Resolve(agent[f])
    BY DEF Init
  <2>2. agent[f] \notin Raw
    <3>1. \A s \in Source : SymbolOf(s) \in Symbol  BY DEF SymbolOf, Symbol, Part
    <3> QED  BY <3>1, KindsApart DEF Init
  <2>3. CASE agent[f] \in Symbol
    <3>1. human[f] \in Raw  BY <2>1, <2>3 DEF Resolve, Symbol, Raw
    <3> QED  BY <2>1, <2>3, <3>1, KindsApart DEF Separate
  <2>4. CASE agent[f] \notin Symbol
    BY <2>1, <2>2, <2>4 DEF Resolve, Separate
  <2> QED  BY <2>3, <2>4
<1>6. MainSeparate
  BY <1>5 DEF Init, MainSeparate, FilesSeparate, MainSeparateBy
<1>7. RawOnMain
  <2>1. \A f \in File : agent[f] \notin Raw
    <3>1. \A s \in Source : SymbolOf(s) \in Symbol  BY DEF SymbolOf, Symbol, Part
    <3> QED  BY <3>1, KindsApart DEF Init
  <2> QED  BY <2>1 DEF Init, RawOnMain, RawFiles, RawOnMainBy
<1>8. InstallOfChanged
  BY NoJobEmpty DEF Init, InstallOfChanged, InstallOfChangedBy
<1> QED  BY <1>1, <1>2, <1>4, <1>6, <1>7, <1>8 DEF BlameHeld, BlameInv

LEMMA BlameKept ==
  ASSUME ~RollbackFails
  PROVE  BlameHeld /\ [Next]_vars => BlameHeld'
BY TypesKept, BackupKept, HeadsReadKept, HumanResolvedKept, MainSeparateKept,
   RawOnMainKept, InstallOfChangedKept DEF BlameHeld, BlameInv

\* For any processes, edits and tools, at whatever step a handler fails, if its
\* rollback does not fail too: when the lock is free, raw data of a source is on the
\* main branch only under commits that are called UNTRUSTED or the human's, and no
\* text of the agent is called UNTRUSTED.
THEOREM BlameIsRight ==
  ASSUME ~RollbackFails
  PROVE  Spec => []BlameSeparates
<1>1. BlameHeld => BlameSeparates
  <2> SUFFICES ASSUME BlameInv, lock = Nobody, NEW f \in File PROVE Separate(main[f])
    BY DEF BlameHeld, BlameSeparates, Separate
  <2>1. \A p \in Process : pc[p] # "comMain"
    BY DualFSAssumption DEF BlameInv, TypeOK, Locked
  <2> QED  BY <2>1 DEF BlameInv, MainSeparate, FilesSeparate
<1>2. BlameHeld /\ [Next]_vars => BlameHeld'  BY BlameKept
<1> QED  BY <1>1, <1>2, BlameInitially, PTL DEF Spec

---------------------------------------------------------------------------
(***************************************************************************)
(* One process: the branches agree.  (With two, a tool may write between   *)
(* the merge of a reconciliation and its commit of the trusted worktree.)  *)
(***************************************************************************)
\* Between cycles the main branch shows what the trusted one resolves to.
BranchesAgree ==
  (\A p \in Process : pc[p] \notin Midway) =>
    \A f \in File \ diverged : main[f].text = Resolve(trusted[f])

\* During one, what is missing of that is in what the handler has read.
AgreeBy(p) ==
  LET j == job[p] IN
  /\ pc[p] \in Reconciles \cup {"comRead", "comMain"} \cup Installs \cup Commits =>
       \A f \in File \ diverged : j.main[f].text = Resolve(j.trusted[f])
  /\ pc[p] = "recApplied" => \A f \in j.todo : Resolve(agent[f]) = j.snap[f]
  /\ pc[p] = "recTrusted" =>
       /\ \A f \in j.todo : Resolve(trusted[f]) = j.snap[f]
       /\ \A f \in File \ j.todo : trusted[f] = j.trusted[f]
  /\ pc[p] \in Commits \cup {"comMain"} =>
       /\ \A f \in Changed(p) : trusted[f] = j.snap[f]
       /\ \A f \in File \ Changed(p) : trusted[f] = j.trusted[f]
  /\ pc[p] = "comMain" => \A f \in File \ j.todo : main[f] = j.main[f]

Agree == BranchesAgree /\ \A p \in Process : AgreeBy(p)

\* What reconcileFile puts in the Agent view resolves to what the human has.
LEMMA MergeResolves ==
  ASSUME NEW a \in Text, NEW h \in Text \ Symbol, NEW status
  PROVE  Resolve(Merge(status, a, h)) = h
<1>1. CASE h \in Raw /\ Merge(status, a, h) = [symbol |-> h.raw, part |-> h.part]
  <2>1. [symbol |-> h.raw, part |-> h.part] \in Symbol
    BY <1>1 DEF Raw, Symbol
  <2>2. [raw |-> h.raw, part |-> h.part] = h
    BY <1>1 DEF Raw
  <2> QED  BY <1>1, <2>1, <2>2 DEF Resolve
<1>2. CASE Merge(status, a, h) = h
  BY <1>2 DEF Resolve
<1> QED  BY <1>1, <1>2 DEF Merge

LEMMA AgreeUnderLock ==
  ASSUME BlameInv, InstallOfChanged, Agree, NEW p \in Process, \A q \in Process : q = p,
         pc[p] \in Locked, UnderLock(p)
  PROVE  BranchesAgree' /\ AgreeBy(p)'
<1> USE DEF Locked, Place, Reconciles, Installs, Commits, Midway
<1> DEFINE j == job[p]
<1>0. /\ TypeOK /\ pc \in [Process -> Place] /\ main \in [File -> Blamed]
      /\ trusted \in [File -> Text] /\ agent \in [File -> Text]
      /\ j.snap \in [File -> Text] /\ j.base \in [File -> Text] /\ j.todo \subseteq File
  BY DEF BlameInv, TypeOK, Job
<1>1. AgreeBy(p) /\ HeadsReadBy(p) /\ HumanResolvedBy(p) /\ InstallOfChangedBy(p)
  BY DEF Agree, BlameInv, HeadsRead, HumanResolved, InstallOfChanged
<1>2. pc[p] \notin Midway => \A f \in File \ diverged : main[f].text = Resolve(trusted[f])
  BY DEF Agree, BranchesAgree
<1>3. pc[p] \in Midway => \A f \in File \ diverged : j.main[f].text = Resolve(j.trusted[f])
  BY <1>1 DEF AgreeBy
<1>4. ASSUME NEW l \in {"idle", "ready"}, Leave(p, l),
             \A f \in File \ diverged' : main'[f].text = Resolve(trusted'[f])
      PROVE  BranchesAgree' /\ AgreeBy(p)'
  <2>1. pc'[p] = l  BY <1>0, <1>4 DEF Leave, Goto
  <2>2. BranchesAgree'  BY <1>4 DEF BranchesAgree, Resolve
  <2> QED  BY <2>1, <2>2 DEF AgreeBy
<1>5. AfterError(p) \in {"idle", "ready"}
  BY DEF AfterError
<1>6. CASE RecRead(p)
  <2>1. UNCHANGED <<main, trusted, diverged>>  BY <1>6 DEF RecRead
  <2>2. /\ pc[p] = "recLocked" /\ pc'[p] = "recRead"
        /\ job'[p].trusted = trusted /\ job'[p].main = main
    BY <1>0, <1>6, RecReadJob
  <2> QED  BY <1>2, <2>1, <2>2 DEF BranchesAgree, AgreeBy, Resolve
<1>7. CASE CommitRead(p)
  <2>1. UNCHANGED <<main, trusted, diverged>> /\ pc[p] = "comLocked" /\ pc'[p] = "comRead"
    BY <1>0, <1>7 DEF CommitRead, Goto
  <2>2. job'[p].trusted = trusted /\ job'[p].main = main
    BY <1>0, <1>7, ReadJob
  <2> QED  BY <1>2, <2>1, <2>2 DEF BranchesAgree, AgreeBy, Resolve
<1>8. CASE \E l \in {"idle", "ready"} : Leave(p, l) /\ UNCHANGED <<main, trusted, diverged>>
           /\ pc[p] \notin Midway
  BY <1>2, <1>4, <1>8
<1>9. ASSUME SameRead(p), UNCHANGED <<main, trusted, diverged>>,
             pc[p] \in {"recRead", "comRead"} \cup Installs,
             pc'[p] \in {"recStable"} \cup Installs
      PROVE  BranchesAgree' /\ AgreeBy(p)'
  BY <1>1, <1>2, <1>9 DEF BranchesAgree, AgreeBy, Resolve, SameRead
<1>10. CASE RecStable(p) /\ ~Leave(p, "ready")
  <2>1. SameRead(p)  BY <1>0, <1>10, TodoJob DEF RecStable
  <2> QED  BY <1>0, <1>9, <1>10, <2>1 DEF RecStable, Goto
<1>11. CASE CommitCheck(p) \/ CommitRecheck(p) \/ (Install(p) /\ ~InstallFail(p))
  <2>1. SameRead(p)
    BY <1>0, <1>11, TodoJob, TakeJob, PutJob, DropJob, PlainJob
       DEF CommitCheck, CommitRecheck, Install, InstallRefuse
  <2>2. /\ UNCHANGED <<main, trusted, diverged>>
        /\ pc[p] \in {"comRead"} \cup Installs /\ pc'[p] \in Installs
    BY <1>0, <1>11
       DEF CommitCheck, CommitRecheck, Install, InstallTake, InstallPut,
           InstallDiscard, InstallRefuse, InstallRestore, Goto
  <2> QED  BY <1>9, <2>1, <2>2
<1>12. CASE RecApply(p)
  <2>1. /\ pc[p] = "recStable" /\ pc'[p] = "recApplied"
        /\ UNCHANGED <<main, trusted, diverged, job>>
        /\ \A f \in j.todo : agent'[f] = Merge(j.listed[f], j.base[f], j.snap[f])
    BY <1>0, <1>12 DEF RecApply, Goto
  <2>2. \A f \in j.todo : Resolve(agent'[f]) = j.snap[f]
    BY <1>0, <1>1, <2>1, MergeResolves DEF HumanResolvedBy
  <2> QED  BY <1>1, <1>2, <2>1, <2>2 DEF BranchesAgree, AgreeBy, Resolve
<1>13. CASE RecTrusted(p)
  <2>1. /\ pc[p] = "recApplied" /\ pc'[p] = "recTrusted"
        /\ UNCHANGED <<main, diverged, job>>
    BY <1>0, <1>13 DEF RecTrusted, Goto
  <2>2. /\ \A f \in j.todo : trusted'[f] = agent[f]
        /\ \A f \in File \ j.todo : trusted'[f] = trusted[f]
    BY <1>0, <1>13 DEF RecTrusted, CommitTrustedBranch
  <2>3. \A f \in j.todo : Resolve(trusted'[f]) = j.snap[f]
    BY <1>1, <2>1, <2>2 DEF AgreeBy
  <2>4. \A f \in File \ j.todo : trusted'[f] = j.trusted[f]
    BY <1>1, <2>1, <2>2 DEF HeadsReadBy
  <2> QED  BY <1>1, <2>1, <2>3, <2>4 DEF BranchesAgree, AgreeBy, Resolve
<1>14. CASE RecMain(p)
  <2>1. /\ pc[p] = "recTrusted" /\ UNCHANGED trusted /\ diverged' = diverged \ j.todo
        /\ \A f \in j.todo : main'[f].text = j.snap[f]
        /\ \A f \in File \ j.todo : main'[f] = main[f]
    BY <1>0, <1>14 DEF RecMain, CommitMainBranch
  <2>2. ASSUME NEW f \in File \ diverged' PROVE main'[f].text = Resolve(trusted'[f])
    <3>1. CASE f \in j.todo
      BY <1>1, <2>1, <3>1 DEF AgreeBy
    <3>2. CASE f \notin j.todo
      <4>1. main[f] = j.main[f] /\ trusted[f] = j.trusted[f] /\ f \notin diverged
        BY <1>1, <2>1, <2>2, <3>2 DEF AgreeBy, HeadsReadBy
      <4> QED  BY <1>3, <2>1, <3>2, <4>1
    <3> QED  BY <3>1, <3>2
  <2> QED  BY <1>4, <1>14, <2>2 DEF RecMain
<1>15. CASE RecFail(p) \/ CommitFail(p)
  <2>1. /\ main' = j.main /\ trusted' = j.trusted /\ UNCHANGED diverged
        /\ pc[p] \in Reconciles \cup Installs \cup Commits \cup {"comMain"}
        /\ \E l \in {"idle", "ready"} : Leave(p, l)
    BY <1>5, <1>15 DEF RecFail, CommitFail, ResetBranches
  <2>2. \A f \in File \ diverged : j.main[f].text = Resolve(j.trusted[f])
    BY <1>1, <2>1 DEF AgreeBy
  <2> QED  BY <1>4, <2>1, <2>2
<1>16. CASE CommitTrusted(p)
  <2>1. /\ pc[p] = "installed" /\ pc'[p] = "comTrusted" /\ UNCHANGED <<main, diverged, job>>
        /\ \A f \in Changed(p) : trusted'[f] = j.snap[f]
        /\ \A f \in File \ Changed(p) : trusted'[f] = trusted[f]
    BY <1>0, <1>16 DEF CommitTrusted, CommitTrustedBranch, Goto, Changed
  <2>2. \A f \in File \ Changed(p) : trusted'[f] = j.trusted[f]
    BY <1>1, <2>1 DEF HeadsReadBy
  <2>3. Changed(p)' = Changed(p)  BY <2>1 DEF Changed
  <2> QED  BY <1>1, <2>1, <2>2, <2>3 DEF BranchesAgree, AgreeBy, Resolve
<1>17. CASE CommitRestore(p)
  <2>1. /\ pc[p] = "comTrusted" /\ UNCHANGED <<main, trusted>>
    BY <1>17 DEF CommitRestore
  <2>2. CASE Leave(p, "idle")
    <3>1. diverged' = diverged \cup Changed(p)
      BY <1>0, <1>17, <2>2 DEF CommitRestore, Leave, Goto
    <3>2. ASSUME NEW f \in File \ diverged' PROVE main'[f].text = Resolve(trusted'[f])
      <4>1. main[f] = j.main[f] /\ trusted[f] = j.trusted[f]
        BY <1>1, <2>1, <3>1 DEF AgreeBy, HeadsReadBy
      <4> QED  BY <1>3, <2>1, <3>1, <4>1
    <3> QED  BY <1>4, <2>2, <3>2
  <2>3. CASE ~Leave(p, "idle")
    <3>1. pc'[p] \in {"comRestored", "comFailed"} /\ UNCHANGED <<diverged, job>>
      BY <1>0, <1>17, <2>3 DEF CommitRestore, Goto
    <3>2. Changed(p)' = Changed(p)  BY <3>1 DEF Changed
    <3> QED  BY <1>1, <2>1, <3>1, <3>2 DEF BranchesAgree, AgreeBy, Resolve
  <2> QED  BY <2>2, <2>3
<1>18. CASE CommitMainTrusted(p)
  <2>1. /\ pc[p] = "comRestored" /\ pc'[p] = "comMain" /\ UNCHANGED <<trusted, diverged, job>>
        /\ \A f \in File \ j.todo : main'[f] = main[f]
    BY <1>0, <1>18 DEF CommitMainTrusted, CommitMainBranch, Goto
  <2>2. \A f \in File \ j.todo : main'[f] = j.main[f]
    BY <1>1, <2>1 DEF HeadsReadBy
  <2>3. Changed(p)' = Changed(p)  BY <2>1 DEF Changed
  <2> QED  BY <1>1, <2>1, <2>2, <2>3 DEF BranchesAgree, AgreeBy, Resolve
<1>19. CASE CommitMainUntrusted(p)
  <2>1. /\ pc[p] = "comMain" /\ UNCHANGED trusted
        /\ diverged' = (diverged \ j.todo) \cup (Changed(p) \ j.todo)
        /\ \A f \in j.todo : main'[f].text = Desired(p, f)
        /\ \A f \in File \ j.todo : main'[f] = main[f]
    BY <1>0, <1>19 DEF CommitMainUntrusted, CommitMainBranch
  <2>2. ASSUME NEW f \in File \ diverged' PROVE main'[f].text = Resolve(trusted'[f])
    <3>1. CASE f \in j.todo
      <4>1. trusted[f] = j.snap[f]
        BY <1>1, <2>1, <3>1 DEF AgreeBy, InstallOfChangedBy
      <4> QED  BY <2>1, <3>1, <4>1 DEF Desired
    <3>2. CASE f \notin j.todo
      <4>1. main[f] = j.main[f] /\ trusted[f] = j.trusted[f] /\ f \notin diverged
        BY <1>1, <2>1, <2>2, <3>2 DEF AgreeBy
      <4> QED  BY <1>3, <2>1, <3>2, <4>1
    <3> QED  BY <3>1, <3>2
  <2> QED  BY <1>4, <1>19, <2>2 DEF CommitMainUntrusted
<1>20. CASE RecGiveUp(p) \/ CommitGiveUp(p) \/ InstallFail(p) \/ (RecStable(p) /\ Leave(p, "ready"))
  BY <1>5, <1>8, <1>20 DEF RecGiveUp, CommitGiveUp, InstallFail, RecStable
<1> QED
  BY <1>6, <1>7, <1>10, <1>11, <1>12, <1>13, <1>14, <1>15, <1>16, <1>17, <1>18,
     <1>19, <1>20 DEF UnderLock

LEMMA AgreeKept ==
  ASSUME ~RollbackFails, OneProcess, BlameInv, InstallOfChanged, Agree, [Next]_vars
  PROVE  Agree'
<1> USE DEF Locked, Place, Midway, Reconciles, Installs, Commits
<1>1. CASE UNCHANGED vars
  BY <1>1 DEF vars, Agree, BranchesAgree, AgreeBy, Changed, Resolve
<1>2. ASSUME NEW f \in File, HumanStep(f) PROVE Agree'
  BY <1>2, HumanLeaves DEF Agree, BranchesAgree, AgreeBy, Changed, Resolve
<1>3. ASSUME NEW p \in Process, Works(p) PROVE Agree'
  <2>1. \A q \in Process : q = p  BY DEF OneProcess
  <2>2. CASE pc[p] \notin Locked
    <3>1. /\ UNCHANGED <<main, trusted, diverged>>
          /\ pc'[p] \in {"idle", "recListed", "ready", "ran", "comListed",
                         "recLocked", "comLocked"}
      BY <1>3, <2>2, Outside DEF BlameInv
    <3>2. AgreeBy(p)'  BY <3>1 DEF AgreeBy
    <3>3. BranchesAgree'
      BY <2>1, <2>2, <3>1 DEF Agree, BranchesAgree, Resolve
    <3> QED  BY <2>1, <3>2, <3>3 DEF Agree
  <2>3. CASE pc[p] \in Locked
    <3>1. BranchesAgree' /\ AgreeBy(p)'
      BY <1>3, <2>1, <2>3, Inside, AgreeUnderLock
    <3> QED  BY <2>1, <3>1 DEF Agree
  <2> QED  BY <2>2, <2>3
<1> QED  BY <1>1, <1>2, <1>3, StepsUndone

\* One process, any edits and tools, and handlers that may fail at any step but whose
\* rollbacks do not: when the lock is free, a file that neither the human nor a tool
\* has changed since, and that no commit has skipped, shows the human what its Agent
\* text resolves to.
THEOREM OneProcessViewsAgree ==
  ASSUME OneProcess, ~RollbackFails
  PROVE  Spec => []ViewsAgree
<1> DEFINE IInv == BlameHeld /\ Agree
<1>1. Init => IInv
  <2> SUFFICES ASSUME Init PROVE Agree
    BY BlameInitially
  <2>1. \A f \in File : main[f].text = Resolve(trusted[f])  BY DEF Init
  <2>2. Agree
    BY <2>1 DEF Init, Agree, BranchesAgree, AgreeBy, Reconciles, Installs, Commits
  <2> QED  BY <2>2
<1>2. IInv /\ [Next]_vars => IInv'
  BY BlameKept, AgreeKept DEF BlameHeld
<1>3. IInv => ViewsAgree
  <2> SUFFICES ASSUME IInv, lock = Nobody, NEW f \in File \ diverged,
                      human[f] = main[f].text, agent[f] = trusted[f]
               PROVE  human[f] = Resolve(agent[f])
    BY DEF ViewsAgree
  <2>1. \A p \in Process : pc[p] \notin Locked
    BY DualFSAssumption DEF BlameHeld, BlameInv, TypeOK
  <2>2. main[f].text = Resolve(trusted[f])
    BY <2>1 DEF Agree, BranchesAgree, Midway, Commits, Locked
  <2> QED  BY <2>2
<1> QED  BY <1>1, <1>2, <1>3, PTL DEF Spec

---------------------------------------------------------------------------
(***************************************************************************)
(* One process, and a human who only types and deletes: raw data is in the *)
(* Human view only as the main branch has it, or as just installed, so the *)
(* reconciliation never takes any for an edit.                             *)
(***************************************************************************)
Careful ==
  /\ OneProcess
  /\ HumanEdits \cap {"amend", "undo"} = {}
  /\ "exec" \notin ToolWrites

\* While a reconciliation is under way, what it has listed is no raw data.
RawReconciled(p) ==
  LET j == job[p] IN
  /\ pc[p] \in {"recListed", "recLocked"} =>
       \A f \in File : j.listed[f] # "clean" => human[f] \notin Raw
  /\ pc[p] \in Reconciles => \A f \in File :
       /\ j.base[f] \notin Raw /\ j.trusted[f] \notin Raw
       /\ f \in j.todo => human[f] \notin Raw /\ j.snap[f] \notin Raw

\* While an installation is, it is what was there before or what it has put.
RawInstalled(p) ==
  LET j == job[p] IN
  /\ pc[p] \in {"comRead", "comMain"} \cup Installs \cup Commits =>
       \A f \in File : j.trusted[f] \notin Raw /\ j.snap[f] \notin Raw
  /\ pc[p] \in {"installing", "restoring"} =>
       /\ j.todo \cap j.done = {}
       /\ \A f \in File : human[f] \in Raw =>
            human[f] = j.main[f].text \/ (f \in j.done /\ human[f] = Desired(p, f))
  /\ j.moved # None /\ j.moved.text \in Raw => j.moved.text = j.main[j.moved.file].text
  /\ pc[p] \in {"installed", "comMain"} \cup Commits =>
       /\ j.todo \subseteq j.done
       /\ \A f \in File : human[f] \in Raw =>
            human[f] = IF f \in j.todo THEN Desired(p, f) ELSE j.main[f].text

NoRawBy(p) ==
  /\ pc[p] \notin Installs \cup Commits \cup {"comMain"} =>
       \A f \in File : human[f] \in Raw => human[f] = main[f].text
  /\ RawReconciled(p)
  /\ RawInstalled(p)

Symbolized == NoRawInAgentView /\ \A p \in Process : NoRawBy(p)

Base == BlameHeld /\ Agree

LEMMA BaseFacts ==
  ASSUME Base, NEW p \in Process
  PROVE  /\ TypeOK /\ HeadsReadBy(p) /\ InstallOfChangedBy(p) /\ AgreeBy(p) /\ BackupHeldBy(p)
         /\ pc \in [Process -> Place] /\ main \in [File -> Blamed]
         /\ trusted \in [File -> Text] /\ agent \in [File -> Text] /\ human \in [File -> Text]
         /\ job[p].snap \in [File -> Text] /\ job[p].base \in [File -> Text]
         /\ job[p].todo \subseteq File /\ job[p].done \subseteq File
         /\ job[p].moved # None => job[p].moved.file \in File
<1>1. TypeOK /\ BackupHeldBy(p)
  BY BackupByOne DEF Base, BlameHeld, BlameInv
<1> QED
  BY <1>1
     DEF Base, BlameHeld, BlameInv, HeadsRead, InstallOfChanged, Agree, TypeOK, Job, Place

\* What the human types or deletes is no raw data.
LEMMA CarefulHuman ==
  ASSUME Careful, Base, Symbolized, NEW f \in File, HumanStep(f)
  PROVE  Symbolized'
<1>1. human \in [File -> Text]
  BY DEF Base, BlameHeld, BlameInv, TypeOK
<1>2. \A g \in File : human'[g] \in Raw => human'[g] = human[g]
  <2>1. PICK t \in Literal \cup {Absent} : human' = [human EXCEPT ![f] = t]
    BY DEF Careful, HumanStep, HumanTypes, HumanDeletes, HumanAmends, HumanUndoes, HumanSaves
  <2> QED  BY <1>1, <2>1, KindsApart
<1>3. UNCHANGED <<agent, trusted, main, pc, job>>
  BY HumanLeaves
<1>4. \A p \in Process : job[p].todo \subseteq File
  BY DEF Base, BlameHeld, BlameInv, TypeOK, Job
<1>5. NoRawInAgentView'  BY <1>3 DEF Symbolized, NoRawInAgentView
<1>6. ASSUME NEW p \in Process PROVE NoRawBy(p)'
  <2>1. NoRawBy(p)  BY DEF Symbolized
  <2>2. RawReconciled(p)'
    BY <1>2, <1>3, <2>1 DEF NoRawBy, RawReconciled
  <2>3. \A g \in File : Desired(p, g)' = Desired(p, g)
    BY <1>3 DEF Desired
  <2>4. RawInstalled(p)'
    BY <1>2, <1>3, <2>1, <2>3 DEF NoRawBy, RawInstalled
  <2> QED  BY <1>2, <1>3, <2>1, <2>2, <2>4 DEF NoRawBy
<1> QED  BY <1>5, <1>6 DEF Symbolized

\* A place where nothing is remembered of raw data.
LEMMA CarefulIdle ==
  ASSUME NEW p \in Process,
         \A f \in File : human'[f] \in Raw => human'[f] = main'[f].text,
         pc'[p] \in {"idle", "ready", "ran", "comListed", "comLocked"},
         job'[p].moved = None
  PROVE  NoRawBy(p)'
BY DEF NoRawBy, RawReconciled, RawInstalled, Reconciles, Installs, Commits

LEMMA CarefulOutside ==
  ASSUME Careful, Base, Symbolized, NEW p \in Process, Works(p), pc[p] \notin Locked
  PROVE  NoRawInAgentView' /\ NoRawBy(p)'
<1> USE DEF Locked, Place, Reconciles, Installs, Commits
<1>0. /\ TypeOK /\ BackupHeldBy(p) /\ NoRawBy(p)
      /\ pc \in [Process -> Place] /\ agent \in [File -> Text]
  BY BaseFacts DEF Symbolized
<1>1. /\ UNCHANGED <<main, trusted, human>>
      /\ \A f \in File : agent'[f] \in Raw => agent'[f] = agent[f]
  <2>1. CASE UNCHANGED <<agent, human>>
    BY <1>0, <2>1, Outside
  <2>2. CASE ToolStep(p)
    BY <1>0, <2>2, ToolTextsNotRaw, ToolStepLeaves DEF Careful, ToolStep, ToolWrite, ExecWrite
  <2> QED  BY <1>0, <2>1, <2>2, Outside
<1>2. NoRawInAgentView'
  BY <1>1 DEF Symbolized, NoRawInAgentView
<1>3. \A f \in File : human'[f] \in Raw => human'[f] = main'[f].text
  BY <1>0, <1>1 DEF NoRawBy
<1>4. job'[p].moved = None
  <2>1. BackupHeldBy(p)'
    BY BackupKept DEF Base, BlameHeld, BlameInv, Works, Next, BackupHeld, BackupHeldBy
  <2>2. pc'[p] \notin {"installing", "restoring"}  BY <1>0, Outside
  <2> QED  BY <2>1, <2>2 DEF BackupHeldBy
<1>5. CASE StartCall(p) /\ pc'[p] = "recListed"
  <2>1. \A f \in File : job'[p].listed[f] = StatusOf(f)
    <3>1. job' = [job EXCEPT ![p].listed = [f \in File |-> StatusOf(f)]]
      BY <1>0, <1>5 DEF StartCall, Goto
    <3> HIDE DEF Locked, Place, Reconciles, Installs, Commits
    <3>2. job'[p].listed = [f \in File |-> StatusOf(f)]
      BY <1>0, <3>1, ListedJob
    <3> QED  BY <3>2
  <2>2. \A f \in File : job'[p].listed[f] # "clean" => human[f] # main[f].text
    BY <2>1 DEF StatusOf
  <2>3. RawReconciled(p)' /\ RawInstalled(p)'
    BY <1>1, <1>3, <1>4, <1>5, <2>2 DEF RawReconciled, RawInstalled
  <2> QED  BY <1>2, <1>3, <2>3 DEF NoRawBy
<1>6. CASE RecLock(p)
  <2>1. pc[p] = "recListed" /\ pc'[p] = "recLocked" /\ UNCHANGED job
    BY <1>0, <1>6 DEF RecLock, Goto
  <2>2. RawReconciled(p)' /\ RawInstalled(p)'
    BY <1>0, <1>1, <1>4, <2>1 DEF NoRawBy, RawReconciled, RawInstalled
  <2> QED  BY <1>2, <1>3, <2>2 DEF NoRawBy
<1>7. CASE pc'[p] \in {"idle", "ready", "ran", "comListed", "comLocked"}
  BY <1>2, <1>3, <1>4, <1>7, CarefulIdle
<1>8. /\ pc'[p] = "recListed" => StartCall(p)
      /\ pc'[p] = "recLocked" => RecLock(p)
  <2>1. AfterError(p) \in {"idle", "ready"}  BY DEF AfterError
  <2>2. CASE Reconcile(p)
    BY <1>0, <2>1, <2>2
       DEF Reconcile, StartCall, RecLock, RecLockBusy, RecRead, RecStable, RecApply,
           RecTrusted, RecMain, RecFail, RecGiveUp, Goto
  <2>3. CASE Tool(p)
    BY <1>0, <2>3 DEF Tool, ToolWrite, ExecWrite, ToolReturns, Goto
  <2>4. CASE Install(p)
    BY <2>4
       DEF Install, InstallTake, InstallPut, InstallDiscard, InstallRefuse,
           InstallRestore, InstallFail
  <2>5. CASE FileCommit(p) /\ ~Install(p)
    BY <1>0, <2>5
       DEF FileCommit, CommitScan, CommitLock, CommitLockBusy, CommitRead, CommitCheck,
           CommitGiveUp, CommitRecheck, CommitTrusted, CommitRestore,
           CommitMainTrusted, CommitMainUntrusted, CommitFail, Goto
  <2> QED  BY <2>2, <2>3, <2>4, <2>5 DEF Works
<1>9. pc'[p] \in {"idle", "recListed", "ready", "ran", "comListed", "recLocked", "comLocked"}
  BY <1>0, Outside
<1> QED  BY <1>5, <1>6, <1>7, <1>8, <1>9

\* The reconciliation.
LEMMA CarefulReconcile ==
  ASSUME Careful, Base, Symbolized, NEW p \in Process,
         RecRead(p) \/ RecStable(p) \/ RecApply(p) \/ RecTrusted(p) \/ RecMain(p)
           \/ RecFail(p) \/ RecGiveUp(p)
  PROVE  NoRawInAgentView' /\ NoRawBy(p)'
<1> USE DEF Locked, Place, Reconciles, Installs, Commits
<1> DEFINE j == job[p]
<1>0. /\ TypeOK /\ HeadsReadBy(p) /\ BackupHeldBy(p) /\ NoRawBy(p)
      /\ pc \in [Process -> Place] /\ main \in [File -> Blamed]
      /\ trusted \in [File -> Text] /\ agent \in [File -> Text] /\ human \in [File -> Text]
      /\ j.snap \in [File -> Text] /\ j.base \in [File -> Text] /\ j.todo \subseteq File
  BY BaseFacts DEF Symbolized
<1>1. /\ UNCHANGED human /\ j.moved = None
      /\ pc[p] \in {"recLocked"} \cup Reconciles
  BY <1>0
     DEF RecRead, RecStable, RecApply, RecTrusted, RecMain, RecFail, RecGiveUp, BackupHeldBy
<1>2. /\ \A f \in File : agent[f] \notin Raw /\ trusted[f] \notin Raw
      /\ \A f \in File : human[f] \in Raw => human[f] = main[f].text
      /\ RawReconciled(p)
  BY <1>0, <1>1 DEF Symbolized, NoRawInAgentView, NoRawBy
<1>3. ASSUME NEW l \in {"idle", "ready"}, Leave(p, l),
             \A f \in File : human[f] \in Raw => human[f] = main'[f].text
      PROVE  NoRawBy(p)'
  <2>1. pc'[p] = l /\ job'[p].moved = None  BY <1>0, <1>3, LeftEmpty
  <2> QED  BY <1>1, <1>3, <2>1, CarefulIdle
<1>4. AfterError(p) \in {"idle", "ready"}
  BY DEF AfterError
<1>5. ASSUME pc'[p] \in Reconciles, UNCHANGED main, job'[p].moved = None,
             RawReconciled(p)'
      PROVE  NoRawBy(p)'
  BY <1>1, <1>2, <1>5 DEF NoRawBy, RawInstalled
<1>6. CASE RecRead(p)
  <2>1. UNCHANGED <<agent, trusted, main>> /\ pc[p] = "recLocked"  BY <1>6 DEF RecRead
  <2>2. pc'[p] = "recRead" /\ job'[p].moved = j.moved
        /\ job'[p].base = agent /\ job'[p].trusted = trusted
    BY <1>0, <1>6, RecReadJob
  <2>3. ASSUME NEW f \in job'[p].todo
        PROVE  f \in File /\ human[f] \notin Raw /\ job'[p].snap[f] \notin Raw
    <3>1. f \in File /\ j.listed[f] # "clean"
      <4>1. job'[p].todo = {g \in File :
              \/ j.listed[g] = "deleted" /\ agent[g] # Absent
              \/ j.listed[g] \in {"untracked", "modified"} /\ human[g] # Absent}
        BY <1>0, <1>6, RecReadJob
      <4> QED  BY <4>1, <2>3
    <3>2. human[f] \notin Raw  BY <1>2, <2>1, <3>1 DEF RawReconciled
    <3>3. job'[p].snap = [g \in File |->
            IF job[p].listed[g] = "deleted" THEN Absent ELSE human[g]]
      BY <1>0, <1>6, RecReadJob
    <3>4. job'[p].snap[f] = Absent \/ job'[p].snap[f] = human[f]  BY <3>1, <3>3
    <3> QED  BY <3>1, <3>2, <3>4, KindsApart
  <2>4. RawReconciled(p)'
    BY <1>1, <1>2, <2>2, <2>3 DEF RawReconciled
  <2> QED  BY <1>1, <1>2, <1>5, <2>1, <2>2, <2>4 DEF NoRawInAgentView
<1>7. CASE RecStable(p) \/ RecGiveUp(p)
  <2>1. UNCHANGED <<agent, trusted, main>>  BY <1>7 DEF RecStable, RecGiveUp
  <2>2. CASE \E l \in {"idle", "ready"} : Leave(p, l)
    BY <1>2, <1>3, <2>1, <2>2 DEF NoRawInAgentView
  <2>3. CASE RecStable(p) /\ ~Leave(p, "ready")
    <3>1. /\ job' = [job EXCEPT ![p].todo = {f \in j.todo : human[f] = j.snap[f]}]
          /\ pc[p] = "recRead" /\ pc'[p] = "recStable"
      BY <1>0, <2>3 DEF RecStable, Goto
    <3>2. SameRead(p) /\ job'[p].moved = j.moved /\ job'[p].todo \subseteq j.todo
      BY <1>0, <3>1, TodoJob
    <3>3. RawReconciled(p)'
      BY <1>1, <1>2, <3>1, <3>2 DEF RawReconciled, SameRead
    <3> QED  BY <1>1, <1>2, <1>5, <2>1, <3>1, <3>2, <3>3 DEF NoRawInAgentView
  <2> QED  BY <1>4, <1>7, <2>2, <2>3 DEF RecGiveUp
<1>8. CASE RecApply(p)
  <2>1. /\ pc[p] = "recStable" /\ pc'[p] = "recApplied"
        /\ UNCHANGED <<main, trusted, job>>
        /\ \A f \in File : agent'[f] =
             IF f \in j.todo THEN Merge(j.listed[f], j.base[f], j.snap[f]) ELSE agent[f]
    BY <1>0, <1>8 DEF RecApply, Goto
  <2>2. \A f \in File : agent'[f] \notin Raw
    <3> SUFFICES ASSUME NEW f \in File, agent'[f] \in Raw PROVE FALSE
      OBVIOUS
    <3>1. f \in j.todo  BY <1>2, <2>1
    <3>2. Merge(j.listed[f], j.base[f], j.snap[f]) = j.snap[f]
      BY <1>0, <2>1, <3>1, MergedRaw
    <3> QED  BY <1>2, <2>1, <3>1, <3>2 DEF RawReconciled
  <2>3. RawReconciled(p)'
    BY <1>1, <1>2, <2>1 DEF RawReconciled
  <2> QED  BY <1>1, <1>2, <1>5, <2>1, <2>2, <2>3 DEF NoRawInAgentView
<1>9. CASE RecTrusted(p)
  <2>1. /\ pc[p] = "recApplied" /\ pc'[p] = "recTrusted" /\ UNCHANGED <<main, agent, job>>
        /\ \A f \in File : trusted'[f] = agent[f] \/ trusted'[f] = trusted[f]
    BY <1>0, <1>9 DEF RecTrusted, CommitTrustedBranch, Goto
  <2>2. RawReconciled(p)'
    BY <1>1, <1>2, <2>1 DEF RawReconciled
  <2> QED  BY <1>1, <1>2, <1>5, <2>1, <2>2 DEF NoRawInAgentView
<1>10. CASE RecMain(p)
  <2>1. /\ pc[p] = "recTrusted" /\ UNCHANGED <<agent, trusted>>
        /\ \A f \in File \ j.todo : main'[f] = main[f]
    BY <1>0, <1>10 DEF RecMain, CommitMainBranch
  <2>2. \A f \in File : human[f] \in Raw => human[f] = main'[f].text
    BY <1>2, <2>1 DEF RawReconciled
  <2> QED  BY <1>2, <1>3, <1>10, <2>1, <2>2 DEF RecMain, NoRawInAgentView
<1>11. CASE RecFail(p)
  <2>1. /\ pc[p] \in Reconciles /\ main' = j.main /\ trusted' = j.trusted
        /\ \A f \in File : agent'[f] = IF f \in j.todo THEN j.base[f] ELSE agent[f]
    BY <1>11 DEF RecFail, ResetBranches
  <2>2. main' = main  BY <1>0, <2>1 DEF HeadsReadBy
  <2>3. \A f \in File : j.base[f] \notin Raw /\ j.trusted[f] \notin Raw
    BY <1>2, <2>1 DEF RawReconciled
  <2> QED  BY <1>2, <1>3, <1>4, <1>11, <2>1, <2>2, <2>3 DEF RecFail, NoRawInAgentView
<1> QED  BY <1>6, <1>7, <1>8, <1>9, <1>10, <1>11

\* What is put back after a failure was on the main branch, if it is raw.
LEMMA CarefulReinstalled ==
  ASSUME Base, Symbolized, NEW p \in Process,
         pc[p] \in {"installing", "installed", "comMain"} \cup Commits,
         NEW f \in File, Reinstalled(p)[f] \in Raw
  PROVE  Reinstalled(p)[f] = job[p].main[f].text
<1>1. RawInstalled(p)  BY DEF Symbolized, NoRawBy
<1>2. CASE f \in job[p].done /\ human[f] = Desired(p, f)
  BY <1>2 DEF Reinstalled
<1>3. CASE ~(f \in job[p].done /\ human[f] = Desired(p, f))
  <2>1. Reinstalled(p)[f] = human[f]  BY <1>3 DEF Reinstalled
  <2> QED  BY <1>1, <1>3, <2>1 DEF RawInstalled, Commits
<1> QED  BY <1>2, <1>3

\* The installation.
LEMMA CarefulInstall ==
  ASSUME Careful, Base, Symbolized, NEW p \in Process, Install(p)
  PROVE  NoRawInAgentView' /\ NoRawBy(p)'
<1> USE DEF Locked, Place, Reconciles, Installs, Commits
<1> DEFINE j == job[p]
           m == job[p].moved
<1>0. /\ TypeOK /\ HeadsReadBy(p) /\ BackupHeldBy(p) /\ NoRawBy(p)
      /\ pc \in [Process -> Place] /\ human \in [File -> Text]
      /\ j.todo \subseteq File /\ j.done \subseteq File
      /\ (m # None => m.file \in File)
  BY BaseFacts DEF Symbolized
<1>1. UNCHANGED <<agent, trusted, main>> /\ pc[p] \in {"installing", "restoring"}
  BY DEF Install, InstallTake, InstallPut, InstallDiscard, InstallRefuse,
         InstallRestore, InstallFail
<1>2. NoRawInAgentView'
  BY <1>1 DEF Symbolized, NoRawInAgentView
<1> SUFFICES NoRawBy(p)'
  BY <1>2
<1>3. RawInstalled(p)  BY <1>0 DEF NoRawBy
<1>4. ASSUME SameRead(p), pc'[p] \in {"installing", "restoring"},
             job'[p].todo \cap job'[p].done = {},
             \A f \in File : human'[f] \in Raw =>
               human'[f] = j.main[f].text \/ (f \in job'[p].done /\ human'[f] = Desired(p, f)),
             \/ job'[p].moved = None
             \/ job'[p].moved = m
             \/ job'[p].moved.text \in Raw =>
                  job'[p].moved.text = j.main[job'[p].moved.file].text
      PROVE  NoRawBy(p)'
  <2>1. \A f \in File : Desired(p, f)' = Desired(p, f)
    BY <1>4, SameReadKeeps
  <2>2. RawInstalled(p)'
    BY <1>1, <1>3, <1>4, <2>1 DEF RawInstalled, SameRead
  <2> QED  BY <1>4, <2>2 DEF NoRawBy, RawReconciled
<1>5. ASSUME NEW f \in File, InstallTake(p, f) PROVE NoRawBy(p)'
  <2>1. /\ pc[p] = "installing" /\ UNCHANGED pc /\ f \in j.todo
        /\ human' = [human EXCEPT ![f] = Absent]
    BY <1>5 DEF InstallTake
  <2>2. /\ SameRead(p) /\ job'[p].moved = [file |-> f, text |-> human[f]]
        /\ job'[p].done = j.done /\ job'[p].todo = j.todo
    BY <1>0, <1>5, TakeJob
  <2>3. job'[p].moved.file = f /\ job'[p].moved.text = human[f]  BY <2>2
  <2>4. human[f] \in Raw => human[f] = j.main[f].text
    BY <1>3, <2>1 DEF RawInstalled
  <2>5. \A g \in File : human'[g] \in Raw => human'[g] = human[g]
    BY <1>0, <2>1, KindsApart
  <2>6. \A g \in File : human'[g] \in Raw =>
          human'[g] = j.main[g].text \/ (g \in j.done /\ human'[g] = Desired(p, g))
    BY <1>3, <2>1, <2>5 DEF RawInstalled
  <2>7. j.todo \cap j.done = {}  BY <1>3, <2>1 DEF RawInstalled
  <2> QED  BY <1>4, <2>1, <2>2, <2>3, <2>4, <2>6, <2>7
<1>6. CASE InstallPut(p)
  <2>1. /\ pc[p] = "installing" /\ UNCHANGED pc /\ m # None
        /\ human' = [human EXCEPT ![m.file] = Desired(p, m.file)]
    BY <1>6 DEF InstallPut
  <2>2. /\ SameRead(p) /\ job'[p].moved = None
        /\ job'[p].done = j.done \cup {m.file} /\ job'[p].todo = j.todo \ {m.file}
    BY <1>0, <1>6, PutJob
  <2>3. job'[p].todo \cap job'[p].done = {}
    BY <1>3, <2>1, <2>2 DEF RawInstalled
  <2>4. \A g \in File : human'[g] \in Raw =>
          human'[g] = j.main[g].text \/ (g \in job'[p].done /\ human'[g] = Desired(p, g))
    <3> SUFFICES ASSUME NEW g \in File, human'[g] \in Raw
                 PROVE  human'[g] = j.main[g].text
                        \/ (g \in job'[p].done /\ human'[g] = Desired(p, g))
      OBVIOUS
    <3>1. CASE g = m.file
      BY <1>0, <2>1, <2>2, <3>1
    <3>2. CASE g # m.file
      <4>1. human'[g] = human[g]  BY <1>0, <2>1, <3>2
      <4> QED  BY <1>3, <2>1, <2>2, <4>1 DEF RawInstalled
    <3> QED  BY <3>1, <3>2
  <2> QED  BY <1>4, <2>1, <2>2, <2>3, <2>4
<1>7. CASE InstallDiscard(p) \/ InstallRestore(p)
  <2>1. m # None /\ pc'[p] = "installing"
    BY <1>0, <1>7 DEF InstallDiscard, InstallRestore, Goto, BackupHeldBy
  <2>2. /\ SameRead(p) /\ job'[p].moved = None
        /\ job'[p].done = j.done /\ job'[p].todo = j.todo \ {m.file}
    BY <1>0, <1>7, DropJob
  <2>3. job'[p].todo \cap job'[p].done = {}
    BY <1>1, <1>3, <2>2 DEF RawInstalled
  <2>4. \A g \in File : human'[g] = human[g] \/ (g = m.file /\ human'[g] = m.text)
    BY <1>0, <1>7, <2>1 DEF InstallDiscard, InstallRestore
  <2>5. \A g \in File : human'[g] \in Raw =>
          human'[g] = j.main[g].text \/ (g \in job'[p].done /\ human'[g] = Desired(p, g))
    <3> SUFFICES ASSUME NEW g \in File, human'[g] \in Raw
                 PROVE  human'[g] = j.main[g].text
                        \/ (g \in job'[p].done /\ human'[g] = Desired(p, g))
      OBVIOUS
    <3>1. CASE human'[g] = human[g]
      BY <1>1, <1>3, <2>2, <3>1 DEF RawInstalled
    <3>2. CASE g = m.file /\ human'[g] = m.text
      BY <1>3, <2>1, <3>2 DEF RawInstalled
    <3> QED  BY <2>4, <3>1, <3>2
  <2> QED  BY <1>4, <2>1, <2>2, <2>3, <2>5
<1>8. CASE InstallRefuse(p)
  <2>1. pc[p] = "installing" /\ pc'[p] = "restoring" /\ UNCHANGED <<human, job>>
    BY <1>0, <1>8 DEF InstallRefuse, Goto
  <2>2. SameRead(p) /\ job'[p] = j  BY <2>1, PlainJob
  <2> QED  BY <1>3, <1>4, <2>1, <2>2 DEF RawInstalled
<1>9. CASE InstallFail(p)
  <2>1. pc[p] = "installing" /\ human' = Reinstalled(p) /\ Leave(p, "idle")
    BY <1>9 DEF InstallFail
  <2>2. pc'[p] = "idle" /\ job'[p].moved = None  BY <1>0, <2>1, LeftEmpty
  <2>3. \A f \in File : human'[f] \in Raw => human'[f] = main'[f].text
    <3>1. j.main = main  BY <1>0, <2>1 DEF HeadsReadBy
    <3> QED  BY <1>1, <2>1, <3>1, CarefulReinstalled
  <2> QED  BY <2>2, <2>3, CarefulIdle
<1> QED  BY <1>5, <1>6, <1>7, <1>8, <1>9 DEF Install

\* The commits.
LEMMA CarefulCommit ==
  ASSUME Careful, Base, Symbolized, NEW p \in Process,
         CommitRead(p) \/ CommitCheck(p) \/ CommitGiveUp(p) \/ CommitRecheck(p)
           \/ CommitTrusted(p) \/ CommitRestore(p) \/ CommitMainTrusted(p)
           \/ CommitMainUntrusted(p) \/ CommitFail(p)
  PROVE  NoRawInAgentView' /\ NoRawBy(p)'
<1> USE DEF Locked, Place, Reconciles, Installs, Commits
<1> DEFINE j == job[p]
<1>0. /\ TypeOK /\ HeadsReadBy(p) /\ BackupHeldBy(p) /\ NoRawBy(p)
      /\ InstallOfChangedBy(p) /\ AgreeBy(p)
      /\ pc \in [Process -> Place] /\ main \in [File -> Blamed]
      /\ trusted \in [File -> Text] /\ agent \in [File -> Text] /\ human \in [File -> Text]
      /\ j.todo \subseteq File /\ j.done \subseteq File
  BY BaseFacts DEF Symbolized
<1>1. /\ \A f \in File : agent[f] \notin Raw /\ trusted[f] \notin Raw
      /\ RawInstalled(p)
  BY <1>0 DEF Symbolized, NoRawInAgentView, NoRawBy
<1>2. ASSUME Leave(p, "idle"),
             \A f \in File : human'[f] \in Raw => human'[f] = main'[f].text
      PROVE  NoRawBy(p)'
  <2>1. pc'[p] = "idle" /\ job'[p].moved = None  BY <1>0, <1>2, LeftEmpty
  <2> QED  BY <1>2, <2>1, CarefulIdle
<1>3. CASE CommitRead(p)
  <2>1. pc[p] = "comLocked" /\ pc'[p] = "comRead" /\ UNCHANGED <<agent, human, trusted, main>>
    BY <1>0, <1>3 DEF CommitRead, Goto
  <2>2. job'[p].snap = agent /\ job'[p].trusted = trusted /\ job'[p].moved = None
    BY <1>0, <1>3, <2>1, ReadJob DEF BackupHeldBy
  <2>3. RawInstalled(p)' /\ RawReconciled(p)'
    BY <1>1, <2>1, <2>2 DEF RawInstalled, RawReconciled
  <2> QED  BY <1>0, <1>1, <2>1, <2>3 DEF NoRawBy, NoRawInAgentView
<1>4. CASE CommitCheck(p)
  <2>1. pc[p] = "comRead" /\ pc'[p] = "installing" /\ UNCHANGED <<agent, human, trusted, main>>
    BY <1>0, <1>4 DEF CommitCheck, Goto
  <2>2. SameRead(p) /\ job'[p].moved = None /\ job'[p].done = {}
    BY <1>0, <1>4, <2>1, TodoJob DEF CommitCheck, BackupHeldBy, InstallOfChangedBy
  <2>3. \A f \in File : human[f] \in Raw => human[f] = j.main[f].text
    BY <1>0, <2>1 DEF NoRawBy, HeadsReadBy
  <2>4. RawInstalled(p)'
    BY <1>1, <2>1, <2>2, <2>3 DEF RawInstalled, SameRead
  <2> QED  BY <1>1, <2>1, <2>4 DEF NoRawBy, RawReconciled, NoRawInAgentView
<1>5. CASE CommitGiveUp(p)
  BY <1>0, <1>1, <1>2, <1>5 DEF CommitGiveUp, NoRawBy, NoRawInAgentView
<1>6. CASE CommitRecheck(p)
  <2>1. /\ pc[p] = "installing" /\ pc'[p] = "installed" /\ j.moved = None
        /\ UNCHANGED <<agent, human, trusted, main>>
        /\ job' = [job EXCEPT ![p].todo = {f \in j.done : human[f] = Desired(p, f)}]
    BY <1>0, <1>6 DEF CommitRecheck, Goto
  <2>2. SameRead(p) /\ job'[p].moved = None /\ job'[p].done = j.done
        /\ job'[p].todo = {f \in j.done : human[f] = Desired(p, f)}
    BY <1>0, <2>1, TodoJob
  <2>3. \A f \in File : Desired(p, f)' = Desired(p, f)
    BY <2>2, SameReadKeeps
  <2>4. \A f \in File : human[f] \in Raw =>
          human[f] = IF f \in job'[p].todo THEN Desired(p, f) ELSE j.main[f].text
    BY <1>1, <2>1, <2>2 DEF RawInstalled
  <2>5. RawInstalled(p)'
    BY <1>1, <2>1, <2>2, <2>3, <2>4 DEF RawInstalled, SameRead
  <2> QED  BY <1>1, <2>1, <2>5 DEF NoRawBy, RawReconciled, NoRawInAgentView
<1>7. ASSUME UNCHANGED <<human, job>>, pc[p] \in {"installed"} \cup Commits,
             pc'[p] \in {"comMain"} \cup Commits
      PROVE  NoRawBy(p)'
  <2>1. \A f \in File : Desired(p, f)' = Desired(p, f)
    BY <1>7 DEF Desired
  <2>2. RawInstalled(p)'
    BY <1>1, <1>7, <2>1 DEF RawInstalled
  <2> QED  BY <1>7, <2>2 DEF NoRawBy, RawReconciled
<1>8. CASE CommitTrusted(p)
  <2>1. /\ pc[p] = "installed" /\ pc'[p] = "comTrusted" /\ UNCHANGED <<agent, human, job>>
        /\ \A f \in File : trusted'[f] = j.snap[f] \/ trusted'[f] = trusted[f]
    BY <1>0, <1>8 DEF CommitTrusted, CommitTrustedBranch, Goto
  <2> QED  BY <1>1, <1>7, <2>1 DEF RawInstalled, NoRawInAgentView
<1>9. CASE CommitRestore(p)
  <2>1. /\ pc[p] = "comTrusted" /\ UNCHANGED <<human, trusted, main>>
        /\ \A f \in File : agent'[f] = trusted[f] \/ agent'[f] = agent[f]
    BY <1>0, <1>9 DEF CommitRestore
  <2>2. NoRawInAgentView'  BY <1>1, <2>1 DEF NoRawInAgentView
  <2>3. CASE Leave(p, "idle")
    <3>1. j.todo = {}
      BY <1>0, <1>9, <2>3 DEF CommitRestore, Leave, Goto
    <3>2. \A f \in File : human[f] \in Raw => human[f] = main[f].text
      BY <1>0, <1>1, <2>1, <3>1 DEF RawInstalled, HeadsReadBy
    <3> QED  BY <1>2, <2>1, <2>2, <2>3, <3>2
  <2>4. CASE ~Leave(p, "idle")
    <3>1. pc'[p] \in {"comRestored", "comFailed"} /\ UNCHANGED job
      BY <1>0, <1>9, <2>4 DEF CommitRestore, Goto
    <3> QED  BY <1>7, <2>1, <2>2, <3>1
  <2> QED  BY <2>3, <2>4
<1>10. CASE CommitMainTrusted(p)
  <2>1. /\ pc[p] = "comRestored" /\ pc'[p] = "comMain"
        /\ UNCHANGED <<agent, human, trusted, job>>
    BY <1>0, <1>10 DEF CommitMainTrusted, Goto
  <2> QED  BY <1>1, <1>7, <2>1 DEF NoRawInAgentView
<1>11. CASE CommitMainUntrusted(p)
  <2>1. /\ pc[p] = "comMain" /\ UNCHANGED <<agent, human, trusted>>
        /\ \A f \in j.todo : main'[f].text = Desired(p, f)
        /\ \A f \in File \ j.todo : main'[f] = main[f]
    BY <1>0, <1>11 DEF CommitMainUntrusted, CommitMainBranch
  <2>2. \A f \in File : human[f] \in Raw => human[f] = main'[f].text
    BY <1>0, <1>1, <2>1 DEF RawInstalled, AgreeBy
  <2> QED  BY <1>1, <1>2, <1>11, <2>1, <2>2 DEF CommitMainUntrusted, NoRawInAgentView
<1>12. CASE CommitFail(p)
  <2>1. /\ pc[p] \in {"installed", "comMain"} \cup Commits
        /\ main' = j.main /\ trusted' = j.trusted /\ human' = Reinstalled(p)
        /\ \A f \in File : agent'[f] = j.snap[f] \/ agent'[f] = agent[f]
        /\ Leave(p, "idle")
    BY <1>12 DEF CommitFail, ResetBranches
  <2>2. NoRawInAgentView'
    BY <1>1, <2>1 DEF RawInstalled, NoRawInAgentView
  <2>3. \A f \in File : human'[f] \in Raw => human'[f] = main'[f].text
    BY <2>1, CarefulReinstalled
  <2> QED  BY <1>2, <2>1, <2>2, <2>3
<1> QED  BY <1>3, <1>4, <1>5, <1>6, <1>8, <1>9, <1>10, <1>11, <1>12

LEMMA SymbolizedKept ==
  ASSUME ~RollbackFails, Careful, Base, Symbolized, [Next]_vars
  PROVE  Symbolized'
<1>1. CASE UNCHANGED vars
  BY <1>1
     DEF vars, Symbolized, NoRawInAgentView, NoRawBy, RawReconciled, RawInstalled, Desired
<1>2. ASSUME NEW p \in Process, Works(p) PROVE Symbolized'
  <2>1. \A q \in Process : q = p  BY DEF Careful, OneProcess
  <2>2. NoRawInAgentView' /\ NoRawBy(p)'
    <3>1. CASE pc[p] \notin Locked
      BY <1>2, <3>1, CarefulOutside
    <3>2. CASE pc[p] \in Locked
      BY <1>2, <3>2, Inside, CarefulReconcile, CarefulInstall, CarefulCommit DEF UnderLock
    <3> QED  BY <3>1, <3>2
  <2> QED  BY <2>1, <2>2 DEF Symbolized
<1> QED  BY <1>1, <1>2, CarefulHuman, StepsUndone

\* One process, a human who types and deletes, tools that write text, symbols or
\* nothing, and handlers that may fail at any step but whose rollbacks do not: no raw
\* data of a source is ever in the Agent view or on the trusted branch.
THEOREM AgentViewIsSymbolic ==
  ASSUME Careful, ~RollbackFails
  PROVE  Spec => []NoRawInAgentView
<1> DEFINE IInv == Base /\ Symbolized
<1>1. Init => IInv
  <2> SUFFICES ASSUME Init PROVE IInv
    OBVIOUS
  <2> USE DEF Reconciles, Installs, Commits
  <2>1. \A f \in File : main[f].text = Resolve(trusted[f]) /\ human[f] = main[f].text
    BY DEF Init
  <2>2. Base
    BY <2>1, BlameInitially DEF Init, Base, Agree, BranchesAgree, AgreeBy
  <2>3. NoRawInAgentView
    <3>1. \A s \in Source : SymbolOf(s) \in Symbol  BY DEF SymbolOf, Symbol, Part
    <3> QED  BY <3>1, KindsApart DEF Init, NoRawInAgentView
  <2>4. Symbolized
    BY <2>1, <2>3, NoJobEmpty DEF Init, Symbolized, NoRawBy, RawReconciled, RawInstalled
  <2> QED  BY <2>2, <2>4
<1>2. IInv /\ [Next]_vars => IInv'
  <2> SUFFICES ASSUME IInv, [Next]_vars PROVE IInv'
    OBVIOUS
  <2>1. OneProcess  BY DEF Careful
  <2> QED
    BY <2>1, BlameKept, AgreeKept, SymbolizedKept DEF Base, BlameHeld
<1>3. IInv => NoRawInAgentView  BY DEF Symbolized
<1> QED  BY <1>1, <1>2, <1>3, PTL DEF Spec

---------------------------------------------------------------------------
(***************************************************************************)
(* The two branches as one: DualFS implements TwoBranches.                 *)
(***************************************************************************)
\* What the commits of a cycle have put on the branches so far.
HalfwayBy(p) ==
  LET j == job[p] IN
  /\ pc[p] = "recTrusted" => \A f \in File \ j.todo : trusted[f] = j.trusted[f]
  /\ pc[p] \in Commits \cup {"comMain"} => \A f \in File :
       trusted[f] = IF f \in Changed(p) THEN j.snap[f] ELSE j.trusted[f]
  /\ pc[p] = "comMain" => \A f \in File :
       main[f] = IF f \in j.todo /\ j.snap[f] # j.main[f].text
                 THEN [text |-> j.snap[f], by |-> "TRUSTED"] ELSE j.main[f]

Halfway == \A p \in Process : HalfwayBy(p)

LEMMA HalfwayUnderLock ==
  ASSUME TypeOK, HeadsRead, NEW p \in Process, HalfwayBy(p), pc[p] \in Locked, UnderLock(p)
  PROVE  HalfwayBy(p)'
<1> USE DEF Locked, Place, Reconciles, Installs, Commits
<1>0. pc \in [Process -> Place] /\ main \in [File -> Blamed] /\ trusted \in [File -> Text]
  BY DEF TypeOK
<1>1. HeadsReadBy(p)
  BY DEF HeadsRead
<1>2. CASE pc'[p] \notin {"recTrusted", "comMain"} \cup Commits
  BY <1>2 DEF HalfwayBy
<1>3. CASE RecTrusted(p)
  <2>1. /\ pc[p] = "recApplied" /\ pc'[p] = "recTrusted" /\ UNCHANGED job
        /\ \A f \in File \ job[p].todo : trusted'[f] = trusted[f]
    BY <1>0, <1>3 DEF RecTrusted, CommitTrustedBranch, Goto
  <2> QED  BY <1>1, <2>1 DEF HalfwayBy, HeadsReadBy
<1>4. CASE CommitTrusted(p)
  <2>1. /\ pc[p] = "installed" /\ pc'[p] = "comTrusted" /\ UNCHANGED job
        /\ \A f \in File :
             trusted'[f] = IF f \in Changed(p) THEN job[p].snap[f] ELSE trusted[f]
    BY <1>0, <1>4 DEF CommitTrusted, CommitTrustedBranch, Goto
  <2>2. Changed(p)' = Changed(p)  BY <2>1 DEF Changed
  <2> QED  BY <1>1, <2>1, <2>2 DEF HalfwayBy, HeadsReadBy
<1>5. CASE CommitRestore(p) /\ ~Leave(p, "idle")
  <2>1. /\ pc[p] = "comTrusted" /\ pc'[p] \in {"comFailed", "comRestored"}
        /\ UNCHANGED <<trusted, job>>
    BY <1>0, <1>5 DEF CommitRestore, Goto
  <2>2. Changed(p)' = Changed(p)  BY <2>1 DEF Changed
  <2> QED  BY <2>1, <2>2 DEF HalfwayBy
<1>6. CASE CommitMainTrusted(p)
  <2>1. /\ pc[p] = "comRestored" /\ pc'[p] = "comMain" /\ UNCHANGED <<trusted, job>>
        /\ \A f \in File :
             main'[f] = IF f \in job[p].todo /\ job[p].snap[f] # main[f].text
                        THEN [text |-> job[p].snap[f], by |-> "TRUSTED"] ELSE main[f]
    BY <1>0, <1>6 DEF CommitMainTrusted, CommitMainBranch, Goto
  <2>2. Changed(p)' = Changed(p)  BY <2>1 DEF Changed
  <2> QED  BY <1>1, <2>1, <2>2 DEF HalfwayBy, HeadsReadBy
<1>7. CASE \E l \in {"idle", "ready"} : Leave(p, l)
  BY <1>0, <1>2, <1>7 DEF Leave, Goto
<1>8. CASE RecRead(p) \/ RecStable(p) \/ RecApply(p) \/ CommitRead(p) \/ CommitCheck(p)
           \/ (Install(p) /\ ~InstallFail(p)) \/ CommitRecheck(p)
  BY <1>0, <1>2, <1>8
     DEF RecRead, RecStable, RecApply, CommitRead, CommitCheck, Install, InstallTake,
         InstallPut, InstallDiscard, InstallRefuse, InstallRestore, CommitRecheck,
         Leave, Goto
<1>9. CASE RecMain(p) \/ RecFail(p) \/ RecGiveUp(p) \/ CommitGiveUp(p) \/ InstallFail(p)
           \/ CommitMainUntrusted(p) \/ CommitFail(p)
  <2>1. AfterError(p) \in {"idle", "ready"}  BY DEF AfterError
  <2> QED
    BY <1>7, <1>9, <2>1
       DEF RecMain, RecFail, RecGiveUp, CommitGiveUp, InstallFail, CommitMainUntrusted,
           CommitFail
<1> QED
  BY <1>3, <1>4, <1>5, <1>6, <1>7, <1>8, <1>9 DEF UnderLock

LEMMA HalfwayKept ==
  ASSUME ~RollbackFails, TypeOK, HeadsRead, Halfway, [Next]_vars
  PROVE  Halfway'
<1> USE DEF Locked, Place, Commits
<1>1. CASE UNCHANGED vars
  BY <1>1 DEF vars, Halfway, HalfwayBy, Changed
<1>2. ASSUME NEW f \in File, HumanStep(f) PROVE Halfway'
  BY <1>2, HumanLeaves DEF Halfway, HalfwayBy, Changed
<1>3. ASSUME NEW p \in Process, Works(p) PROVE Halfway'
  <2>1. ASSUME NEW q \in Process \ {p} PROVE HalfwayBy(q)'
    <3>1. CASE pc[q] \in Locked
      BY <1>3, <2>1, <3>1, OthersStay, HolderAlone DEF Halfway, HalfwayBy, Changed
    <3>2. CASE pc[q] \notin Locked
      <4>1. pc'[q] = pc[q]  BY <1>3, OthersStay
      <4> QED  BY <3>2, <4>1 DEF HalfwayBy
    <3> QED  BY <3>1, <3>2
  <2>2. HalfwayBy(p)'
    <3>1. CASE pc[p] \in Locked
      BY <1>3, <3>1, Inside, HalfwayUnderLock DEF Halfway
    <3>2. CASE pc[p] \notin Locked
      <4>1. pc'[p] \in (Place \ Locked) \cup {"recLocked", "comLocked"}
        BY <1>3, <3>2, Outside
      <4> QED  BY <4>1 DEF HalfwayBy
    <3> QED  BY <3>1, <3>2
  <2> QED  BY <2>1, <2>2 DEF Halfway
<1> QED  BY <1>1, <1>2, <1>3, StepsUndone

\* What the branches count as, at the places of the process that has the lock.
LEMMA HeadsCount ==
  ASSUME TypeOK
  PROVE  /\ lock = Nobody => CommittedTrusted = trusted /\ CommittedMain = main
         /\ \A p \in Process :
              /\ pc[p] \in Midway =>
                   CommittedTrusted = job[p].trusted /\ CommittedMain = job[p].main
              /\ pc[p] \in Locked \ Midway =>
                   CommittedTrusted = trusted /\ CommittedMain = main
<1>1. \A p \in Process : pc[p] \in Locked <=> lock = p
  BY DEF TypeOK
<1>2. Midway \subseteq Locked  BY DEF Midway, Locked
<1> QED
  BY <1>1, <1>2, DualFSAssumption DEF CommittedTrusted, CommittedMain, HalfCommitted

LEMMA HeadsCountAfter ==
  ASSUME TypeOK'
  PROVE  /\ lock' = Nobody => CommittedTrusted' = trusted' /\ CommittedMain' = main'
         /\ \A p \in Process :
              /\ pc'[p] \in Midway =>
                   CommittedTrusted' = job'[p].trusted /\ CommittedMain' = job'[p].main
              /\ pc'[p] \in Locked \ Midway =>
                   CommittedTrusted' = trusted' /\ CommittedMain' = main'
<1>1. \A p \in Process : pc'[p] \in Locked <=> lock' = p
  BY DEF TypeOK, Locked
<1>2. Midway \subseteq Locked  BY DEF Midway, Locked
<1> QED
  BY <1>1, <1>2, DualFSAssumption
     DEF CommittedTrusted, CommittedMain, HalfCommitted, Midway

\* The steps that leave the branches as they count.
Stutter == UNCHANGED <<CommittedTrusted, CommittedMain, diverged>>

LEMMA WithoutLockStutters ==
  ASSUME TypeOK, TypeOK', NEW p \in Process, Works(p), pc[p] \notin Locked
  PROVE  Stutter
<1>0. Midway \subseteq Locked /\ {"recLocked", "comLocked"} \cap Midway = {}
  BY DEF Midway, Locked
<1>1. UNCHANGED <<main, trusted, diverged>> /\ (UNCHANGED lock \/ TakeLock(p))
  BY WithoutLock
<1>2. CASE HalfCommitted
  <2>1. lock \in Process \ {p} /\ pc[lock] \in Midway
    BY <1>0, <1>2 DEF HalfCommitted, TypeOK
  <2>2. UNCHANGED lock  BY <1>1, <1>2 DEF TakeLock, HalfCommitted
  <2>3. pc'[lock] = pc[lock] /\ job'[lock] = job[lock]  BY <2>1, OthersStay
  <2> QED
    BY <1>1, <1>2, <2>2, <2>3
       DEF Stutter, CommittedTrusted, CommittedMain, HalfCommitted
<1>3. CASE ~HalfCommitted
  <2>1. ~HalfCommitted'
    <3>1. CASE UNCHANGED lock /\ lock # Nobody
      <4>1. lock \in Process \ {p}  BY <3>1 DEF TypeOK
      <4> QED  BY <1>3, <3>1, <4>1, OthersStay DEF HalfCommitted
    <3>2. CASE UNCHANGED lock /\ lock = Nobody
      BY <3>2 DEF HalfCommitted
    <3>3. CASE TakeLock(p)
      <4>1. pc'[p] \notin Midway  BY <1>0, Outside
      <4> QED  BY <3>3, <4>1 DEF TakeLock, HalfCommitted
    <3> QED  BY <1>1, <3>1, <3>2, <3>3
  <2> QED  BY <1>1, <1>3, <2>1 DEF Stutter, CommittedTrusted, CommittedMain
<1> QED  BY <1>2, <1>3

\* Before the first commit, at the first, between two of one cycle, and when
\* everything is taken back.
LEMMA UnderLockStutters ==
  ASSUME TypeOK, TypeOK', HeadsRead, NEW p \in Process, pc[p] \in Locked,
         UnderLock(p), ~RecMain(p), ~CommitMainUntrusted(p),
         ~(CommitRestore(p) /\ Leave(p, "idle"))
  PROVE  Stutter
<1> USE DEF Locked, Place, Reconciles, Installs, Commits, Midway
<1>0. pc \in [Process -> Place] /\ Nobody \notin Process
  BY DualFSAssumption DEF TypeOK
<1>1. HeadsReadBy(p)  BY DEF HeadsRead
<1>2. ASSUME pc[p] \notin Midway, UNCHANGED <<main, trusted, diverged>>,
             lock' = Nobody \/ pc'[p] \in Locked \ Midway
      PROVE  Stutter
  BY <1>2, HeadsCount, HeadsCountAfter DEF Stutter
<1>3. CASE RecRead(p) \/ RecStable(p) \/ RecApply(p) \/ RecGiveUp(p) \/ CommitRead(p)
           \/ CommitCheck(p) \/ CommitGiveUp(p) \/ Install(p) \/ CommitRecheck(p)
  BY <1>0, <1>2, <1>3
     DEF RecRead, RecStable, RecApply, RecGiveUp, CommitRead, CommitCheck, CommitGiveUp,
         Install, InstallTake, InstallPut, InstallDiscard, InstallRefuse, InstallRestore,
         InstallFail, CommitRecheck, Leave, Goto
<1>4. CASE RecTrusted(p) \/ CommitTrusted(p)
  <2>1. /\ pc[p] \in {"recApplied", "installed"} /\ pc'[p] \in {"recTrusted", "comTrusted"}
        /\ UNCHANGED <<main, job, diverged>>
    BY <1>0, <1>4 DEF RecTrusted, CommitTrusted, Goto
  <2>2. job[p].trusted = trusted /\ job[p].main = main
    BY <1>1, <2>1 DEF HeadsReadBy
  <2> QED  BY <2>1, <2>2, HeadsCount, HeadsCountAfter DEF Stutter
<1>5. CASE (CommitRestore(p) /\ ~Leave(p, "idle")) \/ CommitMainTrusted(p)
  <2>1. pc[p] \in Midway /\ pc'[p] \in Midway /\ UNCHANGED <<job, diverged>>
    BY <1>0, <1>5 DEF CommitRestore, CommitMainTrusted, Goto
  <2> QED  BY <2>1, HeadsCount, HeadsCountAfter DEF Stutter
<1>6. CASE RecFail(p) \/ CommitFail(p)
  <2>1. /\ pc[p] \in Reconciles \cup Installs \cup Commits \cup {"comMain"}
        /\ pc[p] \notin Midway => pc[p] \in {"recStable", "recApplied", "installed"}
        /\ lock' = Nobody /\ main' = job[p].main /\ trusted' = job[p].trusted
        /\ UNCHANGED diverged
    BY <1>6 DEF RecFail, CommitFail, ResetBranches, Leave
  <2>2. CommittedTrusted = job[p].trusted /\ CommittedMain = job[p].main
    BY <1>1, <2>1, HeadsCount DEF HeadsReadBy
  <2>3. CommittedTrusted' = trusted' /\ CommittedMain' = main'
    BY <2>1, HeadsCountAfter
  <2> QED  BY <2>1, <2>2, <2>3 DEF Stutter
<1> QED  BY <1>3, <1>4, <1>5, <1>6 DEF UnderLock

\* What the branches count as before and after a cycle.
LEMMA CycleEnds ==
  ASSUME TypeOK, TypeOK', NEW p \in Process, pc[p] \in Midway,
         NEW l, Leave(p, l)
  PROVE  /\ CommittedTrusted = job[p].trusted /\ CommittedMain = job[p].main
         /\ CommittedTrusted' = trusted' /\ CommittedMain' = main'
BY HeadsCount, HeadsCountAfter DEF Leave

LEMMA ResolveChangesSymbols ==
  ASSUME NEW t \in Text
  PROVE  Resolve(t) = t <=> t \notin Symbol
BY ResolvedIsText DEF Resolve

\* The types of the branches as they count.
LEMMA BranchesTyped == TypeOK' => B!TypeOK'
<1> SUFFICES ASSUME TypeOK' PROVE B!TypeOK'
  OBVIOUS
<1>1. \A p \in Process :
        job'[p].trusted \in [File -> Text] /\ job'[p].main \in [File -> Blamed]
  BY DEF TypeOK, Job
<1>2. HalfCommitted' => lock' \in Process
  BY DEF HalfCommitted, TypeOK
<1>3. CommittedTrusted' \in [File -> Text] /\ CommittedMain' \in [File -> Blamed]
  BY <1>1, <1>2 DEF CommittedTrusted, CommittedMain, TypeOK
<1> QED  BY <1>3 DEF B!TypeOK, B!Kind, TypeOK, Blamed, Kind

LEMMA HumanCycles ==
  ASSUME BlameHeld, OneProcess => Agree, Halfway, TypeOK', NEW p \in Process, RecMain(p)
  PROVE  B!HumanCycle
<1> DEFINE j == job[p]
<1>0. /\ TypeOK /\ pc[p] = "recTrusted" /\ pc[p] \in Midway /\ Leave(p, "ready")
      /\ UNCHANGED trusted /\ diverged' = diverged \ j.todo
  BY DEF BlameHeld, BlameInv, RecMain, Midway
<1>1. /\ j.snap \in [File -> Text] /\ j.todo \subseteq File /\ main \in [File -> Blamed]
      /\ trusted \in [File -> Text]
  BY <1>0 DEF TypeOK, Job
<1>2. /\ CommittedTrusted = j.trusted /\ CommittedMain = j.main
      /\ CommittedTrusted' = trusted /\ CommittedMain' = main'
  BY <1>0, CycleEnds
<1>3. j.main = main
  BY <1>0 DEF BlameHeld, BlameInv, HeadsRead, HeadsReadBy, Reconciles
<1>4. \A f \in File : main'[f] =
        IF f \in j.todo /\ j.snap[f] # main[f].text
        THEN [text |-> j.snap[f], by |-> "HUMAN"] ELSE main[f]
  BY DEF RecMain, CommitMainBranch
<1>5. ASSUME NEW f \in File \ j.todo PROVE B!Kept(f)
  <2>1. trusted[f] = j.trusted[f]  BY <1>0 DEF Halfway, HalfwayBy
  <2> QED  BY <1>0, <1>2, <1>3, <1>4, <2>1 DEF B!Kept
<1>6. ASSUME NEW f \in j.todo PROVE B!Edited(f)
  <2>0. f \in File /\ j.snap[f] \in Text /\ trusted[f] \in Text
    BY <1>1
  <2>1. main'[f].text = j.snap[f]
    <3>1. CASE j.snap[f] = main[f].text
      <4>1. main'[f] = main[f]  BY <1>4, <2>0, <3>1
      <4> QED  BY <3>1, <4>1
    <3>2. CASE j.snap[f] # main[f].text
      <4>1. main'[f] = [text |-> j.snap[f], by |-> "HUMAN"]  BY <1>4, <2>0, <3>2
      <4> QED  BY <4>1
    <3> QED  BY <3>1, <3>2
  <2>2. Resolve(j.snap[f]) = j.snap[f]
    <3>1. j.snap[f] \notin Symbol
      BY <1>0, <2>0 DEF BlameHeld, BlameInv, HumanResolved, HumanResolvedBy, Reconciles
    <3> QED  BY <2>0, <3>1, ResolveChangesSymbols
  <2>3. OneProcess => Resolve(trusted[f]) = j.snap[f]
    <3> SUFFICES ASSUME OneProcess PROVE Resolve(trusted[f]) = j.snap[f]
      OBVIOUS
    <3>1. AgreeBy(p)  BY DEF Agree
    <3> QED  BY <1>0, <3>1 DEF AgreeBy
  <2>4. main'[f] # main[f] => main'[f].by = "HUMAN" /\ main'[f].text # main[f].text
    <3> SUFFICES ASSUME main'[f] # main[f]
                 PROVE  main'[f].by = "HUMAN" /\ main'[f].text # main[f].text
      OBVIOUS
    <3>1. j.snap[f] # main[f].text /\ main'[f] = [text |-> j.snap[f], by |-> "HUMAN"]
      BY <1>4, <2>0
    <3> QED  BY <3>1
  <2>5. [u \in Text |-> Resolve(u)][j.snap[f]] = j.snap[f]
    BY <2>0, <2>2
  <2>6. OneProcess => [u \in Text |-> Resolve(u)][trusted[f]] = j.snap[f]
    BY <2>0, <2>3
  <2> QED  BY <1>0, <1>2, <1>3, <2>1, <2>4, <2>5, <2>6 DEF B!Edited
<1> QED  BY <1>5, <1>6 DEF B!HumanCycle

\* A cycle that has skipped every path.
LEMMA SkippedCycles ==
  ASSUME BlameHeld, Halfway, TypeOK', NEW p \in Process, CommitRestore(p), Leave(p, "idle")
  PROVE  B!AgentCycle
<1> DEFINE j == job[p]
<1>0. TypeOK /\ pc \in [Process -> Place]
  BY DEF BlameHeld, BlameInv, TypeOK, Place
<1>1. /\ pc[p] = "comTrusted" /\ pc[p] \in Midway /\ UNCHANGED <<trusted, main>>
      /\ diverged' = diverged \cup Changed(p)
  BY <1>0 DEF CommitRestore, Leave, Goto, Midway
<1>2. /\ CommittedTrusted = j.trusted /\ CommittedMain = j.main
      /\ CommittedTrusted' = trusted /\ CommittedMain' = main
  BY <1>0, <1>1, CycleEnds
<1>3. j.main = main
  BY <1>1 DEF BlameHeld, BlameInv, HeadsRead, HeadsReadBy, Commits
<1>4. ASSUME NEW f \in File PROVE B!Kept(f) \/ B!Skipped(f)
  <2>1. CASE f \in Changed(p)
    BY <1>1, <1>2, <1>3, <2>1 DEF B!Skipped
  <2>2. CASE f \notin Changed(p)
    <3>1. trusted[f] = j.trusted[f]
      BY <1>1, <2>2 DEF Halfway, HalfwayBy, Commits
    <3> QED  BY <1>1, <1>2, <1>3, <2>2, <3>1 DEF B!Kept
  <2> QED  BY <2>1, <2>2
<1> QED  BY <1>4 DEF B!AgentCycle

LEMMA AgentCycles ==
  ASSUME BlameHeld, Halfway, TypeOK', NEW p \in Process, CommitMainUntrusted(p)
  PROVE  B!AgentCycle
<1> DEFINE j == job[p]
<1>0. TypeOK /\ pc[p] = "comMain" /\ pc[p] \in Midway /\ Leave(p, "idle")
      /\ UNCHANGED trusted /\ diverged' = (diverged \ j.todo) \cup (Changed(p) \ j.todo)
  BY DEF BlameHeld, BlameInv, CommitMainUntrusted, Midway
<1>1. /\ j.snap \in [File -> Text] /\ j.main \in [File -> Blamed]
      /\ j.todo \subseteq Changed(p) /\ Changed(p) \subseteq File
  BY <1>0 DEF TypeOK, Job, BlameHeld, InstallOfChanged, InstallOfChangedBy, Changed
<1>2. /\ CommittedTrusted = j.trusted /\ CommittedMain = j.main
      /\ CommittedTrusted' = trusted /\ CommittedMain' = main'
  BY <1>0, CycleEnds
<1>3. \A f \in File :
        /\ trusted[f] = IF f \in Changed(p) THEN j.snap[f] ELSE j.trusted[f]
        /\ main[f] = IF f \in j.todo /\ j.snap[f] # j.main[f].text
                     THEN [text |-> j.snap[f], by |-> "TRUSTED"] ELSE j.main[f]
  BY <1>0 DEF Halfway, HalfwayBy
<1>4. \A f \in File : main'[f] =
        IF f \in j.todo /\ Resolve(j.snap[f]) # main[f].text
        THEN [text |-> Resolve(j.snap[f]), by |-> "UNTRUSTED"] ELSE main[f]
  BY DEF CommitMainUntrusted, CommitMainBranch, Desired
<1>5. ASSUME NEW f \in j.todo PROVE B!Installed(f)
  <2>0. f \in File /\ f \in Changed(p) /\ j.snap[f] \in Text /\ f \notin diverged'
    BY <1>0, <1>1
  <2>1. trusted[f] = j.snap[f]  BY <1>3, <2>0
  <2>2. [u \in Text |-> Resolve(u)][j.snap[f]] = Resolve(j.snap[f])
    BY <2>0
  <2>3. main[f].text = j.snap[f]
    <3>1. CASE j.snap[f] = j.main[f].text
      <4>1. main[f] = j.main[f]  BY <1>3, <2>0, <3>1
      <4> QED  BY <3>1, <4>1
    <3>2. CASE j.snap[f] # j.main[f].text
      <4>1. main[f] = [text |-> j.snap[f], by |-> "TRUSTED"]  BY <1>3, <2>0, <3>2
      <4> QED  BY <4>1
    <3> QED  BY <3>1, <3>2
  <2>4. main'[f] = IF Resolve(j.snap[f]) # j.snap[f]
                   THEN [text |-> Resolve(j.snap[f]), by |-> "UNTRUSTED"]
                   ELSE main[f]
    BY <1>4, <2>0, <2>3
  <2>5. main[f] = IF j.snap[f] # j.main[f].text
                  THEN [text |-> j.snap[f], by |-> "TRUSTED"] ELSE j.main[f]
    BY <1>3, <2>0
  <2> QED  BY <1>2, <2>0, <2>1, <2>2, <2>4, <2>5 DEF B!Installed, B!Resolved
<1>6. ASSUME NEW f \in Changed(p) \ j.todo PROVE B!Skipped(f)
  BY <1>0, <1>1, <1>2, <1>3, <1>4, <1>6 DEF B!Skipped
<1>7. ASSUME NEW f \in File \ Changed(p) PROVE B!Kept(f)
  BY <1>0, <1>1, <1>2, <1>3, <1>4, <1>7 DEF B!Kept
<1> QED  BY <1>5, <1>6, <1>7 DEF B!AgentCycle

LEMMA CyclesAreSteps ==
  ASSUME ~RollbackFails, BlameHeld, TypeOK', OneProcess => Agree, Halfway, [Next]_vars
  PROVE  [B!Next]_(B!branches)
<1>0. TypeOK /\ HeadsRead  BY DEF BlameHeld, BlameInv
<1>1. Stutter => [B!Next]_(B!branches)
  BY DEF Stutter, B!branches
<1>2. CASE UNCHANGED vars
  BY <1>1, <1>2 DEF vars, Stutter, CommittedTrusted, CommittedMain, HalfCommitted
<1>3. ASSUME NEW f \in File, HumanStep(f) PROVE Stutter
  BY <1>3, HumanLeaves DEF Stutter, CommittedTrusted, CommittedMain, HalfCommitted
<1>4. ASSUME NEW p \in Process, Works(p) PROVE [B!Next]_(B!branches)
  <2>1. CASE pc[p] \notin Locked
    BY <1>0, <1>1, <1>4, <2>1, WithoutLockStutters
  <2>2. CASE RecMain(p)
    BY <2>2, HumanCycles, BranchesTyped DEF B!Next
  <2>3. CASE CommitRestore(p) /\ Leave(p, "idle")
    BY <2>3, SkippedCycles, BranchesTyped DEF B!Next
  <2>4. CASE CommitMainUntrusted(p)
    BY <2>4, AgentCycles, BranchesTyped DEF B!Next
  <2> QED  BY <1>0, <1>1, <1>4, <2>1, <2>2, <2>3, <2>4, Inside, UnderLockStutters
<1> QED  BY <1>1, <1>2, <1>3, <1>4, StepsUndone

LEMMA BranchesInitially == Init => B!Init
<1> SUFFICES ASSUME Init PROVE B!Init
  OBVIOUS
<1>1. CommittedTrusted = trusted /\ CommittedMain = main
  BY DEF Init, CommittedTrusted, CommittedMain, HalfCommitted
<1>2. trusted \in [File -> Text] /\ trusted = agent
  BY TypesInitially DEF TypeOK, Init
<1>3. \A f \in File : [u \in Text |-> Resolve(u)][trusted[f]] = Resolve(agent[f])
                      /\ (Resolve(agent[f]) # trusted[f] <=> agent[f] \in Symbol)
  BY <1>2, ResolveChangesSymbols
<1>4. main = [f \in File |->
        [text |-> Resolve(agent[f]),
         by   |-> IF agent[f] \in Symbol THEN "UNTRUSTED" ELSE "TRUSTED"]]
  BY DEF Init
<1>5. diverged = {}  BY DEF Init
<1> QED  BY <1>1, <1>2, <1>3, <1>4, <1>5 DEF B!Init

\* For any processes, edits and tools, whatever is done meanwhile and at whatever
\* step a handler fails, if its rollback does not fail too: each handler commits on
\* both branches at once, or not at all.  The human's text reaches main as it is, a
\* tool's resolved and blamed for what it is.
THEOREM HandlersCommitAtOnce ==
  ASSUME ~RollbackFails
  PROVE  Spec => ImplementsTwoBranches
<1> DEFINE IInv == BlameHeld /\ TypeOK /\ (OneProcess => Agree) /\ Halfway
<1>1. Init => IInv
  <2> SUFFICES ASSUME Init PROVE IInv
    OBVIOUS
  <2>1. \A f \in File : main[f].text = Resolve(trusted[f])  BY DEF Init
  <2>2. Agree
    BY <2>1 DEF Init, Agree, BranchesAgree, AgreeBy, Reconciles, Installs, Commits
  <2>3. Halfway  BY DEF Init, Halfway, HalfwayBy, Commits
  <2> QED  BY <2>2, <2>3, BlameInitially DEF BlameHeld, BlameInv
<1>2. IInv /\ [Next]_vars => IInv'
  BY BlameKept, AgreeKept, HalfwayKept DEF BlameHeld, BlameInv, OneProcess
<1>3. IInv /\ IInv' /\ [Next]_vars => [B!Next]_(B!branches)
  BY CyclesAreSteps
<1> QED
  BY <1>1, <1>2, <1>3, BranchesInitially, PTL DEF Spec, ImplementsTwoBranches, B!Spec

===========================================================================
