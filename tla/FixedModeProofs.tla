---------------------------- MODULE FixedModeProofs ----------------------------
(***************************************************************************)
(* Theorems about FixedMode, for any files and texts, and any number of    *)
(* calls, edits and commits. Those about what is neither committed nor in  *)
(* the Agent view yet assume QuietCommit: the user leaves a file alone     *)
(* while the handler is copying it.                                        *)
(***************************************************************************)
EXTENDS FixedMode, SequenceTheorems, TLAPS

---------------------------------------------------------------------------
(***************************************************************************)
(* Types, and what a handler knows of HEAD.                                *)
(***************************************************************************)
Place == {"idle", "listed", "reported", "ready"} \cup Reconciling \cup Committing

Cycle == [call : 1..MaxCalls, commit : Commit]
TwinCommit == [call : 1..MaxCalls, tree : Tree]

LEMMA ResolvedIsText ==
  ASSUME NEW t \in Text
  PROVE  /\ Resolve(t) \in Text
         /\ Resolve(t) \notin Symbol
         /\ Resolve(Resolve(t)) = Resolve(t)
BY FixedModeAssumption DEF Resolve, Text, Symbol, Raw

LEMMA AbsentIsText == Absent \in Text /\ Resolve(Absent) = Absent
BY FixedModeAssumption DEF Resolve, Text

LEMMA BlankTyped == Blank \in Tree /\ NoCommit \in Commit
BY AbsentIsText, FixedModeAssumption DEF Blank, NoCommit, Tree, Commit

LEMMA NoJobTyped ==
  /\ NoJob \in Job /\ NoJob.todo = {} /\ NoJob.done = {} /\ NoJob.file = None
  /\ NoJob.published = None
<1>1. /\ {} \in SUBSET File /\ None \in File \cup {None} /\ None \in Commit \cup {None}
  OBVIOUS
<1> QED  BY <1>1, BlankTyped, Zenon DEF NoJob, Job

\* What a handler remembers stays typed, field by field.
LEMMA JobFields ==
  ASSUME NEW j \in Job
  PROVE  /\ j.listed \in SUBSET File /\ j.gone \in SUBSET File
         /\ j.fresh \in SUBSET File /\ j.file \in File \cup {None}
         /\ j.todo \in SUBSET File /\ j.done \in SUBSET File
         /\ j.snap \in Tree /\ j.base \in Tree /\ j.index \in Tree
         /\ j.trusted \in Tree /\ j.head \in Commit
         /\ j.published \in Commit \cup {None}
BY DEF Job

LEMMA CommitFields ==
  ASSUME NEW c \in Commit
  PROVE  c.tree \in Tree /\ c.users \in 0..MaxCommits /\ c.humans \in 0..MaxCalls
BY DEF Commit

\* A commit remembers its progress and nothing else.
Plain(j) ==
  /\ j.listed = {} /\ j.gone = {} /\ j.fresh = {}
  /\ j.snap = Blank /\ j.base = Blank /\ j.index = Blank /\ j.trusted = Blank
  /\ j.head = NoCommit /\ j.published = None

LEMMA PlainJob ==
  /\ Plain(NoJob)
  /\ \A j \in Job : Plain(j) /\ j.todo = {} /\ j.done = {} /\ j.file = None => j = NoJob
BY DEF Plain, NoJob, Job

\* What a reconciliation has listed.
LEMMA ListJob ==
  ASSUME NEW listed \in SUBSET File, NEW gone \in SUBSET File, NEW fresh \in SUBSET File,
         job' = [NoJob EXCEPT !.listed = listed, !.gone = gone, !.fresh = fresh]
  PROVE  /\ job' \in Job /\ job'.published = None
         /\ listed = {} /\ gone = {} /\ fresh = {} => job' = NoJob
<1>1. ASSUME NEW j \in Job, job' = [j EXCEPT !.listed = listed, !.gone = gone, !.fresh = fresh]
      PROVE  /\ job' \in Job /\ job'.listed = listed /\ job'.gone = gone /\ job'.fresh = fresh
             /\ job'.published = j.published /\ job'.todo = j.todo /\ job'.done = j.done
             /\ job'.file = j.file /\ job'.snap = j.snap /\ job'.base = j.base
             /\ job'.index = j.index /\ job'.trusted = j.trusted /\ job'.head = j.head
  BY <1>1 DEF Job
<1> QED  BY <1>1, NoJobTyped, PlainJob DEF Plain

\* What it has read under the lock.
LEMMA ReadJob ==
  ASSUME job \in Job, agent \in Tree, trusted \in Tree, human \in Tree, head \in Commit,
         RecRead
  PROVE  /\ job' \in Job /\ job'.head = head /\ job'.trusted = trusted
         /\ job'.base = agent /\ job'.published = job.published
<1>1. PICK todo \in SUBSET File, snap \in Tree :
        job' = [job EXCEPT !.todo = todo, !.snap = snap, !.base = agent,
                           !.trusted = trusted, !.head = head]
  <2> DEFINE todo == {f \in job.listed : IF f \in job.gone THEN agent[f] # Absent
                                                           ELSE human[f] # Absent}
             snap == [f \in File |-> IF f \in job.gone THEN Absent ELSE human[f]]
  <2>1. todo \in SUBSET File  BY JobFields
  <2>2. snap \in Tree  BY AbsentIsText DEF Tree
  <2>3. job' = [job EXCEPT !.todo = todo, !.snap = snap, !.base = agent,
                           !.trusted = trusted, !.head = head]
    BY Zenon DEF RecRead
  <2> QED  BY <2>1, <2>2, <2>3
<1> QED  BY <1>1 DEF Job

\* What it goes on with, and the index.
LEMMA StableJob ==
  ASSUME job \in Job, NEW todo \in SUBSET File, NEW i \in Tree,
         job' = [job EXCEPT !.todo = todo, !.index = i]
  PROVE  /\ job' \in Job /\ job'.todo = todo /\ job'.index = i /\ job'.snap = job.snap
         /\ job'.base = job.base /\ job'.trusted = job.trusted /\ job'.head = job.head
         /\ job'.published = job.published /\ job'.fresh = job.fresh
BY DEF Job

\* What it has published.
LEMMA PublishJob ==
  ASSUME job \in Job, NEW c \in Commit, job' = [job EXCEPT !.published = c]
  PROVE  /\ job' \in Job /\ job'.published = c /\ job'.todo = job.todo /\ job'.snap = job.snap
         /\ job'.base = job.base /\ job'.trusted = job.trusted /\ job'.head = job.head
         /\ job'.fresh = job.fresh /\ job'.index = job.index
BY DEF Job

\* A published commit is on top of the head that was read.
LEMMA PublishedCommit ==
  ASSUME job \in Job, NEW base \in Commit, base.humans < MaxCalls
  PROVE  /\ Published(base) \in Commit
         /\ Published(base).users = base.users
         /\ Published(base).humans = base.humans + 1
         /\ \A f \in File : Published(base).tree[f] =
              IF f \in job.todo THEN job.snap[f] ELSE base.tree[f]
<1>1. PICK tree \in Tree, n \in 0..MaxCalls :
        /\ n = base.humans + 1
        /\ Published(base) = [base EXCEPT !.tree = tree, !.humans = n]
        /\ \A f \in File : tree[f] = IF f \in job.todo THEN job.snap[f] ELSE base.tree[f]
  <2> DEFINE tree == [f \in File |-> IF f \in job.todo THEN job.snap[f] ELSE base.tree[f]]
             n == base.humans + 1
  <2>1. tree \in Tree  BY JobFields, CommitFields DEF Tree
  <2>2. Published(base) = [base EXCEPT !.tree = tree, !.humans = n]
    BY Zenon DEF Published
  <2>3. n \in 0..MaxCalls  BY CommitFields, FixedModeAssumption
  <2>4. \A f \in File : tree[f] = IF f \in job.todo THEN job.snap[f] ELSE base.tree[f]
    OBVIOUS
  <2>5. n = base.humans + 1  OBVIOUS
  <2> HIDE DEF tree, n
  <2> QED  BY <2>1, <2>2, <2>3, <2>4, <2>5
<1>2. ASSUME NEW c, c = [base EXCEPT !.tree = tree, !.humans = n]
      PROVE  c \in Commit /\ c.tree = tree /\ c.users = base.users /\ c.humans = n
  BY <1>2 DEF Commit
<1>3. /\ Published(base) \in Commit /\ Published(base).tree = tree
      /\ Published(base).users = base.users /\ Published(base).humans = n
  BY <1>1, <1>2, Zenon
<1> QED  BY <1>1, <1>3

---------------------------------------------------------------------------
(***************************************************************************)
(* What a handler knows of HEAD: before it publishes, the head it has      *)
(* read, and afterwards its own commit, unless the user has committed      *)
(* meanwhile.                                                              *)
(***************************************************************************)
Before == {"recRead", "recStable", "recApplied", "recTrusted"}
After == {"recPublished", "recChecked", "recRefreshed", "recFailing"}

LEMMA ReconcilingParts == Reconciling = Before \cup After
BY DEF Reconciling, Before, After

HeadKnown ==
  /\ pc = "listed" => job.published = None
  /\ pc \in Before =>
       /\ job.published = None
       /\ head.humans = job.head.humans
       /\ ~moved => head = job.head
  /\ pc \in After =>
       /\ job.published = Published(job.head)
       /\ job.head.humans < MaxCalls
       /\ head.humans = job.head.humans + 1
       /\ ~moved => head = job.published
  /\ pc = "recFailing" => moved

\* A handler that is done has forgotten everything, and one that commits
\* remembers nothing but its progress.
JobFits ==
  /\ pc \in {"idle", "reported", "ready"} => job = NoJob
  /\ pc \in Committing => Plain(job)
  /\ pc \in Committing \ {"comPicked"} => job.file = None
  /\ pc = "comPicked" => job.file \in job.todo

\* There are no more reconciliations in a history than calls.
Counted ==
  /\ pc # "idle" => calls >= 1
  /\ head.humans <= calls
  /\ pc \in Before \cup {"listed"} => head.humans < calls
  /\ \A n \in DOMAIN cycles : cycles[n].commit.humans <= calls

ViewsTyped ==
  /\ agent \in Tree /\ trusted \in Tree /\ human \in Tree /\ index \in Tree
  /\ pending \in SUBSET File /\ staged \in SUBSET File /\ unseen \in SUBSET File
  /\ moved \in BOOLEAN /\ uneven \in BOOLEAN /\ edits \in 0..MaxEdits

HeadTyped ==
  /\ head \in Commit /\ cycles \in Seq(Cycle) /\ twins \in Seq(TwinCommit)
  /\ calls \in 0..MaxCalls /\ commits \in 0..MaxCommits
  /\ head.users = commits

ControlTyped == pc \in Place /\ job \in Job

HeadInv ==
  /\ ViewsTyped /\ HeadTyped /\ ControlTyped
  /\ HeadKnown /\ JobFits /\ Counted

LEMMA HeadInvParts == HeadInv => TypeOK /\ UserCommitsKept
BY DEF HeadInv, ViewsTyped, HeadTyped, ControlTyped, JobFits, TypeOK, UserCommitsKept,
       Place, Cycle, TwinCommit

LEMMA HeadInvInitially == Init => HeadInv
<1> SUFFICES ASSUME Init PROVE HeadInv
  OBVIOUS
<1>1. Start \in Tree  BY FixedModeAssumption DEF Tree, Text
<1>2. [f \in File |-> Resolve(agent[f])] \in Tree
  BY <1>1, ResolvedIsText DEF Init, Tree
<1>3. ViewsTyped
  <2>1. moved \in BOOLEAN /\ uneven \in BOOLEAN  BY Zenon DEF Init
  <2>2. 0 \in 0..MaxEdits  BY FixedModeAssumption
  <2> QED  BY <1>1, <1>2, <2>1, <2>2, Zenon DEF Init, ViewsTyped
<1>4. [NoCommit EXCEPT !.tree = human] \in Commit
  BY <1>3, BlankTyped DEF Commit, ViewsTyped
<1>5. /\ [NoCommit EXCEPT !.tree = human].users = 0
      /\ [NoCommit EXCEPT !.tree = human].humans = 0
  BY DEF NoCommit
<1>6. HeadTyped  BY <1>4, <1>5, FixedModeAssumption DEF Init, HeadTyped
<1> QED
  BY <1>3, <1>5, <1>6, NoJobTyped
     DEF Init, HeadInv, ControlTyped, Place, HeadKnown, JobFits, Counted, Before, After,
         Committing

LEMMA UserKeepsHead ==
  ASSUME HeadInv, User
  PROVE  HeadInv'
<1> USE DEF HeadInv
<1>1. ASSUME NEW f \in File, UserSaves(f) \/ UserStages(f)
      PROVE  HeadInv'
  <2>1. ViewsTyped'
    <3>1. CASE UserSaves(f)
      <4>1. PICK t \in UserText : human' = [human EXCEPT ![f] = t] /\ TakesBack(f, t)
        BY <3>1 DEF UserSaves
      <4>2. t \in Text  BY FixedModeAssumption DEF Text
      <4>3. human' \in Tree  BY <4>1, <4>2 DEF ViewsTyped, Tree
      <4>4. unseen' \in SUBSET File  BY <4>1 DEF TakesBack, ViewsTyped
      <4> QED  BY <3>1, <4>3, <4>4, FixedModeAssumption DEF UserSaves, ViewsTyped, branches
    <3>2. CASE UserStages(f)
      <4>1. index' \in Tree  BY <3>2 DEF UserStages, ViewsTyped, Tree
      <4>2. unseen' \in SUBSET File  BY <3>2 DEF UserStages, TakesBack, ViewsTyped
      <4> QED  BY <3>2, <4>1, <4>2, FixedModeAssumption DEF UserStages, ViewsTyped, branches
    <3> QED  BY <1>1, <3>1, <3>2
  <2>2. UNCHANGED <<branches, pc, job, calls, moved, commits>>
    BY <1>1 DEF UserSaves, UserStages
  <2>3. HeadTyped' /\ ControlTyped'
    BY <2>2 DEF branches, HeadTyped, ControlTyped
  <2>4. HeadKnown' /\ JobFits' /\ Counted'
    BY <2>2 DEF branches, HeadKnown, JobFits, Counted, Published
  <2> QED  BY <2>1, <2>3, <2>4
<1>2. ASSUME UserCommits PROVE HeadInv'
  <2>1. PICK n \in 0..MaxCommits :
          n = head.users + 1 /\ head' = [head EXCEPT !.tree = index, !.users = n]
    <3> DEFINE n == head.users + 1
    <3>1. head' = [head EXCEPT !.tree = index, !.users = n]
      BY <1>2, Zenon DEF UserCommits
    <3>2. n \in 0..MaxCommits
      BY <1>2, FixedModeAssumption DEF UserCommits, HeadTyped
    <3> QED  BY <3>1, <3>2
  <2>2. /\ head' \in Commit /\ head'.users = head.users + 1
        /\ head'.humans = head.humans
    BY <2>1 DEF HeadTyped, ViewsTyped, Commit
  <2>3. ViewsTyped'
    <3>1. unseen' \in SUBSET File
      BY <1>2 DEF UserCommits, ViewsTyped, Differ
    <3>2. moved' = (pc \in Reconciling)
      BY <1>2 DEF UserCommits
    <3>3. moved' \in BOOLEAN
      BY <3>2
    <3> QED  BY <1>2, <3>1, <3>3 DEF UserCommits, ViewsTyped, views, counters
  <2>4. HeadTyped'
    BY <1>2, <2>1, <2>2 DEF UserCommits, HeadTyped, counters
  <2>5. UNCHANGED <<pc, job, calls, cycles>>
    BY <1>2 DEF UserCommits, counters
  <2>6. ControlTyped' /\ JobFits'
    BY <2>5 DEF ControlTyped, JobFits
  <2>7. HeadKnown'
    BY <1>2, <2>2, <2>5, ReconcilingParts DEF UserCommits, HeadKnown, Published, After
  <2>8. Counted'  BY <2>2, <2>5 DEF Counted
  <2> QED  BY <2>3, <2>4, <2>6, <2>7, <2>8
<1> QED  BY <1>1, <1>2 DEF User

\* A step of a handler that leaves HEAD and both histories alone.
LEMMA HeadLeft ==
  ASSUME HeadInv, UNCHANGED <<head, cycles, twins, calls, commits, edits>>,
         agent' \in Tree, trusted' \in Tree, human' \in Tree, index' \in Tree,
         pending' \in SUBSET File, staged' \in SUBSET File, unseen' \in SUBSET File,
         moved' \in BOOLEAN, uneven' \in BOOLEAN, job' \in Job, pc' \in Place,
         HeadKnown', JobFits',
         pc # "idle" \/ pc' = "idle",
         pc' \in Before \cup {"listed"} => pc \in Before \cup {"listed"}
  PROVE  HeadInv'
<1>1. ViewsTyped' /\ HeadTyped' /\ ControlTyped'
  BY DEF HeadInv, ViewsTyped, HeadTyped, ControlTyped
<1>2. Counted'
  BY DEF HeadInv, Counted
<1> QED  BY <1>1, <1>2 DEF HeadInv

LEMMA ReconcileKeepsHead ==
  ASSUME HeadInv, Reconcile
  PROVE  HeadInv'
<1> USE DEF views, branches, history, counters, Goto
<1>0. /\ ViewsTyped /\ HeadTyped /\ ControlTyped /\ HeadKnown /\ JobFits /\ Counted
      /\ job \in Job /\ pc \in Place
      /\ agent \in Tree /\ trusted \in Tree /\ human \in Tree /\ index \in Tree
      /\ pending \in SUBSET File /\ staged \in SUBSET File /\ unseen \in SUBSET File
      /\ moved \in BOOLEAN /\ uneven \in BOOLEAN /\ head \in Commit
  BY DEF HeadInv, ViewsTyped, HeadTyped, ControlTyped
<1>1. CASE RecList
  <2> DEFINE listed == {f \in File : ~Clean(f)} \cup pending
             gone == {f \in listed : /\ human[f] = Absent
                                     /\ index[f] \in {head.tree[f], Absent}}
             fresh == {f \in listed :
                         /\ human[f] # Absent
                         /\ \/ index[f] = Absent
                            \/ head.tree[f] = Absent /\ index[f] = human[f]}
  <2>1. listed \in SUBSET File /\ gone \in SUBSET File /\ fresh \in SUBSET File
        /\ (listed = {} => gone = {} /\ fresh = {})
    BY <1>0
  <2>2. job' = [NoJob EXCEPT !.listed = listed, !.gone = gone, !.fresh = fresh]
    BY <1>1, Zenon DEF RecList
  <2>3. pc' = IF listed = {} THEN "ready" ELSE "listed"
    BY <1>1, Zenon DEF RecList
  <2> HIDE DEF listed, gone, fresh
  <2>4. job' \in Job /\ job'.published = None /\ (listed = {} => job' = NoJob)
    BY <2>1, <2>2, ListJob, Zenon
  <2>5. ViewsTyped'  BY <1>0, <1>1 DEF RecList, ViewsTyped
  <2>6. HeadTyped' /\ calls' = calls + 1 /\ calls \in Nat
    BY <1>0, <1>1, FixedModeAssumption DEF RecList, HeadTyped
  <2>7. ControlTyped'  BY <2>3, <2>4 DEF ControlTyped, Place
  <2>8. HeadKnown'  BY <2>3, <2>4 DEF HeadKnown, Before, After
  <2>9. JobFits'  BY <2>3, <2>4 DEF JobFits, Committing
  <2>10. head.humans \in Nat /\ (\A n \in DOMAIN cycles : cycles[n].commit.humans \in Nat)
    <3>1. \A n \in DOMAIN cycles : cycles[n] \in Cycle  BY <1>0 DEF HeadTyped
    <3> QED  BY <1>0, <3>1, CommitFields DEF Cycle
  <2>11. Counted'  BY <1>0, <1>1, <2>3, <2>6, <2>10 DEF RecList, Counted
  <2> QED  BY <2>5, <2>6, <2>7, <2>8, <2>9, <2>11 DEF HeadInv
<1>2. CASE RecRead
  <2>2. job' \in Job /\ job'.head = head /\ job'.published = job.published
    BY <1>0, <1>2, ReadJob
  <2>3. pc = "listed" /\ pc' = "recRead" /\ UNCHANGED head  BY <1>2 DEF RecRead
  <2>4. HeadKnown'  BY <1>0, <2>2, <2>3 DEF HeadKnown, Before, After
  <2>5. JobFits'  BY <2>3 DEF JobFits, Committing
  <2> QED
    BY <1>0, <1>2, <2>2, <2>3, <2>4, <2>5, HeadLeft
       DEF RecRead, Before, Place, Reconciling

<1>3. CASE RecStable
  <2> DEFINE safe == {f \in job.todo : human[f] = job.snap[f]}
  <2>1. safe \in SUBSET File  BY <1>0, JobFields
  <2>2. /\ moved' = (moved /\ safe # {})
        /\ pc = "recRead" /\ pc' = IF safe = {} THEN "ready" ELSE "recStable"
        /\ job' = IF safe = {} THEN NoJob
                  ELSE [job EXCEPT !.todo = safe, !.index = index]
        /\ UNCHANGED <<views, branches, pending, counters, history>>
    BY <1>3, Zenon DEF RecStable
  <2> HIDE DEF safe
  <2>3. CASE safe = {}
    BY <1>0, <2>2, <2>3, NoJobTyped, HeadLeft
       DEF HeadKnown, JobFits, Before, After, Committing, Place
  <2>4. CASE safe # {}
    <3>1. job' \in Job /\ job'.head = job.head /\ job'.published = job.published
      BY <1>0, <2>1, <2>2, <2>4, StableJob, Zenon
    <3>2. HeadKnown'
      BY <1>0, <2>2, <2>4, <3>1 DEF HeadKnown, Before, After
    <3>3. JobFits'  BY <2>2, <2>4 DEF JobFits, Committing
    <3> QED
      BY <1>0, <2>2, <2>4, <3>1, <3>2, <3>3, HeadLeft DEF Place, Reconciling, Before
  <2> QED  BY <2>3, <2>4
<1>4. CASE RecApply
  <2>1. agent' \in Tree
    <3>1. \A f \in File : Merged(f) \in Text  BY <1>0, JobFields DEF Merged, Tree
    <3> QED  BY <1>0, <1>4, <3>1 DEF RecApply, Tree
  <2>2. HeadKnown' /\ JobFits'
    BY <1>0, <1>4 DEF RecApply, HeadKnown, JobFits, Before, After, Committing
  <2> QED
    BY <1>0, <1>4, <2>1, <2>2, HeadLeft DEF RecApply, Place, Reconciling, Before
<1>5. CASE RecTrusted
  <2>1. trusted' \in Tree  BY <1>0, <1>5 DEF RecTrusted, Tree
  <2>2. HeadKnown' /\ JobFits'
    BY <1>0, <1>5 DEF RecTrusted, HeadKnown, JobFits, Before, After, Committing
  <2> QED
    BY <1>0, <1>5, <2>1, <2>2, HeadLeft DEF RecTrusted, Place, Reconciling, Before
<1>6. CASE RecPublish
  <2>1. /\ pc = "recTrusted" /\ pc' = "recPublished" /\ ~moved /\ ~moved'
        /\ head' = Published(job.head)
        /\ job' = [job EXCEPT !.published = head']
        /\ UNCHANGED <<views, trusted, cycles, twins, pending, counters, moved, history>>
    BY <1>6 DEF RecPublish
  <2>2. job.head = head /\ head.humans < calls /\ calls \in 0..MaxCalls
    BY <1>0, <2>1 DEF HeadKnown, Counted, Before, HeadTyped
  <2>3. head.humans \in 0..MaxCalls /\ head.humans < MaxCalls
    BY <1>0, <2>2, CommitFields, FixedModeAssumption
  <2>4. /\ head' \in Commit /\ head'.users = head.users
        /\ head'.humans = head.humans + 1
    BY <1>0, <2>1, <2>2, <2>3, PublishedCommit
  <2>5. /\ job' \in Job /\ job'.published = head' /\ job'.head = job.head
        /\ job'.todo = job.todo /\ job'.snap = job.snap
    BY <1>0, <2>1, <2>4, PublishJob
  <2>6. ViewsTyped'  BY <1>0, <2>1 DEF ViewsTyped
  <2>7. HeadTyped'  BY <1>0, <2>1, <2>4 DEF HeadTyped
  <2>8. ControlTyped'  BY <2>1, <2>5 DEF ControlTyped, Place, Reconciling
  <2>9. HeadKnown'
    <3>1. Published(job.head)' = Published(job.head)
      BY <2>5, Zenon DEF Published
    <3> QED  BY <2>1, <2>2, <2>3, <2>4, <2>5, <3>1 DEF HeadKnown, Before, After
  <2>10. JobFits'  BY <2>1 DEF JobFits, Committing
  <2>11. Counted'
    BY <1>0, <2>1, <2>2, <2>3, <2>4 DEF Counted, Before
  <2> QED  BY <2>6, <2>7, <2>8, <2>9, <2>10, <2>11 DEF HeadInv
<1>7. ASSUME Advanced, pc \in After
      PROVE  HeadInv'
  <2>1. pending' \in SUBSET File
    BY <1>0, <1>7 DEF Advanced, Differ
  <2>2. HeadKnown'
    <3>1. Published(job.head)' = Published(job.head)
      BY <1>7 DEF Advanced, Published
    <3> QED  BY <1>0, <1>7, <3>1 DEF Advanced, HeadKnown, Before, After
  <2>3. JobFits'  BY <1>7 DEF Advanced, JobFits, Committing
  <2> QED
    BY <1>0, <1>7, <2>1, <2>2, <2>3, HeadLeft
       DEF Advanced, Place, Reconciling, Before, After

<1>8. CASE RecCheck
  <2>1. CASE Advanced  BY <1>7, <1>8, <2>1 DEF RecCheck, After
  <2>2. CASE ~Advanced
    <3>1. /\ pc = "recPublished" /\ pc' = "recChecked"
          /\ UNCHANGED <<views, branches, pending, job, counters, moved, history>>
      BY <1>8, <2>2 DEF RecCheck
    <3>2. HeadKnown' /\ JobFits'
      BY <1>0, <3>1 DEF HeadKnown, Published, JobFits, Before, After, Committing
    <3> QED
      BY <1>0, <3>1, <3>2, HeadLeft DEF Place, Reconciling, Before
  <2> QED  BY <2>1, <2>2
<1>9. CASE RecRefresh
  <2>1. CASE Advanced  BY <1>7, <1>9, <2>1 DEF RecRefresh, After
  <2>2. CASE ~Advanced
    <3>1. /\ pc = "recChecked" /\ pc' = "recRefreshed"
          /\ index' = [f \in File |-> IF f \in Refreshable
                                      THEN job.published.tree[f] ELSE index[f]]
          /\ ~moved
          /\ UNCHANGED <<agent, human, branches, pending, job, counters, moved, history>>
      BY <1>9, <2>2 DEF RecRefresh
    <3>2. head = job.published  BY <1>0, <3>1 DEF HeadKnown, After
    <3>3. index' \in Tree  BY <1>0, <3>1, <3>2, CommitFields DEF Tree
    <3>4. HeadKnown' /\ JobFits'
      BY <1>0, <3>1 DEF HeadKnown, Published, JobFits, Before, After, Committing
    <3> QED
      BY <1>0, <3>1, <3>3, <3>4, HeadLeft DEF Place, Reconciling, Before
  <2> QED  BY <2>1, <2>2
<1>10. CASE RecFinish
  <2>1. CASE Advanced  BY <1>7, <1>10, <2>1 DEF RecFinish, After
  <2>2. CASE ~Advanced
    <3>1. /\ pc = "recRefreshed" /\ pc' = "ready" /\ job' = NoJob
          /\ pending' = pending \ job.todo /\ unseen' = unseen \ job.todo
          /\ staged' = {f \in staged : index[f] # head.tree[f]}
          /\ UNCHANGED <<views, branches, counters, moved, commits, uneven>>
      BY <1>10, <2>2 DEF RecFinish
    <3>2. HeadKnown' /\ JobFits'
      BY <3>1 DEF HeadKnown, JobFits, Before, After, Committing
    <3> QED
      BY <1>0, <3>1, <3>2, NoJobTyped, HeadLeft DEF Place, Before
  <2> QED  BY <2>1, <2>2
<1>11. CASE RecFail
  <2>1. /\ pc \in Reconciling /\ pc' = "ready" /\ job' = NoJob /\ ~moved'
        /\ moved' \in BOOLEAN
        /\ UNCHANGED <<human, index, cycles, twins, counters, history>>
    BY <1>11 DEF RecFail
  <2>2. ControlTyped' /\ HeadKnown' /\ JobFits'
    BY <2>1, NoJobTyped
       DEF ControlTyped, Place, HeadKnown, JobFits, Before, After, Committing
  <2>3. job.base \in Tree /\ job.trusted \in Tree /\ job.head \in Commit
    BY <1>0, JobFields
  <2>4. CASE RecUndo \/ RecPreserve
    <3>1. agent' \in Tree /\ trusted' \in Tree /\ pending' \in SUBSET File
      BY <1>0, <2>3, <2>4
         DEF RecUndo, RecPreserve, RestoreAgent, Tree, Differ
    <3>2. UNCHANGED head  BY <2>4 DEF RecUndo, RecPreserve
    <3> QED
      BY <1>0, <2>1, <2>2, <3>1, <3>2, NoJobTyped, HeadLeft
         DEF Place, Before, Reconciling
  <2>5. CASE RecRewind
    <3>1. agent' \in Tree /\ trusted' \in Tree
      BY <1>0, <2>3, <2>5 DEF RecRewind, RestoreAgent, Tree
    <3>2. pc \in After /\ ~moved /\ head' = job.head
      BY <1>0, <2>1, <2>5, ReconcilingParts DEF RecRewind, HeadKnown
    <3>3. job.head.humans + 1 = head.humans /\ job.head.users = head.users
      BY <1>0, <2>3, <3>2, PublishedCommit DEF HeadKnown, After
    <3>4. ViewsTyped'  BY <1>0, <2>1, <2>5, <3>1 DEF ViewsTyped, RecRewind
    <3>5. HeadTyped'  BY <1>0, <2>1, <2>3, <3>2, <3>3 DEF HeadTyped
    <3>6. head.humans \in Nat /\ job.head.humans \in Nat /\ calls \in Nat
      BY <1>0, <2>3, CommitFields, FixedModeAssumption DEF HeadTyped
    <3>7. Counted'
      BY <1>0, <2>1, <3>2, <3>3, <3>6 DEF Counted, Before, Reconciling
    <3> QED  BY <2>2, <3>4, <3>5, <3>7 DEF HeadInv
  <2> QED  BY <1>11, <2>4, <2>5 DEF RecFail
<1>13. CASE RecUndoFails
  <2>1. /\ pc \in Reconciling /\ pc' = "reported" /\ job' = NoJob /\ ~moved'
        /\ moved' \in BOOLEAN
        /\ UNCHANGED <<human, index, cycles, twins, counters, commits, staged, uneven>>
    BY <1>13 DEF RecUndoFails
  <2>2. ControlTyped' /\ HeadKnown' /\ JobFits'
    BY <2>1, NoJobTyped
       DEF ControlTyped, Place, HeadKnown, JobFits, Before, After, Committing
  <2>3. /\ job.base \in Tree /\ job.trusted \in Tree /\ job.head \in Commit
        /\ job.todo \in SUBSET File
    BY <1>0, JobFields
  <2>4. agent' \in Tree /\ trusted' \in Tree
    <3>1. CASE UNCHANGED <<agent, trusted>>  BY <1>0, <3>1
    <3>2. CASE RestoreFails
      BY <1>0, <2>3, <3>2, AbsentIsText DEF RestoreFails, Tree
    <3> QED  BY <1>13, <3>1, <3>2 DEF RecUndoFails
  <2>5. pending' \in SUBSET File /\ unseen' \in SUBSET File
    <3>1. CASE UNCHANGED <<pending, unseen>>  BY <1>0, <3>1
    <3>2. ASSUME NEW changed, changed \subseteq File, NoteOrMiss(changed)
          PROVE  pending' \in SUBSET File /\ unseen' \in SUBSET File
      BY <1>0, <3>2 DEF NoteOrMiss
    <3>3. /\ Differ(job.published.tree, head.tree) \subseteq File
          /\ (IF moved THEN Differ(job.head.tree, head.tree) ELSE {}) \subseteq File
      BY DEF Differ
    <3> QED  BY <1>13, <3>1, <3>2, <3>3 DEF RecUndoFails
  <2>6. CASE UNCHANGED head
    BY <1>0, <2>1, <2>2, <2>4, <2>5, <2>6, NoJobTyped, HeadLeft
       DEF Place, Before, Reconciling
  <2>7. CASE job.published # None /\ ~moved /\ head' = job.head
    <3>1. pc \in After
      BY <1>0, <2>1, <2>7, ReconcilingParts DEF HeadKnown
    <3>2. job.head.humans + 1 = head.humans /\ job.head.users = head.users
      BY <1>0, <2>3, <2>7, <3>1, PublishedCommit DEF HeadKnown, After
    <3>3. ViewsTyped'  BY <1>0, <2>1, <2>4, <2>5 DEF ViewsTyped
    <3>4. HeadTyped'  BY <1>0, <2>1, <2>3, <2>7, <3>2 DEF HeadTyped
    <3>5. head.humans \in Nat /\ job.head.humans \in Nat /\ calls \in Nat
      BY <1>0, <2>3, CommitFields, FixedModeAssumption DEF HeadTyped
    <3>6. Counted'
      BY <1>0, <2>1, <2>7, <3>2, <3>5 DEF Counted, Before, Reconciling
    <3> QED  BY <2>2, <3>3, <3>4, <3>6 DEF HeadInv
  <2> QED  BY <1>13, <2>6, <2>7 DEF RecUndoFails
<1>14. CASE RecReport
  <2>1. /\ pc = "reported" /\ pc' = "ready" /\ job = NoJob
        /\ UNCHANGED <<views, branches, pending, job, counters, moved, history>>
    BY <1>0, <1>14 DEF RecReport, JobFits
  <2>2. HeadKnown' /\ JobFits'
    BY <2>1 DEF HeadKnown, JobFits, Before, After, Committing
  <2> QED
    BY <1>0, <2>1, <2>2, HeadLeft DEF Place, Before
<1>12. CASE RecGiveUp
  <2>1. /\ pc \in {"listed", "recRead"} /\ pc' = "ready" /\ job' = NoJob
        /\ moved' \in BOOLEAN
        /\ UNCHANGED <<views, branches, pending, counters, history>>
    BY <1>12 DEF RecGiveUp
  <2>2. HeadKnown' /\ JobFits'
    BY <2>1 DEF HeadKnown, JobFits, Before, After, Committing
  <2> QED
    BY <1>0, <2>1, <2>2, NoJobTyped, HeadLeft DEF Place, Before
<1> QED
  BY <1>1, <1>2, <1>3, <1>4, <1>5, <1>6, <1>8, <1>9, <1>10, <1>11, <1>12, <1>13, <1>14
     DEF Reconcile

\* The first commits of a history.
LEMMA FirstCommits ==
  ASSUME NEW S, NEW s \in Seq(S), NEW n \in DOMAIN s
  PROVE  /\ SubSeq(s, 1, n) \in Seq(S) /\ Len(SubSeq(s, 1, n)) = n
         /\ DOMAIN SubSeq(s, 1, n) = 1..n
         /\ \A i \in 1..n : i \in DOMAIN s /\ SubSeq(s, 1, n)[i] = s[i]
<1>1. n \in 1..Len(s) /\ Len(s) \in Nat  OBVIOUS
<1>2. 1 \in 1..Len(s)+1 /\ n \in (1-1)..Len(s)  BY <1>1
<1>3. /\ SubSeq(s, 1, n) \in Seq(S) /\ Len(SubSeq(s, 1, n)) = n
      /\ \A i \in 1..n : SubSeq(s, 1, n)[i] = s[i]
  BY <1>1
<1> QED  BY <1>1, <1>3

LEMMA ToolKeepsHead ==
  ASSUME HeadInv, Tool
  PROVE  HeadInv'
<1> USE DEF views, branches, history, counters, Goto
<1>0. /\ ViewsTyped /\ HeadTyped /\ ControlTyped /\ HeadKnown /\ JobFits /\ Counted
      /\ job \in Job /\ pc \in Place
      /\ agent \in Tree /\ trusted \in Tree /\ human \in Tree /\ index \in Tree
      /\ pending \in SUBSET File /\ staged \in SUBSET File /\ unseen \in SUBSET File
      /\ moved \in BOOLEAN /\ uneven \in BOOLEAN /\ head \in Commit
  BY DEF HeadInv, ViewsTyped, HeadTyped, ControlTyped
<1>1. ASSUME NEW f \in File, ToolWrites(f) PROVE HeadInv'
  <2>1. agent' \in Tree
    <3>1. AgentText[f] \subseteq Text  BY FixedModeAssumption DEF Text
    <3> QED  BY <1>0, <1>1, <3>1 DEF ToolWrites, Tree
  <2>2. HeadKnown' /\ JobFits'
    BY <1>0, <1>1 DEF ToolWrites, HeadKnown, JobFits, Before, After, Committing
  <2> QED  BY <1>0, <1>1, <2>1, <2>2, HeadLeft DEF ToolWrites, Before
<1>2. ASSUME NEW n \in 1..MaxCalls, Revert(n) PROVE HeadInv'
  <2> DEFINE back == IF Twin(n) \in DOMAIN twins THEN twins[Twin(n)].tree ELSE trusted
  <2>1. /\ pc = "ready" /\ n \in DOMAIN cycles
        /\ head' = cycles[n].commit /\ index' = head'.tree
        /\ human' = ResetHard(human, index, head'.tree)
        /\ cycles' = SubSeq(cycles, 1, n)
        /\ trusted' = back
        /\ agent' = ResetHard(agent, trusted, back)
        /\ twins' = IF Twin(n) \in DOMAIN twins THEN SubSeq(twins, 1, Twin(n)) ELSE twins
        /\ commits' = head'.users /\ staged' = {}
        /\ UNCHANGED <<pending, pc, job, counters, moved, uneven>>
    BY <1>2, Zenon DEF Revert
  <2>2. cycles[n] \in Cycle  BY <1>0, <2>1 DEF HeadTyped
  <2>3. head' \in Commit /\ head'.tree \in Tree /\ head'.users \in 0..MaxCommits
    BY <2>1, <2>2, CommitFields DEF Cycle
  <2>4. back \in Tree
    <3>1. \A m \in DOMAIN twins : twins[m] \in TwinCommit  BY <1>0 DEF HeadTyped
    <3> QED  BY <1>0, <3>1 DEF TwinCommit
  <2> HIDE DEF back
  <2>5. agent' \in Tree /\ human' \in Tree
    BY <1>0, <2>1, <2>3, <2>4 DEF ResetHard, Tree
  <2>6. ViewsTyped'
    <3>1. unseen' \in SUBSET File  BY <1>2 DEF Revert
    <3> QED  BY <1>0, <2>1, <2>3, <2>4, <2>5, <3>1 DEF ViewsTyped
  <2>7. /\ cycles' \in Seq(Cycle) /\ DOMAIN cycles' = 1..n
        /\ \A i \in DOMAIN cycles' : i \in DOMAIN cycles /\ cycles'[i] = cycles[i]
    BY <1>0, <2>1, FirstCommits DEF HeadTyped
  <2>8. twins' \in Seq(TwinCommit)  BY <1>0, <2>1, FirstCommits DEF HeadTyped
  <2>9. HeadTyped'  BY <1>0, <2>1, <2>3, <2>7, <2>8 DEF HeadTyped
  <2>10. ControlTyped' /\ HeadKnown' /\ JobFits'
    BY <1>0, <2>1 DEF ControlTyped, HeadKnown, JobFits, Before, After, Committing
  <2>11. Counted'  BY <1>0, <2>1, <2>7 DEF Counted, Before
  <2> QED  BY <2>6, <2>9, <2>10, <2>11 DEF HeadInv
<1> QED  BY <1>1, <1>2 DEF Tool

\* The index that is committed, and the commit.
LEMMA IndexCommitted ==
  ASSUME human \in Tree, index \in Tree, head \in Commit, CommitIndex
  PROVE  /\ index' \in Tree /\ head' \in Commit /\ head'.tree = index'
         /\ head'.users = head.users /\ head'.humans = head.humans
         /\ \A f \in File :
              index'[f] = IF Addable /\ f \in job.done THEN human[f] ELSE index[f]
<1>1. /\ index' \in Tree
      /\ \A f \in File :
           index'[f] = IF Addable /\ f \in job.done THEN human[f] ELSE index[f]
  BY DEF CommitIndex, Tree
<1> QED  BY <1>1 DEF CommitIndex, Commit

\* The file that is copied is one of those to do.
LEMMA NextIsToDo ==
  ASSUME job.todo # {}
  PROVE  NextFile \in job.todo
BY DEF NextFile

\* What it has to do, has done, and is copying.
LEMMA TrustedJob ==
  ASSUME ComTrusted
  PROVE  /\ job' \in Job /\ Plain(job') /\ job'.todo = Differ(agent, trusted)
         /\ job'.done = {} /\ job'.file = None
<1>1. PICK todo \in SUBSET File :
        todo = Differ(agent, trusted) /\ job' = [NoJob EXCEPT !.todo = todo]
  BY Zenon DEF ComTrusted, Differ
<1> QED  BY <1>1, NoJobTyped, PlainJob DEF Job, Plain

LEMMA PickJob ==
  ASSUME job \in Job, Plain(job), job.file = None, ComPick
  PROVE  /\ job' \in Job /\ Plain(job') /\ job'.done = job.done
         /\ Clean(NextFile) =>
              pc' = "comPicked" /\ job'.todo = job.todo /\ job'.file = NextFile
         /\ ~Clean(NextFile) =>
              /\ UNCHANGED pc /\ job'.todo = job.todo \ {NextFile}
              /\ job'.file = None
<1>1. NextFile \in File  BY NextIsToDo, JobFields DEF ComPick
<1>2. CASE Clean(NextFile)
  <2>1. job' = [job EXCEPT !.file = NextFile] /\ pc' = "comPicked"
    BY <1>2 DEF ComPick, Goto
  <2> QED  BY <1>1, <1>2, <2>1 DEF Job, Plain
<1>3. CASE ~Clean(NextFile)
  <2>1. PICK todo \in SUBSET File :
          todo = job.todo \ {NextFile} /\ job' = [job EXCEPT !.todo = todo]
    BY <1>3, JobFields DEF ComPick
  <2>2. UNCHANGED pc  BY <1>3 DEF ComPick
  <2> QED  BY <1>3, <2>1, <2>2 DEF Job, Plain
<1> QED  BY <1>2, <1>3

LEMMA CopyJob ==
  ASSUME job \in Job, Plain(job), job.file \in File, ComCopy
  PROVE  /\ job' \in Job /\ Plain(job') /\ job'.file = None
         /\ job'.todo = job.todo \ {job.file} /\ job'.done = job.done \cup {job.file}
<1>1. PICK todo \in SUBSET File, done \in SUBSET File :
        /\ todo = job.todo \ {job.file} /\ done = job.done \cup {job.file}
        /\ job' = [job EXCEPT !.todo = todo, !.done = done, !.file = None]
  <2> DEFINE todo == job.todo \ {job.file}
             done == job.done \cup {job.file}
  <2>1. todo \in SUBSET File /\ done \in SUBSET File  BY JobFields
  <2>2. job' = [job EXCEPT !.todo = todo, !.done = done, !.file = None]
    BY Zenon DEF ComCopy
  <2> QED  BY <2>1, <2>2
<1> QED  BY <1>1 DEF Job, Plain

LEMMA CommitKeepsHead ==
  ASSUME HeadInv, CommitFiles
  PROVE  HeadInv'
<1> USE DEF views, branches, history, counters, Goto
<1>0. /\ ViewsTyped /\ HeadTyped /\ ControlTyped /\ HeadKnown /\ JobFits /\ Counted
      /\ job \in Job /\ pc \in Place
      /\ agent \in Tree /\ trusted \in Tree /\ human \in Tree /\ index \in Tree
      /\ pending \in SUBSET File /\ staged \in SUBSET File /\ unseen \in SUBSET File
      /\ moved \in BOOLEAN /\ uneven \in BOOLEAN /\ head \in Commit
  BY DEF HeadInv, ViewsTyped, HeadTyped, ControlTyped
<1>a. job.todo \in SUBSET File /\ job.done \in SUBSET File  BY <1>0, JobFields
<1>b. ASSUME pc' \notin Before \cup After \cup {"listed"}
      PROVE  HeadKnown'
  BY <1>b DEF HeadKnown, After
<1>1. CASE ComNothing
  <2>1. HeadKnown' /\ JobFits'
    BY <1>0, <1>1, <1>b DEF ComNothing, JobFits, Before, After, Committing
  <2> QED  BY <1>0, <1>1, <2>1, HeadLeft DEF ComNothing, Place, Before
<1>2. CASE ComTrusted
  <2>2. job' \in Job /\ Plain(job') /\ job'.file = None  BY <1>2, TrustedJob
  <2>3. /\ pc = "ready" /\ pc' = "comTrusted" /\ trusted' = agent
        /\ twins' = Append(twins, [call |-> calls, tree |-> agent])
        /\ UNCHANGED <<views, head, cycles, pending, counters, moved, history>>
    BY <1>2 DEF ComTrusted
  <2>4. calls \in 1..MaxCalls
    BY <1>0, <2>3, FixedModeAssumption DEF Counted, HeadTyped
  <2>5. twins' \in Seq(TwinCommit)
    <3>1. [call |-> calls, tree |-> agent] \in TwinCommit
      BY <1>0, <2>4 DEF TwinCommit
    <3> QED  BY <1>0, <2>3, <3>1, AppendProperties DEF HeadTyped
  <2>6. ViewsTyped' /\ HeadTyped' /\ ControlTyped' /\ JobFits' /\ HeadKnown' /\ Counted'
    BY <1>0, <1>b, <2>2, <2>3, <2>5
       DEF ViewsTyped, HeadTyped, ControlTyped, JobFits, Counted, Place, Before, After,
           Committing
  <2> QED  BY <2>6 DEF HeadInv
<1>3. CASE ComPick
  <2>1. Plain(job) /\ job.file = None /\ NextFile \in job.todo /\ pc = "comTrusted"
    BY <1>0, <1>3, NextIsToDo DEF ComPick, JobFits, Committing
  <2>2. /\ job' \in Job /\ Plain(job')
        /\ \/ pc' = "comPicked" /\ job'.file \in job'.todo
           \/ pc' = "comTrusted" /\ job'.file = None
    BY <1>0, <1>3, <2>1, PickJob
  <2>3. HeadKnown' /\ JobFits'
    BY <1>b, <2>2 DEF JobFits, Before, After, Committing
  <2> QED
    BY <1>0, <1>3, <2>1, <2>2, <2>3, HeadLeft DEF ComPick, Place, Before, Committing
<1>4. CASE ComCopy
  <2>1. Plain(job) /\ job.file \in job.todo /\ pc = "comPicked" /\ pc' = "comTrusted"
    BY <1>0, <1>4 DEF ComCopy, JobFits, Committing
  <2>2. human' \in Tree /\ index' \in Tree
    BY <1>0, <1>4, <1>a, <2>1, AbsentIsText DEF ComCopy, Tree
  <2>3. job' \in Job /\ Plain(job') /\ job'.file = None
    BY <1>0, <1>4, <1>a, <2>1, CopyJob
  <2>4. HeadKnown' /\ JobFits'
    BY <1>b, <2>1, <2>3 DEF JobFits, Before, After, Committing
  <2> QED
    BY <1>0, <1>4, <2>1, <2>2, <2>3, <2>4, HeadLeft DEF ComCopy, Place, Before, Committing

<1>5. CASE ComTwin
  <2>1. /\ pc = "comTrusted" /\ pc' = "comTwin" /\ CommitIndex
        /\ unseen' = unseen \cup Swept
        /\ UNCHANGED <<agent, human, trusted, cycles, twins, pending, job, counters,
                       moved, commits, uneven>>
    BY <1>5 DEF ComTwin
  <2>2. unseen' \in SUBSET File /\ staged' = {}
    BY <1>0, <2>1 DEF Swept, CommitIndex
  <2>3. ViewsTyped' /\ HeadTyped' /\ ControlTyped' /\ Counted'
    BY <1>0, <2>1, <2>2, IndexCommitted
       DEF ViewsTyped, HeadTyped, ControlTyped, Place, Counted, Before, Committing
  <2>4. HeadKnown' /\ JobFits'
    BY <1>0, <1>b, <2>1 DEF JobFits, Plain, Before, After, Committing
  <2> QED  BY <2>3, <2>4 DEF HeadInv
<1>6. CASE ComAllSkipped
  <2>1. /\ pc = "comTrusted" /\ pc' = "idle" /\ job.todo = {} /\ job.done = {}
        /\ uneven' \in BOOLEAN
        /\ UNCHANGED <<views, branches, pending, job, counters, moved, commits, staged,
                       unseen>>
    BY <1>6 DEF ComAllSkipped
  <2>2. job' = NoJob
    BY <1>0, <2>1, PlainJob DEF JobFits, Committing
  <2>3. HeadKnown' /\ JobFits'
    BY <1>b, <2>1, <2>2 DEF JobFits, Before, After, Committing
  <2> QED  BY <1>0, <2>1, <2>3, HeadLeft DEF Place, Before
<1>7. CASE ComResolve
  <2>1. human' \in Tree
    BY <1>0, <1>7, ResolvedIsText DEF ComResolve, Tree
  <2>2. HeadKnown' /\ JobFits'
    BY <1>0, <1>7, <1>b DEF ComResolve, JobFits, Plain, Before, After, Committing
  <2> QED
    BY <1>0, <1>7, <2>1, <2>2, HeadLeft DEF ComResolve, Place, Before, Committing
<1>8. CASE ComUntrusted
  <2>1. /\ pc = "comResolved" /\ pc' = "idle" /\ CommitIndex /\ job' = NoJob
        /\ cycles' = Append(cycles, [call |-> calls, commit |-> head'])
        /\ unseen' = (unseen \ job.done) \cup Swept
        /\ UNCHANGED <<agent, human, trusted, twins, pending, counters, moved, commits,
                       uneven>>
    BY <1>8 DEF ComUntrusted
  <2>2. unseen' \in SUBSET File /\ staged' = {}
    BY <1>0, <2>1 DEF Swept, CommitIndex
  <2>3. calls \in 1..MaxCalls /\ head'.humans <= calls
    BY <1>0, <2>1, IndexCommitted, FixedModeAssumption DEF Counted, HeadTyped
  <2>4. /\ cycles' \in Seq(Cycle)
        /\ \A n \in DOMAIN cycles' :
             cycles'[n] = IF n \in DOMAIN cycles THEN cycles[n]
                          ELSE [call |-> calls, commit |-> head']
    <3>1. [call |-> calls, commit |-> head'] \in Cycle
      BY <1>0, <2>1, <2>3, IndexCommitted DEF Cycle
    <3> QED  BY <1>0, <2>1, <3>1, AppendProperties DEF HeadTyped
  <2>5. Counted'
    <3>1. [call |-> calls, commit |-> head'].commit = head'  OBVIOUS
    <3> QED  BY <1>0, <2>1, <2>3, <2>4, <3>1 DEF Counted, Before
  <2>6. ViewsTyped' /\ HeadTyped' /\ ControlTyped'
    BY <1>0, <2>1, <2>2, <2>4, IndexCommitted, NoJobTyped
       DEF ViewsTyped, HeadTyped, ControlTyped, Place
  <2>7. HeadKnown' /\ JobFits'
    BY <1>b, <2>1 DEF JobFits, Before, After, Committing
  <2> QED  BY <2>5, <2>6, <2>7 DEF HeadInv
<1>9. CASE ComFail
  <2>1. /\ pc # "idle" /\ pc' = "idle" /\ job' = NoJob /\ uneven' \in BOOLEAN
        /\ unseen' = unseen \cup job.todo \cup job.done
        /\ UNCHANGED <<views, branches, pending, counters, moved, commits, staged>>
    BY <1>9 DEF ComFail, Committing
  <2>2. unseen' \in SUBSET File  BY <1>0, <1>a, <2>1
  <2>3. HeadKnown' /\ JobFits'
    BY <1>b, <2>1 DEF JobFits, Before, After, Committing
  <2> QED  BY <1>0, <2>1, <2>2, <2>3, NoJobTyped, HeadLeft DEF Place, Before
<1> QED
  BY <1>1, <1>2, <1>3, <1>4, <1>5, <1>6, <1>7, <1>8, <1>9 DEF CommitFiles

LEMMA HeadInvKept ==
  ASSUME HeadInv, [Next]_vars
  PROVE  HeadInv'
<1>1. CASE UNCHANGED vars
  BY <1>1
     DEF vars, views, branches, history, counters, HeadInv, ViewsTyped, HeadTyped,
         ControlTyped, HeadKnown, Published, JobFits, Plain, Counted
<1> QED
  BY <1>1, UserKeepsHead, ReconcileKeepsHead, ToolKeepsHead, CommitKeepsHead DEF Next

LEMMA HeadInvAlways == Spec => []HeadInv
BY HeadInvInitially, HeadInvKept, PTL DEF Spec

\* For any files and texts: every variable keeps its type, a handler keeps only
\* heads that are commits, and neither history names a call that was not made.
THEOREM TypesAreKept == Spec => []TypeOK
BY HeadInvAlways, HeadInvParts, PTL

\* No commit of the user's gets lost: a reconciliation that publishes or takes
\* back its own commit does so on the head it has read or has made.
THEOREM UserCommitsAreKept == Spec => []UserCommitsKept
BY HeadInvAlways, HeadInvParts, PTL

---------------------------------------------------------------------------
(***************************************************************************)
(* What has become of the trusted branch: it is as it was read until the   *)
(* trusted commit, and has the merged files from then on.                  *)
(***************************************************************************)
TrustedStands ==
  /\ pc \in {"recRead", "recStable", "recApplied"} => trusted = job.trusted
  /\ pc = "recApplied" => \A f \in job.todo : agent[f] = Merged(f)
  /\ pc \in After \cup {"recTrusted"} =>
       \A f \in File :
         trusted[f] = IF f \in job.todo THEN Merged(f) ELSE job.trusted[f]

\* The user does not touch what is the handlers'.
LEMMA UserLeaves ==
  ASSUME User
  PROVE  UNCHANGED <<agent, trusted, cycles, twins, pending, pc, job, calls, uneven>>
BY DEF User, UserSaves, UserStages, UserCommits, views, branches, counters


\* Steps outside a reconciliation begin and end outside.
LEMMA OtherSteps ==
  ASSUME HeadInv, Tool \/ CommitFiles
  PROVE  pc \notin Reconciling \cup {"listed"} /\ pc' \notin Reconciling \cup {"listed"}
<1>1. CASE Tool
  BY <1>1 DEF Tool, ToolWrites, Revert, Reconciling
<1>2. CASE CommitFiles
  BY <1>2
     DEF CommitFiles, ComNothing, ComTrusted, ComPick, ComCopy, ComTwin, ComAllSkipped,
         ComResolve, ComUntrusted, ComFail, Goto, Reconciling, Committing
<1> QED  BY <1>1, <1>2

LEMMA TrustedStandsKept ==
  ASSUME HeadInv, TrustedStands, [Next]_vars
  PROVE  TrustedStands'
<1> USE DEF After, Before
<1>0. /\ job \in Job /\ agent \in Tree /\ trusted \in Tree /\ human \in Tree
      /\ index \in Tree /\ head \in Commit /\ job.todo \in SUBSET File
  BY JobFields DEF HeadInv, ViewsTyped, HeadTyped, ControlTyped
<1>a. ASSUME UNCHANGED <<agent, trusted, job>>,
             \/ UNCHANGED pc
             \/ pc' \in After /\ pc \in After
             \/ pc' \notin Reconciling
      PROVE  TrustedStands'
  BY <1>a DEF TrustedStands, Merged, Reconciling
<1>1. CASE UNCHANGED vars
  BY <1>a, <1>1 DEF vars, views, branches
<1>2. CASE User
  BY <1>a, <1>2, UserLeaves
<1>3. CASE Tool \/ CommitFiles
  BY <1>3, OtherSteps DEF TrustedStands, Reconciling
<1>4. CASE Reconcile
  <2> USE DEF views, branches, Goto
  <2>1. CASE RecList \/ RecFail \/ RecUndoFails \/ RecReport \/ RecGiveUp
    BY <2>1 DEF RecList, RecFail, RecUndoFails, RecReport, RecGiveUp, TrustedStands
  <2>2. CASE RecRead
    BY <1>0, <2>2, ReadJob DEF RecRead, TrustedStands
  <2>3. CASE RecStable
    <3>1. CASE pc' = "ready"
      BY <3>1 DEF TrustedStands
    <3>2. CASE pc' # "ready"
      <4> DEFINE safe == {f \in job.todo : human[f] = job.snap[f]}
      <4>1. safe # {}  BY <2>3, <3>2 DEF RecStable
      <4>2. /\ pc = "recRead" /\ pc' = "recStable" /\ UNCHANGED trusted
            /\ job' = [job EXCEPT !.todo = safe, !.index = index]
        BY <2>3, <4>1 DEF RecStable
      <4>3. safe \in SUBSET File  BY <1>0
      <4> HIDE DEF safe
      <4>4. job'.trusted = job.trusted  BY <1>0, <4>2, <4>3, StableJob, Zenon
      <4> QED  BY <4>2, <4>4 DEF TrustedStands
    <3> QED  BY <3>1, <3>2
  <2>4. CASE RecApply
    BY <1>0, <2>4 DEF RecApply, TrustedStands, Merged
  <2>5. CASE RecTrusted
    BY <1>0, <2>5 DEF RecTrusted, TrustedStands, Merged
  <2>6. CASE RecPublish
    <3>1. /\ job'.todo = job.todo /\ job'.trusted = job.trusted
          /\ \A f \in File : Merged(f)' = Merged(f)
      <4>1. head' \in Commit
        BY <2>6, HeadInvKept DEF HeadInv, HeadTyped
      <4>2. job' = [job EXCEPT !.published = head']  BY <2>6 DEF RecPublish
      <4> QED  BY <1>0, <4>1, <4>2, PublishJob DEF Merged
    <3> QED  BY <2>6, <3>1 DEF RecPublish, TrustedStands
  <2>7. CASE RecCheck \/ RecRefresh
    BY <1>a, <2>7 DEF RecCheck, RecRefresh, Advanced
  <2>8. CASE RecFinish
    <3>1. CASE Advanced
      BY <1>a, <2>8, <3>1 DEF RecFinish, Advanced
    <3>2. CASE ~Advanced
      BY <2>8, <3>2 DEF RecFinish, TrustedStands
    <3> QED  BY <3>1, <3>2
  <2> QED
    BY <1>4, <2>1, <2>2, <2>3, <2>4, <2>5, <2>6, <2>7, <2>8 DEF Reconcile
<1> QED  BY <1>1, <1>2, <1>3, <1>4 DEF Next

LEMMA TrustedStandsAlways == Spec => []TrustedStands
<1>1. Init => TrustedStands
  BY DEF Init, TrustedStands, After
<1> QED  BY <1>1, TrustedStandsKept, HeadInvAlways, PTL DEF Spec

\* What has been published tells where a reconciliation is.
LEMMA PublishedAfter ==
  ASSUME HeadInv, pc \in Reconciling
  PROVE  /\ job.head \in Commit /\ head \in Commit
         /\ job.head.humans \in Nat /\ head.humans \in Nat
         /\ job.published # None <=> pc \in After
         /\ pc \in Before => head.humans = job.head.humans
         /\ pc \in After => /\ head.humans = job.head.humans + 1
                            /\ job.published \in Commit
                            /\ \A f \in File : job.published.tree[f] =
                                 IF f \in job.todo THEN job.snap[f] ELSE job.head.tree[f]
<1>1. job \in Job /\ head \in Commit /\ job.head \in Commit
  BY JobFields DEF HeadInv, HeadTyped, ControlTyped
<1>2. job.head.humans \in Nat /\ head.humans \in Nat
  BY <1>1, CommitFields, FixedModeAssumption
<1>3. CASE pc \in Before
  BY <1>1, <1>2, <1>3 DEF HeadInv, HeadKnown, Before, After
<1>4. CASE pc \in After
  <2>1. job.published = Published(job.head) /\ job.head.humans < MaxCalls
    BY <1>4 DEF HeadInv, HeadKnown
  <2>2. /\ job.published \in Commit
        /\ \A f \in File : job.published.tree[f] =
             IF f \in job.todo THEN job.snap[f] ELSE job.head.tree[f]
    BY <1>1, <2>1, PublishedCommit
  <2>3. job.published # None  BY <2>2, FixedModeAssumption
  <2> QED  BY <1>1, <1>2, <1>4, <2>2, <2>3 DEF HeadInv, HeadKnown, Before, After
<1> QED  BY <1>3, <1>4, ReconcilingParts

\* A reconciliation that ends without a failed rollback ends in one of five
\* ways.
LEMMA Endings ==
  ASSUME HeadInv, [Next]_vars, pc \in Reconciling, pc' = "ready"
  PROVE  \/ pc = "recRead" /\ UNCHANGED <<agent, trusted, human, index, head, pending, unseen>>
         \/ RecUndo /\ pc \in Before /\ UNCHANGED <<human, index, head, unseen>>
         \/ RecRewind /\ pc \in After /\ UNCHANGED <<human, index, pending, unseen>>
         \/ RecPreserve /\ pc \in After
              /\ UNCHANGED <<agent, trusted, human, index, head, unseen>>
         \/ RecFinish /\ pc = "recRefreshed" /\ ~moved
              /\ pending' = pending \ job.todo /\ unseen' = unseen \ job.todo
              /\ UNCHANGED <<agent, trusted, human, index, head>>
<1> USE DEF views, branches, history
<1>1. pc # "ready"  BY DEF Reconciling
<1>2. ~UNCHANGED vars /\ ~User  BY <1>1, UserLeaves DEF vars
<1>3. Reconcile  BY <1>2, OtherSteps DEF Next
<1>4. RecStable \/ RecFinish \/ RecFail \/ RecGiveUp
  BY <1>3
     DEF Reconcile, RecList, RecRead, RecApply, RecTrusted, RecPublish, RecCheck,
         RecRefresh, RecUndoFails, RecReport, Advanced, Goto, Reconciling
<1>5. CASE RecStable  BY <1>5 DEF RecStable
<1>6. CASE RecFinish  BY <1>6 DEF RecFinish, Advanced, Goto
<1>7. CASE RecFail
  <2>1. UNCHANGED <<human, index, unseen>> /\ (RecUndo \/ RecRewind \/ RecPreserve)
    BY <1>7 DEF RecFail
  <2>2. RecUndo => pc \in Before /\ UNCHANGED head
    BY PublishedAfter, ReconcilingParts DEF RecUndo
  <2>3. RecRewind => pc \in After /\ UNCHANGED pending
    BY PublishedAfter DEF RecRewind
  <2>4. RecPreserve => pc \in After /\ UNCHANGED <<agent, trusted, head>>
    BY PublishedAfter DEF RecPreserve
  <2> QED  BY <2>1, <2>2, <2>3, <2>4
<1>8. CASE RecGiveUp  BY <1>8 DEF RecGiveUp, Reconciling
<1> QED  BY <1>4, <1>5, <1>6, <1>7, <1>8

\* What a failed rollback leaves.
LEMMA UndoFailing ==
  ASSUME HeadInv, pc \in Reconciling, RecUndoFails
  PROVE  /\ pc # "recRead" /\ pc' = "reported" /\ UNCHANGED <<human, index>>
         /\ \/ /\ pc \in Before
               /\ UNCHANGED head
               /\ NoteOrMiss(IF moved THEN Differ(job.head.tree, head.tree) ELSE {})
               /\ trusted' \in {trusted, job.trusted}
            \/ /\ pc \in After
               /\ UNCHANGED <<pending, unseen>>
               /\ head' = job.head
               /\ trusted' \in {trusted, job.trusted}
            \/ /\ pc \in After
               /\ UNCHANGED <<trusted, head>>
               /\ NoteOrMiss(Differ(job.published.tree, head.tree))
<1>1. job.published # None <=> pc \in After
  BY PublishedAfter
<1>2. pc \notin After => pc \in Before
  BY ReconcilingParts
<1>3. RestoreFails => trusted' \in {trusted, job.trusted}
  BY DEF RestoreFails
<1> QED
  BY <1>1, <1>2, <1>3, Zenon DEF RecUndoFails, Goto

LEMMA EndsOnBothOrNeither ==
  ASSUME HeadInv, TrustedStands, [Next]_vars, pc \in Reconciling, pc' \notin Reconciling
  PROVE  IF head'.humans > job.head.humans
         THEN \A f \in job.todo : trusted'[f] = Merged(f)
         ELSE trusted' = job.trusted \/ pc' = "reported"
<1>1. /\ pc \in Before => head.humans = job.head.humans
      /\ pc \in After => head.humans = job.head.humans + 1
      /\ job.head.humans \in Nat
  BY PublishedAfter
<1>2. job.todo \in SUBSET File
  BY JobFields DEF HeadInv, ControlTyped
<1>3. CASE pc = "recRead" /\ UNCHANGED <<trusted, head>>
  BY <1>1, <1>3 DEF TrustedStands, Before
<1>4. CASE RecUndo /\ pc \in Before /\ UNCHANGED head
  BY <1>1, <1>4 DEF RecUndo, RestoreAgent
<1>5. CASE RecRewind /\ pc \in After
  BY <1>1, <1>5 DEF RecRewind, RestoreAgent
<1>6. CASE pc \in After /\ UNCHANGED <<trusted, head>>
  BY <1>1, <1>2, <1>6 DEF TrustedStands
<1>7. CASE pc' = "ready"
  BY <1>3, <1>4, <1>5, <1>6, <1>7, Endings DEF After
<1>8. CASE RecUndoFails
  <2>1. pc' = "reported"  BY <1>8, UndoFailing
  <2>2. CASE pc \in Before /\ UNCHANGED head  BY <1>1, <2>1, <2>2
  <2>3. CASE head' = job.head  BY <1>1, <2>1, <2>3
  <2> QED  BY <1>6, <1>8, <2>2, <2>3, UndoFailing
<1>9. pc' = "ready" \/ RecUndoFails
  <2>1. ~UNCHANGED vars /\ ~User  BY UserLeaves DEF vars
  <2>2. Reconcile  BY <2>1, OtherSteps DEF Next
  <2> QED
    BY <2>2
       DEF Reconcile, RecList, RecRead, RecStable, RecApply, RecTrusted, RecPublish,
           RecCheck, RecRefresh, RecFinish, RecFail, RecReport, RecGiveUp, Advanced,
           Goto, Reconciling
<1> QED  BY <1>7, <1>8, <1>9

\* Wherever a reconciliation fails, whenever the user commits and whether its
\* rollback succeeds or not, HEAD is never ahead of the trusted branch when it
\* ends; the trusted branch is ahead of HEAD only after a rollback that failed
\* and is reported, and both are otherwise ahead or as they were.
THEOREM ReconciledOnBothOrNeither == Spec => BothOrNeither
<1>1. HeadInv /\ TrustedStands /\ [Next]_vars
        => [(pc \in Reconciling /\ pc' \notin Reconciling) =>
              IF head'.humans > job.head.humans
              THEN \A f \in job.todo : trusted'[f] = Merged(f)
              ELSE trusted' = job.trusted \/ pc' = "reported"]_vars
  BY EndsOnBothOrNeither
<1> QED  BY <1>1, HeadInvAlways, TrustedStandsAlways, PTL DEF Spec, BothOrNeither

---------------------------------------------------------------------------
(***************************************************************************)
(* The histories of both branches: as long as every call has committed on  *)
(* both, the n-th commits belong together.                                 *)
(***************************************************************************)
SameCalls(cs, ts) == \A n \in DOMAIN cs : n \in DOMAIN ts /\ ts[n].call = cs[n].call

Paired ==
  ~uneven =>
    /\ SameCalls(cycles, twins)
    /\ pc \in Committing => Len(twins) = Len(cycles) + 1 /\ twins[Len(twins)].call = calls
    /\ pc \notin Committing => Len(twins) = Len(cycles)

\* A revert cuts both histories at the same place.
LEMMA RevertCuts ==
  ASSUME HeadInv, Paired, ~uneven, NEW n \in 1..MaxCalls, Revert(n)
  PROVE  /\ pc = "ready" /\ UNCHANGED <<pc, uneven>>
         /\ Len(cycles') = n /\ Len(twins') = n
         /\ SameCalls(cycles', twins')
<1>1. cycles \in Seq(Cycle) /\ twins \in Seq(TwinCommit)
  BY DEF HeadInv, HeadTyped
<1>2. pc = "ready" /\ n \in DOMAIN cycles /\ UNCHANGED <<pc, uneven>>
  BY DEF Revert
<1>3. n \in DOMAIN twins /\ SameCalls(cycles, twins)
  BY <1>2 DEF Paired, SameCalls
<1>4. cycles' = SubSeq(cycles, 1, n) /\ twins' = SubSeq(twins, 1, n)
  BY <1>3, Zenon DEF Revert, Twin
<1>5. /\ Len(cycles') = n /\ DOMAIN cycles' = 1..n
      /\ \A i \in 1..n : i \in DOMAIN cycles /\ cycles'[i] = cycles[i]
  BY <1>1, <1>2, <1>4, FirstCommits
<1>6. /\ Len(twins') = n /\ DOMAIN twins' = 1..n
      /\ \A i \in 1..n : i \in DOMAIN twins /\ twins'[i] = twins[i]
  BY <1>1, <1>3, <1>4, FirstCommits
<1> QED  BY <1>2, <1>3, <1>5, <1>6 DEF SameCalls

LEMMA PairedKept ==
  ASSUME HeadInv, Paired, [Next]_vars
  PROVE  Paired'
<1>0. cycles \in Seq(Cycle) /\ twins \in Seq(TwinCommit)
  BY DEF HeadInv, HeadTyped
<1>a. ASSUME UNCHANGED <<cycles, twins, uneven>>,
             \/ pc \in Committing /\ pc' \in Committing /\ UNCHANGED calls
             \/ pc \notin Committing /\ pc' \notin Committing
      PROVE  Paired'
  BY <1>a DEF Paired
<1>1. CASE UNCHANGED vars
  BY <1>a, <1>1 DEF vars, branches, history, counters
<1>2. CASE User
  BY <1>a, <1>2, UserLeaves
<1>3. CASE Reconcile
  <2>1. pc \notin Committing /\ pc' \notin Committing
    BY <1>3
       DEF Reconcile, RecList, RecRead, RecStable, RecApply, RecTrusted, RecPublish,
           RecCheck, RecRefresh, RecFinish, RecFail, RecUndoFails, RecReport, RecGiveUp, Advanced, Goto,
           Reconciling, Committing
  <2>2. UNCHANGED <<cycles, twins, uneven>>
    BY <1>3
       DEF Reconcile, RecList, RecRead, RecStable, RecApply, RecTrusted, RecPublish,
           RecCheck, RecRefresh, RecFinish, RecFail, RecUndoFails, RecReport, RecGiveUp, Advanced, branches,
           history
  <2> QED  BY <1>a, <2>1, <2>2
<1>4. ASSUME NEW f \in File, ToolWrites(f) PROVE Paired'
  BY <1>a, <1>4 DEF ToolWrites, branches, history, counters
<1>5. ASSUME NEW n \in 1..MaxCalls, Revert(n) PROVE Paired'
  <2>1. CASE uneven  BY <1>5, <2>1 DEF Revert, Paired
  <2>2. CASE ~uneven
    <3>1. pc' \notin Committing /\ ~uneven'
      BY <1>5, <2>2, RevertCuts DEF Committing
    <3> QED  BY <1>5, <2>2, <3>1, RevertCuts DEF Paired
  <2> QED  BY <2>1, <2>2
<1>6. CASE CommitFiles
  <2> USE DEF views, branches, history, counters, Goto
  <2>1. CASE ComNothing
    BY <1>a, <2>1 DEF ComNothing, Committing
  <2>2. CASE ComTrusted
    <3> DEFINE t == [call |-> calls, tree |-> agent]
    <3>1. /\ pc \notin Committing /\ pc' \in Committing /\ twins' = Append(twins, t)
          /\ UNCHANGED <<cycles, calls, uneven>>
      BY <2>2 DEF ComTrusted, Committing
    <3>2. t \in TwinCommit
      BY <2>2, FixedModeAssumption
         DEF ComTrusted, HeadInv, ViewsTyped, HeadTyped, Counted, TwinCommit
    <3>3. t.call = calls  OBVIOUS
    <3> HIDE DEF t
    <3>4. /\ Len(twins') = Len(twins) + 1 /\ twins'[Len(twins')] = t
          /\ \A n \in DOMAIN twins : n \in DOMAIN twins' /\ twins'[n] = twins[n]
      BY <1>0, <3>1, <3>2, AppendProperties
    <3> QED  BY <3>1, <3>3, <3>4 DEF Paired, SameCalls
  <2>3. CASE ComPick \/ ComCopy \/ ComTwin \/ ComResolve
    <3>1. pc \in Committing /\ pc' \in Committing /\ UNCHANGED calls
      BY <2>3 DEF ComPick, ComCopy, ComTwin, ComResolve, Committing
    <3>2. UNCHANGED <<cycles, twins, uneven>>
      BY <2>3 DEF ComPick, ComCopy, ComTwin, ComResolve
    <3> QED  BY <1>a, <3>1, <3>2
  <2>4. CASE ComAllSkipped \/ ComFail
    BY <2>4 DEF ComAllSkipped, ComFail, Paired
  <2>5. CASE ComUntrusted
    <3> DEFINE c == [call |-> calls, commit |-> head']
    <3>1. /\ pc \in Committing /\ pc' \notin Committing /\ cycles' = Append(cycles, c)
          /\ UNCHANGED <<twins, calls, uneven>>
      BY <2>5 DEF ComUntrusted, Committing
    <3>2. c \in Cycle
      <4>1. head' \in Commit  BY HeadInvKept DEF HeadInv, HeadTyped
      <4>2. calls \in 1..MaxCalls
        BY <2>5, FixedModeAssumption DEF ComUntrusted, HeadInv, HeadTyped, Counted
      <4> QED  BY <4>1, <4>2 DEF Cycle
    <3>3. c.call = calls  OBVIOUS
    <3> HIDE DEF c
    <3>4. /\ Len(cycles') = Len(cycles) + 1 /\ cycles'[Len(cycles')] = c
          /\ DOMAIN cycles' = DOMAIN cycles \cup {Len(cycles')}
          /\ \A n \in DOMAIN cycles : cycles'[n] = cycles[n]
      BY <1>0, <3>1, <3>2, AppendProperties
    <3>5. Len(twins) \in Nat /\ DOMAIN twins = 1..Len(twins) /\ Len(cycles) \in Nat
      BY <1>0
    <3> QED  BY <3>1, <3>3, <3>4, <3>5 DEF Paired, SameCalls
  <2> QED
    BY <1>6, <2>1, <2>2, <2>3, <2>4, <2>5 DEF CommitFiles
<1> QED  BY <1>1, <1>2, <1>3, <1>4, <1>5, <1>6 DEF Next, Tool

\* A revert takes both branches back to the same call, as long as every call
\* has committed on both or on neither.
THEOREM RevertsTakeBothBack == Spec => RevertsTogether
<1>1. Init => Paired
  BY DEF Init, Paired, SameCalls, Committing
<1>2. HeadInv /\ Paired
        => \A n \in 1..MaxCalls :
             Revert(n) => uneven \/ Last(cycles').call = Last(twins').call
  <2> SUFFICES ASSUME HeadInv, Paired, NEW n \in 1..MaxCalls, Revert(n), ~uneven
               PROVE  Last(cycles').call = Last(twins').call
    OBVIOUS
  <2>1. cycles' \in Seq(Cycle) /\ twins' \in Seq(TwinCommit)
    BY HeadInvKept DEF HeadInv, HeadTyped, Next, Tool
  <2>2. n \in DOMAIN cycles'
    BY <2>1, RevertCuts
  <2> QED  BY <2>2, RevertCuts DEF Last, SameCalls
<1> QED  BY <1>1, <1>2, PairedKept, HeadInvAlways, PTL DEF Spec, RevertsTogether

---------------------------------------------------------------------------
(***************************************************************************)
(* What a tool call has copied: the Human view has the file of the Agent   *)
(* view, resolved at the end, and the index is as HEAD, or has no such     *)
(* file if there is none.  The user leaves these files alone.              *)
(***************************************************************************)
LeftAlone ==
  /\ pc \in Committing => agent = trusted
  /\ pc = "comPicked" => Clean(job.file)
  /\ pc \in Committing => \A f \in job.done :
       /\ human[f] = IF pc = "comResolved" THEN Resolve(agent[f]) ELSE agent[f]
       /\ \/ index[f] = head.tree[f]
          \/ index[f] = Absent /\ human[f] = Absent

\* Steps of a reconciliation begin and end outside the commit of a tool call.
LEMMA ReconcileApart ==
  ASSUME Reconcile \/ Tool
  PROVE  pc \notin Committing /\ pc' \notin Committing
<1>1. CASE Reconcile
  BY <1>1
     DEF Reconcile, RecList, RecRead, RecStable, RecApply, RecTrusted, RecPublish,
         RecCheck, RecRefresh, RecFinish, RecFail, RecUndoFails, RecReport, RecGiveUp, Advanced, Goto,
         Reconciling, Committing
<1>2. CASE Tool  BY <1>2 DEF Tool, ToolWrites, Revert, Committing
<1> QED  BY <1>1, <1>2

LEMMA LeftAloneKept ==
  ASSUME QuietCommit, HeadInv, LeftAlone, [Next]_vars
  PROVE  LeftAlone'
<1>0. /\ job \in Job /\ agent \in Tree /\ trusted \in Tree /\ human \in Tree
      /\ index \in Tree /\ head \in Commit
      /\ job.todo \in SUBSET File /\ job.done \in SUBSET File
      /\ pc \in Committing => Plain(job)
      /\ pc = "comPicked" => job.file \in job.todo
      /\ pc \in Committing \ {"comPicked"} => job.file = None
  BY JobFields DEF HeadInv, ViewsTyped, HeadTyped, ControlTyped, JobFits
<1>1. CASE UNCHANGED vars
  BY <1>1 DEF vars, views, branches, LeftAlone, Clean
<1>2. CASE Reconcile \/ Tool
  BY <1>2, ReconcileApart DEF LeftAlone, Committing
<1>3. CASE User
  <2>1. UNCHANGED <<agent, trusted, pc, job>>  BY <1>3, UserLeaves
  <2>2. CASE pc \notin Committing
    BY <2>1, <2>2 DEF LeftAlone, Committing
  <2>3. CASE pc \in Committing
    <3>1. CASE UserCommits
      <4>1. head'.tree = index /\ UNCHANGED <<human, index>>
        BY <1>0, <3>1 DEF UserCommits, views, Commit
      <4> QED  BY <2>1, <4>1 DEF LeftAlone, Clean
    <3>2. ASSUME NEW f \in File, UserSaves(f) \/ UserStages(f)
          PROVE  LeftAlone'
      <4>1. f \notin job.todo \cup job.done
        BY <2>3, <3>2 DEF UserSaves, UserStages, BeingCommitted
      <4>2. UNCHANGED head
        BY <3>2 DEF UserSaves, UserStages, branches
      <4>3. \A g \in File \ {f} : human'[g] = human[g] /\ index'[g] = index[g]
        BY <1>0, <3>2 DEF UserSaves, UserStages, Tree
      <4> QED  BY <1>0, <2>1, <4>1, <4>2, <4>3 DEF LeftAlone, Clean
    <3> QED  BY <1>3, <3>1, <3>2 DEF User
  <2> QED  BY <2>2, <2>3
<1>4. CASE CommitFiles
  <2> USE DEF views, branches, Goto
  <2>1. CASE ComNothing \/ ComAllSkipped \/ ComUntrusted \/ ComFail
    BY <2>1
       DEF ComNothing, ComAllSkipped, ComUntrusted, ComFail, LeftAlone, Committing
  <2>2. CASE ComTrusted
    BY <2>2, TrustedJob DEF ComTrusted, LeftAlone
  <2>3. CASE ComPick
    <3>1. pc = "comTrusted" /\ UNCHANGED <<agent, trusted, human, index, head>>
      BY <2>3 DEF ComPick
    <3>2. /\ job'.done = job.done
          /\ \/ pc' = "comTrusted"
             \/ pc' = "comPicked" /\ Clean(job'.file)
      BY <1>0, <2>3, <3>1, PickJob DEF Committing
    <3> QED  BY <3>1, <3>2 DEF LeftAlone, Clean, Committing
  <2>4. CASE ComCopy
    <3> DEFINE f == job.file
    <3>1. /\ pc = "comPicked" /\ pc' = "comTrusted"
          /\ UNCHANGED <<agent, trusted, head>> /\ f \in File
          /\ human' = [human EXCEPT ![f] = agent[f]]
          /\ index' = IF agent[f] = Absent THEN [index EXCEPT ![f] = Absent] ELSE index
      BY <1>0, <2>4 DEF ComCopy
    <3>2. job'.done = job.done \cup {f}
      BY <1>0, <2>4, <3>1, CopyJob DEF Committing
    <3>3. index[f] = head.tree[f]  BY <3>1 DEF LeftAlone, Clean
    <3>4. /\ human'[f] = agent[f]
          /\ \/ index'[f] = head'.tree[f]
             \/ index'[f] = Absent /\ human'[f] = Absent
      <4>1. human'[f] = agent[f]  BY <1>0, <3>1, Zenon DEF Tree
      <4>2. CASE agent[f] = Absent
        <5>1. index' = [index EXCEPT ![f] = Absent]  BY <3>1, <4>2
        <5>2. index'[f] = Absent  BY <1>0, <3>1, <5>1, Zenon DEF Tree
        <5> QED  BY <4>1, <4>2, <5>2
      <4>3. CASE agent[f] # Absent
        <5>1. UNCHANGED <<index, head>>  BY <3>1, <4>3
        <5> QED  BY <3>3, <4>1, <5>1
      <4> QED  BY <4>2, <4>3
    <3>5. \A g \in File \ {f} : human'[g] = human[g] /\ index'[g] = index[g]
      BY <1>0, <3>1 DEF Tree
    <3> HIDE DEF f
    <3>6. \A g \in job.done : human[g] = agent[g]
      BY <3>1 DEF LeftAlone, Committing
    <3> QED
      BY <1>0, <3>1, <3>2, <3>4, <3>5, <3>6 DEF LeftAlone, Committing
  <2>5. CASE ComTwin
    <3>1. /\ pc = "comTrusted" /\ pc' = "comTwin"
          /\ UNCHANGED <<agent, trusted, human, job>> /\ head'.tree = index'
      BY <1>0, <2>5, IndexCommitted DEF ComTwin
    <3> QED  BY <3>1 DEF LeftAlone, Committing
  <2>6. CASE ComResolve
    <3>1. /\ pc = "comTwin" /\ pc' = "comResolved"
          /\ UNCHANGED <<agent, trusted, index, head, job>>
          /\ \A f \in job.done : human'[f] = Resolve(human[f])
      BY <1>0, <2>6 DEF ComResolve
    <3> QED  BY <3>1, AbsentIsText DEF LeftAlone, Committing
  <2> QED
    BY <1>4, <2>1, <2>2, <2>3, <2>4, <2>5, <2>6 DEF CommitFiles
<1> QED  BY <1>1, <1>2, <1>3, <1>4 DEF Next

LEMMA LeftAloneAlways ==
  ASSUME QuietCommit
  PROVE  Spec => []LeftAlone
<1>1. Init => LeftAlone
  BY DEF Init, LeftAlone, Committing
<1> QED  BY <1>1, LeftAloneKept, HeadInvAlways, PTL DEF Spec

\* Which steps of the handlers change a file of the user's, or an index entry.
LEMMA HumanTouched ==
  ASSUME HeadInv, LeftAlone, [Next]_vars, NEW f \in File,
         human'[f] # human[f], pc' # pc \/ job' # job
  PROVE  Clean(f) \/ f \in job.done
<1>0. human \in Tree /\ pc = "comPicked" => job.file \in File
  BY JobFields DEF HeadInv, ViewsTyped, ControlTyped, JobFits
<1>1. ~UNCHANGED vars  BY DEF vars, views
<1>2. ~User  BY UserLeaves
<1>3. ~Tool  BY DEF Tool, ToolWrites, Revert
<1>4. ~Reconcile
  BY DEF Reconcile, RecList, RecRead, RecStable, RecApply, RecTrusted, RecPublish,
         RecCheck, RecRefresh, RecFinish, RecFail, RecUndoFails, RecReport, RecGiveUp, Advanced, views
<1>5. ComCopy \/ ComResolve
  BY <1>1, <1>2, <1>3, <1>4
     DEF Next, CommitFiles, ComNothing, ComTrusted, ComPick, ComTwin, ComAllSkipped,
         ComUntrusted, ComFail, views
<1>6. CASE ComCopy
  BY <1>0, <1>6 DEF ComCopy, Tree, LeftAlone
<1>7. CASE ComResolve
  BY <1>0, <1>7 DEF ComResolve, Tree
<1> QED  BY <1>5, <1>6, <1>7

LEMMA IndexTouched ==
  ASSUME HeadInv, LeftAlone, [Next]_vars, NEW f \in File,
         index'[f] # index[f], pc' # pc \/ job' # job
  PROVE  \/ index[f] = head.tree[f]
         \/ pc = "recChecked" /\ index[f] = job.head.tree[f]
<1>0. /\ human \in Tree /\ index \in Tree /\ head \in Commit
      /\ pc = "comPicked" => job.file \in File
  BY JobFields DEF HeadInv, ViewsTyped, HeadTyped, ControlTyped, JobFits
<1>1. ~UNCHANGED vars  BY DEF vars, views
<1>2. ~User  BY UserLeaves
<1>3. ~Tool  BY DEF Tool, ToolWrites, Revert
<1>4. RecRefresh \/ ComCopy \/ ComTwin \/ ComUntrusted
  BY <1>1, <1>2, <1>3
     DEF Next, Reconcile, RecList, RecRead, RecStable, RecApply, RecTrusted, RecPublish,
         RecCheck, RecFinish, RecFail, RecUndoFails, RecReport, RecGiveUp, Advanced, views,
         CommitFiles, ComNothing, ComTrusted, ComPick, ComAllSkipped, ComResolve, ComFail
<1>5. CASE RecRefresh
  <2>1. pc = "recChecked"  BY <1>5 DEF RecRefresh
  <2>2. index' = [g \in File |-> IF g \in Refreshable THEN job.published.tree[g]
                                                     ELSE index[g]]
    BY <1>5 DEF RecRefresh, Advanced, views
  <2>3. f \in Refreshable  BY <2>2
  <2> QED  BY <2>1, <2>3 DEF Refreshable
<1>6. CASE ComCopy
  BY <1>0, <1>6 DEF ComCopy, Tree, LeftAlone, Clean
<1>7. CASE ComTwin \/ ComUntrusted
  <2>1. CommitIndex /\ pc \in Committing
    BY <1>7 DEF ComTwin, ComUntrusted, Committing
  <2>2. index'[f] = IF Addable /\ f \in job.done THEN human[f] ELSE index[f]
    BY <1>0, <2>1, IndexCommitted
  <2>3. f \in job.done /\ index'[f] = human[f]
    BY <2>2
  <2> QED  BY <2>1, <2>3 DEF LeftAlone
<1> QED  BY <1>4, <1>5, <1>6, <1>7

\* The handlers change no file of the user's that has changes he has not
\* committed.  He may save any other file at any time.
THEOREM UncommittedFilesStay ==
  ASSUME QuietCommit
  PROVE  Spec => UncommittedKept
<1>1. HeadInv /\ LeftAlone /\ [Next]_vars
        => \A f \in File :
             /\ human'[f] # human[f]
             /\ pc' # pc \/ job' # job
             => Clean(f) \/ f \in job.done
  BY HumanTouched
<1> QED  BY <1>1, HeadInvAlways, LeftAloneAlways, PTL DEF Spec, UncommittedKept

\* What the user has staged and not committed stays staged as it is.
THEOREM StagedEntriesStay ==
  ASSUME QuietCommit
  PROVE  Spec => StagedKept
<1>1. HeadInv /\ LeftAlone /\ [Next]_vars
        => \A f \in staged :
             /\ pc' # pc \/ job' # job
             /\ index[f] \notin {head.tree[f]}
                  \cup {job.head.tree[f] : x \in {pc} \cap {"recChecked"}}
             => index'[f] = index[f]
  <2> SUFFICES ASSUME HeadInv, LeftAlone, [Next]_vars, NEW f \in staged,
                      pc' # pc \/ job' # job, index'[f] # index[f]
               PROVE  index[f] \in {head.tree[f]}
                        \cup {job.head.tree[f] : x \in {pc} \cap {"recChecked"}}
    OBVIOUS
  <2>1. f \in File  BY DEF HeadInv, ViewsTyped
  <2> QED  BY <2>1, IndexTouched
<1> QED  BY <1>1, HeadInvAlways, LeftAloneAlways, PTL DEF Spec, StagedKept

---------------------------------------------------------------------------
(***************************************************************************)
(* How edits reach the Agent view.  Outside a reconciliation, a file that  *)
(* looks unchanged to git and is not pending is on the trusted branch what *)
(* it is in the Human view.  During one, the same goes for the files as    *)
(* they would be if it took everything back.                               *)
(***************************************************************************)
Shown(f) ==
  Clean(f) /\ f \notin pending \cup unseen => Resolve(human[f]) = Resolve(trusted[f])

ShownBefore(f) ==
  /\ human[f] = index[f] /\ index[f] = job.head.tree[f]
  /\ f \notin pending \cup unseen
  => Resolve(human[f]) = Resolve(job.trusted[f])

\* A file that looks as HEAD was has not been changed since it was read.
SnapStands(f) ==
  /\ f \in job.todo \ unseen
  /\ human[f] = index[f] /\ index[f] = job.head.tree[f]
  => human[f] = job.snap[f]

AtRest == {"idle", "listed", "reported", "ready", "recRead"}

EditsFollowed ==
  /\ pc \in {"comTwin", "comResolved"} => job.todo = {}
  /\ \A f \in File :
       /\ pc \in AtRest => Shown(f)
       /\ pc \in Committing /\ f \notin job.todo \cup job.done => Shown(f)
       /\ pc \in Reconciling => ShownBefore(f)
       /\ pc \in Reconciling \ {"recRead"} => SnapStands(f)

\* What the user takes back is noted, or is no change to the trusted branch.
LEMMA TakenBack ==
  ASSUME NEW f \in File, NEW t, TakesBack(f, t), f \notin unseen',
         \/ t = head.tree[f]
         \/ pc \in Reconciling /\ t = job.head.tree[f]
  PROVE  pc \notin Reconciling /\ Resolve(trusted[f]) = t
BY DEF TakesBack, Hidden

LEMMA TakingBackGrows ==
  ASSUME NEW f, NEW t, TakesBack(f, t)
  PROVE  unseen \subseteq unseen'
BY DEF TakesBack

\* The merged file shows what was read of the Human view.
LEMMA MergedShows ==
  ASSUME HeadInv, NEW f \in File
  PROVE  Resolve(Merged(f)) = Resolve(job.snap[f])
<1>1. job.base[f] \in Text  BY JobFields DEF HeadInv, ControlTyped, Tree
<1> QED  BY <1>1, ResolvedIsText DEF Merged

LEMMA UserFollowed ==
  ASSUME HeadInv, EditsFollowed, User
  PROVE  EditsFollowed'
<1>0. /\ human \in Tree /\ index \in Tree /\ trusted \in Tree /\ head \in Commit
  BY DEF HeadInv, ViewsTyped, HeadTyped
<1>1. UNCHANGED <<agent, trusted, pending, pc, job>>  BY UserLeaves
<1>a. ASSUME NEW g \in File, Clean(g)' => Clean(g), unseen \subseteq unseen', Shown(g),
             UNCHANGED human[g]
      PROVE  Shown(g)'
  BY <1>1, <1>a DEF Shown
<1>b. ASSUME NEW g \in File, unseen \subseteq unseen', ShownBefore(g),
             UNCHANGED <<human[g], index[g]>>
      PROVE  ShownBefore(g)'
  BY <1>1, <1>b DEF ShownBefore
<1>d. ASSUME NEW g \in File, unseen \subseteq unseen', SnapStands(g),
             UNCHANGED <<human[g], index[g]>>
      PROVE  SnapStands(g)'
  BY <1>1, <1>d DEF SnapStands
<1>c. \A t \in Text : Resolve(Resolve(t)) = Resolve(t)  BY ResolvedIsText
<1>2. ASSUME NEW f \in File, UserSaves(f) \/ UserStages(f)
      PROVE  EditsFollowed'
  <2>1. UNCHANGED head  BY <1>2 DEF UserSaves, UserStages, branches
  <2>2. PICK t : /\ TakesBack(f, t)
                 /\ human'[f] = index'[f] => t = index'[f]
    BY <1>0, <1>2 DEF UserSaves, UserStages, Tree
  <2>3. \A g \in File \ {f} : human'[g] = human[g] /\ index'[g] = index[g]
    BY <1>0, <1>2 DEF UserSaves, UserStages, Tree
  <2>4. unseen \subseteq unseen'  BY <2>2, TakingBackGrows
  <2>5. ASSUME NEW g \in File \ {f}
        PROVE  /\ Shown(g) => Shown(g)'
               /\ ShownBefore(g) => ShownBefore(g)'
               /\ SnapStands(g) => SnapStands(g)'
    <3>1. Clean(g)' => Clean(g)  BY <2>1, <2>3 DEF Clean
    <3> QED  BY <1>a, <1>b, <1>d, <2>3, <2>4, <3>1
  <2>6. Shown(f)'
    <3> SUFFICES ASSUME Clean(f)', f \notin unseen'
                 PROVE  Resolve(human'[f]) = Resolve(trusted'[f])
      BY DEF Shown
    <3>1. human'[f] = t /\ t = head.tree[f]  BY <2>1, <2>2 DEF Clean
    <3>2. Resolve(trusted[f]) = t  BY <2>2, <3>1, TakenBack
    <3> QED  BY <1>0, <1>1, <1>c, <3>1, <3>2 DEF Tree
  <2>7. pc \in Reconciling => ShownBefore(f)' /\ SnapStands(f)'
    <3> SUFFICES ASSUME pc \in Reconciling, f \notin unseen',
                        human'[f] = index'[f], index'[f] = job.head.tree[f]
                 PROVE  FALSE
      BY <1>1 DEF ShownBefore, SnapStands
    <3> QED  BY <2>2, TakenBack
  <2> QED  BY <1>1, <2>5, <2>6, <2>7 DEF EditsFollowed
<1>3. CASE UserCommits
  <2>1. head'.tree = index /\ UNCHANGED <<human, index>>
    BY <1>0, <1>3 DEF UserCommits, views, Commit
  <2>2. unseen \subseteq unseen'  BY <1>3 DEF UserCommits
  <2>3. ASSUME NEW f \in File, pc \notin Reconciling \ {"recRead"}, Shown(f)
        PROVE  Shown(f)'
    <3>1. unseen' = unseen \cup {g \in Differ(index, head.tree) : Hidden(g, index[g])}
      BY <1>3, <2>3 DEF UserCommits
    <3>2. CASE index[f] = head.tree[f]
      <4>1. Clean(f)' => Clean(f)  BY <2>1, <3>2 DEF Clean
      <4> QED  BY <1>a, <2>1, <2>2, <2>3, <4>1
    <3>3. CASE index[f] # head.tree[f]
      <4> SUFFICES ASSUME Clean(f)', f \notin unseen'
                   PROVE  Resolve(human[f]) = Resolve(trusted[f])
        BY <1>1, <2>1 DEF Shown
      <4>1. ~Hidden(f, index[f])  BY <3>1, <3>3 DEF Differ
      <4>2. Resolve(trusted[f]) = index[f]  BY <4>1 DEF Hidden
      <4>3. human[f] = index[f]  BY <2>1 DEF Clean
      <4> QED  BY <1>0, <1>c, <4>2, <4>3 DEF Tree
    <3> QED  BY <3>2, <3>3
  <2>4. \A f \in File : /\ ShownBefore(f) => ShownBefore(f)'
                        /\ SnapStands(f) => SnapStands(f)'
    BY <1>b, <1>d, <2>1, <2>2
  <2>5. /\ AtRest \cap (Reconciling \ {"recRead"}) = {}
        /\ Committing \cap Reconciling = {}
    BY DEF AtRest, Committing, Reconciling
  <2> QED  BY <1>1, <2>3, <2>4, <2>5 DEF EditsFollowed
<1> QED  BY <1>2, <1>3 DEF User

\* A reconciliation that ends leaves every file shown, whichever way it ends.
LEMMA EndFollowed ==
  ASSUME HeadInv, TrustedStands, EditsFollowed, [Next]_vars,
         pc \in Reconciling, pc' = "ready", NEW f \in File
  PROVE  Shown(f)'
<1>0. /\ job.todo \in SUBSET File /\ human \in Tree /\ job.head \in Commit
  BY JobFields DEF HeadInv, ViewsTyped, ControlTyped
<1>1. ShownBefore(f)  BY DEF EditsFollowed
<1> SUFFICES ASSUME human'[f] = index'[f], index'[f] = head'.tree[f],
                    f \notin pending', f \notin unseen'
             PROVE  Resolve(human'[f]) = Resolve(trusted'[f])
  BY DEF Shown, Clean
<1>2. CASE /\ pc = "recRead"
           /\ UNCHANGED <<agent, trusted, human, index, head, pending, unseen>>
  BY <1>2 DEF EditsFollowed, AtRest, Shown, Clean
<1>3. CASE /\ RecUndo /\ pc \in Before
           /\ UNCHANGED <<human, index, head, unseen>>
  <2>1. trusted' = job.trusted  BY <1>3 DEF RecUndo, RestoreAgent
  <2>2. f \notin pending /\ head.tree[f] = job.head.tree[f]
    <3>1. CASE moved
      <4>1. pending' = pending \cup Differ(job.head.tree, head.tree)
        BY <1>3, <3>1 DEF RecUndo
      <4> QED  BY <4>1 DEF Differ
    <3>2. CASE ~moved
      <4>1. UNCHANGED pending /\ head = job.head
        BY <1>3, <3>2 DEF RecUndo, HeadInv, HeadKnown
      <4> QED  BY <4>1
    <3> QED  BY <3>1, <3>2
  <2> QED  BY <1>1, <1>3, <2>1, <2>2 DEF ShownBefore
<1>4. CASE /\ RecRewind /\ pc \in After
           /\ UNCHANGED <<human, index, pending, unseen>>
  BY <1>1, <1>4 DEF RecRewind, RestoreAgent, ShownBefore
\* The commit stays: the file has been merged, or was not taken.
<1>a. ASSUME pc \in After, head.tree[f] = job.published.tree[f],
             UNCHANGED <<trusted, human, index, head>>,
             f \notin job.todo => f \notin pending \cup unseen
      PROVE  Resolve(human'[f]) = Resolve(trusted'[f])
  <2>1. job.published.tree[f] = IF f \in job.todo THEN job.snap[f] ELSE job.head.tree[f]
    BY <1>a, PublishedAfter
  <2>2. trusted[f] = IF f \in job.todo THEN Merged(f) ELSE job.trusted[f]
    BY <1>a DEF TrustedStands
  <2>3. CASE f \in job.todo
    BY <1>a, <2>1, <2>2, <2>3, MergedShows
  <2>4. CASE f \notin job.todo
    BY <1>1, <1>a, <2>1, <2>2, <2>4 DEF ShownBefore
  <2> QED  BY <2>3, <2>4
<1>5. CASE /\ RecPreserve /\ pc \in After
           /\ UNCHANGED <<agent, trusted, human, index, head, unseen>>
  <2>1. pending' = pending \cup Differ(job.published.tree, head.tree)
    BY <1>5 DEF RecPreserve
  <2> QED  BY <1>a, <1>5, <2>1 DEF Differ
<1>6. CASE /\ RecFinish /\ pc = "recRefreshed" /\ ~moved
           /\ pending' = pending \ job.todo /\ unseen' = unseen \ job.todo
           /\ UNCHANGED <<agent, trusted, human, index, head>>
  <2>1. pc \in After /\ head = job.published
    BY <1>6 DEF HeadInv, HeadKnown, After
  <2> QED  BY <1>a, <1>6, <2>1
<1> QED  BY <1>2, <1>3, <1>4, <1>5, <1>6, Endings

\* So does one whose rollback fails.
LEMMA UndoFailingFollowed ==
  ASSUME HeadInv, TrustedStands, EditsFollowed, pc \in Reconciling, RecUndoFails,
         NEW f \in File
  PROVE  Shown(f)'
<1>0. /\ job.todo \in SUBSET File /\ human \in Tree /\ job.head \in Commit
  BY JobFields DEF HeadInv, ViewsTyped, ControlTyped
<1>1. ShownBefore(f) /\ SnapStands(f)
  BY UndoFailing DEF EditsFollowed
<1>2. UNCHANGED <<human, index>>  BY UndoFailing
<1> SUFFICES ASSUME human[f] = index[f], index[f] = head'.tree[f],
                    f \notin pending', f \notin unseen'
             PROVE  Resolve(human[f]) = Resolve(trusted'[f])
  BY <1>2 DEF Shown, Clean
<1>3. pc # "recRead"  BY UndoFailing
<1>4. \/ trusted[f] = job.trusted[f]
      \/ f \in job.todo /\ trusted[f] = Merged(f)
  <2>1. CASE pc \in {"recStable", "recApplied"}  BY <2>1 DEF TrustedStands
  <2>2. CASE pc \in After \cup {"recTrusted"}  BY <2>2 DEF TrustedStands
  <2> QED  BY <1>3, <2>1, <2>2, ReconcilingParts DEF Before, After
\* HEAD is as it was read, for this file.
<1>a. ASSUME head'.tree[f] = job.head.tree[f], f \notin pending \cup unseen,
             trusted' \in {trusted, job.trusted}
      PROVE  Resolve(human[f]) = Resolve(trusted'[f])
  <2>1. Resolve(human[f]) = Resolve(job.trusted[f])
    BY <1>1, <1>a DEF ShownBefore
  <2>2. CASE f \in job.todo /\ trusted[f] = Merged(f)
    <3>1. Resolve(human[f]) = Resolve(trusted[f])
      BY <1>1, <1>a, <2>2, MergedShows DEF SnapStands
    <3> QED  BY <1>a, <2>1, <3>1
  <2> QED  BY <1>4, <1>a, <2>1, <2>2
<1>b. ASSUME NEW changed, NoteOrMiss(changed)
      PROVE  f \notin changed /\ f \notin pending \cup unseen
  BY <1>b DEF NoteOrMiss
<1>5. CASE /\ pc \in Before /\ UNCHANGED head
           /\ NoteOrMiss(IF moved THEN Differ(job.head.tree, head.tree) ELSE {})
           /\ trusted' \in {trusted, job.trusted}
  <2>1. head.tree[f] = job.head.tree[f]
    <3>1. CASE moved  BY <1>5, <1>b, <3>1 DEF Differ
    <3>2. CASE ~moved  BY <1>5, <3>2 DEF HeadInv, HeadKnown
    <3> QED  BY <3>1, <3>2
  <2>2. f \notin pending \cup unseen  BY <1>5, <1>b
  <2> QED  BY <1>5, <1>a, <2>1, <2>2
<1>6. CASE /\ UNCHANGED <<pending, unseen>> /\ head' = job.head
           /\ trusted' \in {trusted, job.trusted}
  BY <1>6, <1>a
<1>7. CASE /\ pc \in After /\ UNCHANGED <<trusted, head>>
           /\ NoteOrMiss(Differ(job.published.tree, head.tree))
  <2>1. job.published.tree[f] = head.tree[f] /\ f \notin pending \cup unseen
    BY <1>7, <1>b DEF Differ
  <2>2. job.published.tree[f] = IF f \in job.todo THEN job.snap[f] ELSE job.head.tree[f]
    BY <1>7, PublishedAfter
  <2>3. trusted[f] = IF f \in job.todo THEN Merged(f) ELSE job.trusted[f]
    BY <1>7 DEF TrustedStands
  <2>4. CASE f \in job.todo
    BY <1>7, <2>1, <2>2, <2>3, <2>4, MergedShows
  <2>5. CASE f \notin job.todo
    BY <1>1, <1>7, <2>1, <2>2, <2>3, <2>5 DEF ShownBefore
  <2> QED  BY <2>4, <2>5
<1> QED  BY <1>5, <1>6, <1>7, UndoFailing

LEMMA ReconcileFollowed ==
  ASSUME HeadInv, TrustedStands, EditsFollowed, [Next]_vars, Reconcile
  PROVE  EditsFollowed'
<1> USE DEF views, branches, history, counters, Goto
<1>0. /\ job \in Job /\ agent \in Tree /\ trusted \in Tree /\ human \in Tree
      /\ index \in Tree /\ head \in Commit /\ job.todo \in SUBSET File
  BY JobFields DEF HeadInv, ViewsTyped, HeadTyped, ControlTyped
<1>a. pc' \notin Committing  BY ReconcileApart
<1>b. pc' \notin {"comTwin", "comResolved"}  BY <1>a DEF Committing
<1>c. ASSUME pc \in AtRest, pc' \notin Reconciling,
             UNCHANGED <<trusted, human, index, head, pending, unseen>>
      PROVE  EditsFollowed'
  BY <1>a, <1>b, <1>c DEF EditsFollowed, Shown, Clean
<1>d. ASSUME pc \in Reconciling, pc' \notin AtRest,
             \A f \in File : ShownBefore(f) => ShownBefore(f)',
             \A f \in File : ShownBefore(f) /\ (pc # "recRead" => SnapStands(f))
                               => SnapStands(f)'
      PROVE  EditsFollowed'
  BY <1>a, <1>b, <1>d DEF EditsFollowed
<1>e. ASSUME pc \in Reconciling, pc' \notin AtRest, UNCHANGED <<human, index, unseen>>,
             pending \subseteq pending', job'.head = job.head, job'.trusted = job.trusted,
             \/ \A f \in job'.todo : human[f] = job'.snap[f]
             \/ pc # "recRead" /\ job'.todo = job.todo /\ job'.snap = job.snap
      PROVE  EditsFollowed'
  <2>1. \A f \in File : ShownBefore(f) => ShownBefore(f)'
    BY <1>e DEF ShownBefore
  <2>2. \A f \in File : (pc # "recRead" => SnapStands(f)) => SnapStands(f)'
    BY <1>e DEF SnapStands
  <2> QED  BY <1>d, <1>e, <2>1, <2>2
<1>1. CASE RecList
  BY <1>c, <1>1 DEF RecList, AtRest, Reconciling
<1>2. CASE RecRead
  <2>1. /\ pc = "listed" /\ pc' = "recRead" /\ job'.head = head /\ job'.trusted = trusted
        /\ UNCHANGED <<trusted, human, index, head, pending, unseen>>
    BY <1>0, <1>2, ReadJob DEF RecRead
  <2> QED
    BY <1>a, <1>b, <2>1 DEF EditsFollowed, AtRest, Shown, ShownBefore, Clean
<1>3. CASE pc \in Reconciling /\ pc' = "ready"
  BY <1>a, <1>b, <1>3, EndFollowed DEF EditsFollowed, Reconciling
<1>4. CASE pc = "listed" /\ pc' = "ready"
  <2>1. RecGiveUp
    BY <1>4
       DEF Reconcile, RecList, RecRead, RecStable, RecApply, RecTrusted, RecPublish,
           RecCheck, RecRefresh, RecFinish, RecFail, RecUndoFails, RecReport, Advanced,
           Reconciling
  <2> QED  BY <1>c, <2>1, <1>4 DEF RecGiveUp, AtRest, Reconciling
<1>11. CASE RecUndoFails
  <2>1. pc \in Reconciling /\ pc' = "reported"  BY <1>11 DEF RecUndoFails
  <2> QED
    BY <1>a, <1>b, <1>11, <2>1, UndoFailingFollowed
       DEF EditsFollowed, AtRest, Reconciling
<1>12. CASE RecReport
  BY <1>c, <1>12 DEF RecReport, AtRest, Reconciling
<1>5. CASE RecStable /\ pc' # "ready"
  <2> DEFINE safe == {f \in job.todo : human[f] = job.snap[f]}
  <2>1. safe # {}  BY <1>5 DEF RecStable
  <2>2. /\ pc = "recRead" /\ pc' = "recStable" /\ UNCHANGED <<human, index, pending, unseen>>
        /\ job' = [job EXCEPT !.todo = safe, !.index = index]
    BY <1>5, <2>1 DEF RecStable
  <2>3. safe \in SUBSET File  BY <1>0
  <2> HIDE DEF safe
  <2>4. /\ job'.trusted = job.trusted /\ job'.head = job.head
        /\ job'.todo = safe /\ job'.snap = job.snap
    BY <1>0, <2>2, <2>3, StableJob, Zenon
  <2>5. \A f \in job'.todo : human[f] = job'.snap[f]
    BY <2>4 DEF safe
  <2> QED  BY <1>e, <2>2, <2>4, <2>5 DEF Reconciling, AtRest
<1>6. CASE RecApply \/ RecTrusted
  BY <1>e, <1>6 DEF RecApply, RecTrusted, Reconciling, AtRest
<1>7. CASE RecPublish
  <2>1. head' \in Commit  BY HeadInvKept DEF HeadInv, HeadTyped
  <2>2. job' = [job EXCEPT !.published = head']  BY <1>7 DEF RecPublish
  <2>3. /\ job'.head = job.head /\ job'.trusted = job.trusted
        /\ job'.todo = job.todo /\ job'.snap = job.snap
    BY <1>0, <2>1, <2>2, PublishJob
  <2> QED  BY <1>e, <1>7, <2>3 DEF RecPublish, Reconciling, AtRest
<1>8. CASE Advanced /\ pc \in Reconciling \ {"recRead"}
  BY <1>e, <1>8 DEF Advanced, Reconciling, AtRest
<1>9. CASE RecCheck
  BY <1>e, <1>8, <1>9 DEF RecCheck, Reconciling, AtRest
<1>10. CASE RecRefresh /\ ~Advanced
  <2>1. /\ pc = "recChecked" /\ pc' = "recRefreshed"
        /\ index' = [f \in File |-> IF f \in Refreshable
                                    THEN job.published.tree[f] ELSE index[f]]
        /\ UNCHANGED <<human, pending, unseen, job>>
    BY <1>10 DEF RecRefresh
  <2>3. ASSUME NEW f \in File, SnapStands(f) PROVE SnapStands(f)'
    <3>1. SUFFICES ASSUME f \in job.todo \ unseen, human[f] = index'[f],
                          index'[f] = job.head.tree[f]
                   PROVE  human[f] = job.snap[f]
      BY <2>1 DEF SnapStands
    <3>2. index[f] = job.head.tree[f]
      <4>1. CASE f \in Refreshable  BY <4>1 DEF Refreshable
      <4>2. CASE f \notin Refreshable  BY <2>1, <3>1, <4>2
      <4> QED  BY <4>1, <4>2
    <3> QED  BY <2>3, <3>1, <3>2 DEF SnapStands
  <2>2. ASSUME NEW f \in File, ShownBefore(f) PROVE ShownBefore(f)'
    <3>1. CASE f \in Refreshable
      <4>1. index[f] = job.head.tree[f]
        <5>1. job.index[f] = index[f] /\ index[f] = job.head.tree[f]
          BY <3>1 DEF Refreshable
        <5> QED  BY <5>1
      <4> QED  BY <2>1, <2>2, <4>1 DEF ShownBefore
    <3>2. CASE f \notin Refreshable
      BY <2>1, <2>2, <3>2 DEF ShownBefore
    <3> QED  BY <3>1, <3>2
  <2> QED  BY <1>d, <2>1, <2>2, <2>3 DEF Reconciling, AtRest
<1> QED
  <2>1. RecRefresh => pc \in Reconciling \ {"recRead"}  BY DEF RecRefresh, Reconciling
  <2>2. RecFinish => \/ Advanced /\ pc \in Reconciling \ {"recRead"}
                     \/ pc \in Reconciling /\ pc' = "ready"
    BY DEF RecFinish, Reconciling
  <2>3. RecFail => pc \in Reconciling /\ pc' = "ready"  BY DEF RecFail
  <2>4. RecGiveUp => pc \in Reconciling \cup {"listed"} /\ pc' = "ready"
    BY DEF RecGiveUp, Reconciling
  <2>5. RecStable => pc \in Reconciling  BY DEF RecStable, Reconciling
  <2> QED
    BY <1>1, <1>2, <1>3, <1>4, <1>5, <1>6, <1>7, <1>8, <1>9, <1>10, <1>11, <1>12,
       <2>1, <2>2, <2>3, <2>4, <2>5 DEF Reconcile

LEMMA ToolFollowed ==
  ASSUME HeadInv, EditsFollowed, [Next]_vars, Tool
  PROVE  EditsFollowed'
<1>1. ASSUME NEW f \in File, ToolWrites(f) PROVE EditsFollowed'
  <2>1. /\ pc = "ready"
        /\ UNCHANGED <<trusted, human, index, head, pending, unseen, pc, job>>
    BY <1>1 DEF ToolWrites, branches, history
  <2> QED
    BY <2>1 DEF EditsFollowed, Shown, ShownBefore, SnapStands, Clean
<1>2. ASSUME NEW n \in 1..MaxCalls, Revert(n) PROVE EditsFollowed'
  <2>1. /\ pc = "ready" /\ pc' = "ready"
        /\ unseen' = {f \in File : {Resolve(agent'[f]), Resolve(trusted'[f])} # {human'[f]}}
    BY <1>2, Zenon DEF Revert
  <2>2. trusted' \in Tree  BY HeadInvKept DEF HeadInv, ViewsTyped
  <2>3. ASSUME NEW f \in File PROVE Shown(f)'
    <3> SUFFICES ASSUME f \notin unseen'
                 PROVE  Resolve(human'[f]) = Resolve(trusted'[f])
      BY DEF Shown
    <3>1. Resolve(trusted'[f]) = human'[f]  BY <2>1
    <3>2. trusted'[f] \in Text  BY <2>2 DEF Tree
    <3> QED  BY <3>1, <3>2, ResolvedIsText
  <2> QED
    BY <2>1, <2>3 DEF EditsFollowed, Reconciling, Committing
<1> QED  BY <1>1, <1>2 DEF Tool

\* The commit of the user's whole index shows what it sweeps along, or has it
\* noted.
LEMMA SweptFollowed ==
  ASSUME HeadInv, CommitIndex, UNCHANGED <<trusted, human, pending>>, pc \in Committing,
         NEW f \in File \ job.done, Shown(f), f \notin unseen' => f \notin unseen,
         f \in Swept => f \in unseen'
  PROVE  Shown(f)'
<1>1. human \in Tree /\ index \in Tree /\ head \in Commit /\ trusted[f] \in Text
  BY DEF HeadInv, ViewsTyped, HeadTyped, Tree
<1>2. index'[f] = index[f] /\ head'.tree[f] = index[f]
  BY <1>1, IndexCommitted
<1> SUFFICES ASSUME human[f] = index[f], f \notin pending, f \notin unseen'
             PROVE  Resolve(human[f]) = Resolve(trusted[f])
  BY <1>2 DEF Shown, Clean
<1>3. CASE index[f] = head.tree[f]
  BY <1>3 DEF Shown, Clean
<1>4. CASE index[f] # head.tree[f]
  <2>1. ~Hidden(f, index[f])  BY <1>4 DEF Swept
  <2>2. Resolve(trusted[f]) = human[f]  BY <2>1 DEF Hidden
  <2> QED  BY <1>1, <2>2, ResolvedIsText
<1> QED  BY <1>3, <1>4

LEMMA CommitFollowed ==
  ASSUME HeadInv, LeftAlone, EditsFollowed, [Next]_vars, CommitFiles
  PROVE  EditsFollowed'
<1> USE DEF views, branches, history, counters, Goto
<1>0. /\ job \in Job /\ agent \in Tree /\ trusted \in Tree /\ human \in Tree
      /\ index \in Tree /\ head \in Commit
      /\ job.todo \in SUBSET File /\ job.done \in SUBSET File
      /\ pc \in Committing => Plain(job)
      /\ pc = "comPicked" => job.file \in job.todo
      /\ pc \in Committing \ {"comPicked"} => job.file = None
  BY JobFields DEF HeadInv, ViewsTyped, HeadTyped, ControlTyped, JobFits
<1>a. pc' \notin Reconciling  BY OtherSteps
<1>1. CASE ComNothing
  BY <1>1 DEF ComNothing, EditsFollowed, AtRest, Shown, Clean, Committing, Reconciling
<1>2. CASE ComTrusted
  <2>1. /\ pc = "ready" /\ pc' = "comTrusted" /\ trusted' = agent
        /\ UNCHANGED <<human, index, head, pending, unseen>>
        /\ job'.todo = Differ(agent, trusted)
    BY <1>2, TrustedJob DEF ComTrusted
  <2>2. ASSUME NEW f \in File, f \notin job'.todo PROVE Shown(f)'
    <3>1. agent[f] = trusted[f]  BY <2>1, <2>2 DEF Differ
    <3>2. Shown(f)  BY <2>1 DEF EditsFollowed, AtRest
    <3> QED  BY <2>1, <3>1, <3>2 DEF Shown, Clean
  <2> QED  BY <1>a, <2>1, <2>2 DEF EditsFollowed, AtRest, Committing
<1>3. CASE ComPick
  <2>1. /\ pc = "comTrusted"
        /\ UNCHANGED <<trusted, human, index, head, pending, unseen>>
    BY <1>3 DEF ComPick
  <2>2. /\ job'.done = job.done /\ pc' \in {"comTrusted", "comPicked"}
        /\ job'.todo = job.todo \/ (~Clean(NextFile) /\ job'.todo = job.todo \ {NextFile})
    BY <1>0, <1>3, <2>1, PickJob DEF Committing
  <2>3. ASSUME NEW f \in File, f \notin job'.todo \cup job'.done PROVE Shown(f)'
    <3>1. f \notin job.todo \cup job.done \/ ~Clean(f)
      BY <2>2, <2>3
    <3> QED  BY <2>1, <3>1 DEF EditsFollowed, Committing, Shown, Clean
  <2> QED  BY <1>a, <2>2, <2>3 DEF EditsFollowed, AtRest
<1>4. CASE ComCopy
  <2>1. /\ pc = "comPicked" /\ pc' = "comTrusted"
        /\ UNCHANGED <<trusted, head, pending, unseen>>
        /\ job.file \in File
    BY <1>0, <1>4 DEF ComCopy
  <2>2. job'.todo \cup job'.done = job.todo \cup job.done
    BY <1>0, <1>4, <2>1, CopyJob DEF Committing
  <2>3. \A f \in File \ {job.file} : human'[f] = human[f] /\ index'[f] = index[f]
    BY <1>0, <1>4 DEF ComCopy, Tree
  <2>4. ASSUME NEW f \in File, f \notin job'.todo \cup job'.done PROVE Shown(f)'
    <3>1. f \notin job.todo \cup job.done /\ f # job.file
      BY <1>0, <2>1, <2>2, <2>4
    <3> QED  BY <2>1, <2>3, <3>1 DEF EditsFollowed, Committing, Shown, Clean
  <2> QED  BY <1>a, <2>1, <2>4 DEF EditsFollowed, AtRest
<1>5. CASE ComTwin
  <2>1. /\ pc = "comTrusted" /\ pc' = "comTwin" /\ job.todo = {} /\ CommitIndex
        /\ unseen' = unseen \cup Swept
        /\ UNCHANGED <<trusted, human, pending, job>>
    BY <1>5 DEF ComTwin
  <2>2. \A f \in File \ job.done : Shown(f)  BY <2>1 DEF EditsFollowed, Committing
  <2>3. \A f \in File \ job.done : Shown(f)'
    BY <2>1, <2>2, SweptFollowed DEF Committing
  <2> QED  BY <1>a, <2>1, <2>3 DEF EditsFollowed, AtRest
<1>6. CASE ComAllSkipped
  BY <1>6
     DEF ComAllSkipped, EditsFollowed, Shown, Clean, Committing, Reconciling, AtRest
<1>7. CASE ComResolve
  <2>1. /\ pc = "comTwin" /\ pc' = "comResolved"
        /\ UNCHANGED <<trusted, index, head, pending, unseen, job>>
        /\ \A f \in File \ job.done : human'[f] = human[f]
    BY <1>0, <1>7 DEF ComResolve
  <2>2. \A f \in File \ job.done : Shown(f)'
    BY <2>1 DEF EditsFollowed, Committing, Shown, Clean
  <2> QED  BY <1>a, <2>1, <2>2 DEF EditsFollowed, AtRest
<1>8. CASE ComUntrusted
  <2>1. /\ pc = "comResolved" /\ pc' = "idle" /\ CommitIndex
        /\ unseen' = (unseen \ job.done) \cup Swept
        /\ UNCHANGED <<trusted, human, pending>>
    BY <1>8 DEF ComUntrusted
  <2>2. ASSUME NEW f \in job.done PROVE Shown(f)'
    <3>1. human[f] = Resolve(trusted[f]) /\ trusted[f] \in Text
      BY <1>0, <2>1 DEF LeftAlone, Committing, Tree
    <3> QED  BY <2>1, <3>1, ResolvedIsText DEF Shown
  <2>3. ASSUME NEW f \in File \ job.done PROVE Shown(f)'
    <3>1. Shown(f)  BY <2>1 DEF EditsFollowed, Committing
    <3> QED  BY <2>1, <3>1, SweptFollowed DEF Committing
  <2> QED  BY <1>a, <2>1, <2>2, <2>3 DEF EditsFollowed, Committing
<1>9. CASE ComFail
  <2>1. /\ pc \in Committing /\ pc' = "idle"
        /\ unseen' = unseen \cup job.todo \cup job.done
        /\ UNCHANGED <<trusted, human, index, head, pending>>
    BY <1>9 DEF ComFail
  <2>2. \A f \in File : Shown(f)'
    BY <2>1 DEF EditsFollowed, Shown, Clean
  <2> QED  BY <1>a, <2>1, <2>2 DEF EditsFollowed, Committing
<1> QED
  BY <1>1, <1>2, <1>3, <1>4, <1>5, <1>6, <1>7, <1>8, <1>9 DEF CommitFiles

LEMMA EditsFollowedKept ==
  ASSUME HeadInv, TrustedStands, LeftAlone, EditsFollowed, [Next]_vars
  PROVE  EditsFollowed'
<1>1. CASE UNCHANGED vars
  BY <1>1
     DEF vars, views, branches, history, EditsFollowed, Shown, ShownBefore, SnapStands,
         Clean
<1> QED
  BY <1>1, UserFollowed, ReconcileFollowed, ToolFollowed, CommitFollowed DEF Next

\* Between calls, what looks unchanged to git and is not pending is in the
\* Agent view what it is in the Human view, but for the files of "unseen":
\* every edit the user makes while a reconciliation is under way is noted for
\* the next.
THEOREM EditsReachTheAgent ==
  ASSUME QuietCommit
  PROVE  Spec => []EditsReachAgent
<1>1. Init => EditsFollowed
  <2> SUFFICES ASSUME Init, NEW f \in File PROVE Shown(f)
    BY DEF Init, EditsFollowed, Committing, Reconciling
  <2>1. Start[f] \in Text  BY FixedModeAssumption DEF Text
  <2> QED  BY <2>1, ResolvedIsText DEF Init, Shown
<1>2. EditsFollowed => EditsReachAgent
  BY DEF EditsFollowed, AtRest, Shown, EditsReachAgent
<1> QED
  BY <1>1, <1>2, EditsFollowedKept, HeadInvAlways, TrustedStandsAlways, LeftAloneAlways,
     PTL DEF Spec

===========================================================================
