------------------------- MODULE PolicyManagerProofs -------------------------
(***************************************************************************)
(* What is proved of PolicyManager, for any processes, directories, nested *)
(* or not, files, and any number of changes, calls, edits and restarts:    *)
(*                                                                         *)
(*  - the views follow the paths, whether or not the managers write the    *)
(*    policy file one at a time (SyncInv is inductive);                    *)
(*  - the policy file and the blocks are kept if they do (FileInv is       *)
(*    inductive under Serial).                                             *)
(***************************************************************************)
EXTENDS PolicyManager, TLAPS

\* Changing the policy of a category gives a policy.
LEMMA ChangedIsConfig ==
  ASSUME NEW config \in Config, NEW c \in Change
  PROVE  Changed(config, c) \in Config
<1>1. c.list \in List /\ c.entry \in Entry
  BY DEF Change
<1>2. CASE c.list = "trusted"
  BY <1>1, <1>2 DEF Changed, AddEntry, RemoveEntry, DefaultFor, Config
<1>3. CASE c.list = "untrusted"
  BY <1>1, <1>3 DEF Changed, AddEntry, RemoveEntry, DefaultFor, Config
<1> QED BY <1>1, <1>2, <1>3 DEF List

\* Merging two policies gives a policy.
LEMMA MergedIsConfig ==
  ASSUME NEW y \in Config, NEW s \in Config
  PROVE  Merge(y, s) \in Config
BY DEF Merge, Config

\* The paths of a policy are entries.
LEMMA ExplicitEntries ==
  ASSUME NEW config \in Config
  PROVE  Explicit(config) \in SUBSET Entry
BY DEF Explicit, Config

\* The files under some entries are files.
LEMMA CoveredFiles ==
  ASSUME NEW S \in SUBSET Entry
  PROVE  Covered(S) \in SUBSET File
BY PolicyManagerAssumption DEF Covered

\* The files under the entries of two sets together.
LEMMA CoveredUnion ==
  ASSUME NEW S, NEW T
  PROVE  Covered(S \cup T) = Covered(S) \cup Covered(T)
BY DEF Covered

\* Raw, behind a symbol, and mixed are three things.
LEMMA ThreeKinds ==
  /\ Raw \cap Symbol = {} /\ Raw \cap Mixed = {} /\ Symbol \cap Mixed = {}
<1>1. /\ \A r \in Raw : DOMAIN r = {"raw"}
      /\ \A r \in Symbol : DOMAIN r = {"symbol"}
      /\ \A r \in Mixed : DOMAIN r = {"mixed"}
  BY DEF Raw, Symbol, Mixed
<1>2. {"raw"} # {"symbol"} /\ {"raw"} # {"mixed"} /\ {"symbol"} # {"mixed"}
  OBVIOUS
<1> QED BY <1>1, <1>2, Zenon

LEMMA SymbolIsNotRaw ==
  ASSUME NEW t
  PROVE  [symbol |-> t] \notin Raw
<1>1. \A r \in Raw : DOMAIN r = {"raw"}
  BY DEF Raw
<1>2. DOMAIN [symbol |-> t] = {"symbol"} /\ {"symbol"} # {"raw"}
  OBVIOUS
<1> QED BY <1>1, <1>2, Zenon

\* What each of the three ways to show a text gives.
LEMMA RawOrSymbol ==
  ASSUME NEW t \in Text \cup {Absent}
  PROVE  /\ View(t) \in Raw \cup {Absent} /\ Behind(t) \in Symbol \cup {Absent}
         /\ View(t) \notin Symbol /\ Behind(t) \notin Raw \cup Mixed
         /\ t # Absent => Mix(t) \in Mixed /\ Mix(t) \notin Symbol
<1>1. CASE t = Absent
  BY <1>1, PolicyManagerAssumption DEF View, Behind
<1>2. CASE t # Absent
  <2>1. View(t) \in Raw /\ Behind(t) \in Symbol /\ Mix(t) \in Mixed
    BY <1>2 DEF View, Behind, Mix, Raw, Symbol, Mixed
  <2> QED BY <2>1, ThreeKinds
<1> QED BY <1>1, <1>2

---------------------------------------------------------------------------
(***************************************************************************)
(* Types                                                                   *)
(***************************************************************************)
\* The initial state has the types.
LEMMA TypeInit == Init => TypeOK
<1> SUFFICES ASSUME Init PROVE TypeOK
  OBVIOUS
<1>1. NoConfig \in Config
  BY DEF NoConfig, Config
<1>2. \A f \in File : View(human[f]) \in Raw \cup {Absent} /\ Mix(human[f]) \in Mixed
  <2>1. \A f \in File : human[f] \in Text
    BY DEF Init
  <2> QED BY <2>1, RawOrSymbol, PolicyManagerAssumption
<1>3. Explicit(file) \in SUBSET Entry
  BY <1>1, ExplicitEntries DEF Init
<1>4. agent \in [File -> Raw \cup Symbol \cup Mixed \cup {Absent}]
  BY <1>2 DEF Init
<1>5. human \in [File -> Text \cup {Absent}]
  BY DEF Init
<1>6. paths \in SUBSET Entry /\ file \in Config
  BY <1>1, <1>3 DEF Init
<1>7. /\ yaml \in [Process -> Config] /\ overlay \in [Process -> Config]
      /\ saving \in [Process -> {None} \cup [change : Change, target : Config]]
      /\ blocked \in [Process -> SUBSET Entry]
  BY <1>1 DEF Init
<1>8. /\ approved \in [trusted : SUBSET Entry, untrusted : SUBSET Entry]
      /\ changes \in 0..MaxChanges /\ calls \in 0..MaxCalls
      /\ edits \in 0..MaxEdits /\ restarts \in 0..MaxRestarts
  BY PolicyManagerAssumption DEF Init
<1> QED BY <1>4, <1>5, <1>6, <1>7, <1>8 DEF Init, TypeOK

\* Every step keeps the types.
LEMMA TypeStep == TypeOK /\ [Next]_vars => TypeOK'
<1> SUFFICES ASSUME TypeOK, [Next]_vars PROVE TypeOK'
  OBVIOUS
<1> USE PolicyManagerAssumption DEF TypeOK
<1>0. NoConfig \in Config
  BY DEF NoConfig, Config
<1>a. Effective(Agent) \in Config
  BY MergedIsConfig DEF Effective
<1>b. \A f \in File : /\ View(human[f]) \in Raw \cup {Absent}
                      /\ Behind(human[f]) \in Symbol \cup {Absent}
  BY RawOrSymbol
<1>c. Symbolized \in [File -> Raw \cup Symbol \cup Mixed \cup {Absent}]
  BY <1>b DEF Symbolized
<1>1. ASSUME NEW p \in Process, NEW c \in Change, ChangeSession(p, c)
      PROVE  TypeOK'
  <2>1. Changed(overlay[p], c) \in Config
    BY ChangedIsConfig
  <2>2. BlockedAfter(blocked[p], c) \in SUBSET Entry
    BY DEF BlockedAfter, Change
  <2> QED BY <1>1, <2>1, <2>2 DEF ChangeSession, views, runtime, exceptions
<1>2. ASSUME NEW p \in Process, NEW c \in Change, PersistRead(p, c)
      PROVE  TypeOK'
  <2>1. Changed(file, c) \in Config
    BY ChangedIsConfig
  <2>2. [change |-> c, target |-> Changed(file, c)] \in [change : Change, target : Config]
    BY <2>1
  <2>3. saving' \in [Process -> {None} \cup [change : Change, target : Config]]
    BY <1>2, <2>2 DEF PersistRead, Target
  <2> QED BY <1>2, <2>3 DEF PersistRead, views, runtime, exceptions
<1>3. ASSUME NEW p \in Process, PersistWrite(p)
      PROVE  TypeOK'
  <2> DEFINE c == saving[p].change
  <2>1. saving[p] \in [change : Change, target : Config]
    BY <1>3 DEF PersistWrite
  <2>2. c \in Change /\ c.list \in List /\ c.entry \in Entry /\ saving[p].target \in Config
    BY <2>1 DEF Change
  <2>3. approved' \in [trusted : SUBSET Entry, untrusted : SUBSET Entry]
    <3>1. CASE c.list = "trusted"
      BY <1>3, <2>2, <3>1 DEF PersistWrite
    <3>2. CASE c.list = "untrusted"
      BY <1>3, <2>2, <3>2 DEF PersistWrite
    <3> QED BY <2>2, <3>1, <3>2 DEF List
  <2>4. \A q \in Process : BlockedAfter(blocked[q], c) \in SUBSET Entry
    BY <2>2 DEF BlockedAfter
  <2>5. blocked' \in [Process -> SUBSET Entry]
    BY <1>3, <2>4 DEF PersistWrite
  <2>6. saving' \in [Process -> {None} \cup [change : Change, target : Config]]
    BY <1>3 DEF PersistWrite
  <2> QED BY <1>3, <2>2, <2>3, <2>5, <2>6 DEF PersistWrite, views, runtime, counters, exceptions
<1>4. ASSUME NEW p \in Process, ClearSession(p)
      PROVE  TypeOK'
  BY <1>0, <1>4 DEF ClearSession, views, runtime, counters, exceptions
<1>5. ASSUME NEW p \in Process, Restart(p)
      PROVE  TypeOK'
  <2>1. Explicit(file) \in SUBSET Entry
    BY ExplicitEntries
  <2>2. saving' \in [Process -> {None} \cup [change : Change, target : Config]]
    BY <1>5 DEF Restart
  <2>3. /\ yaml' \in [Process -> Config] /\ overlay' \in [Process -> Config]
        /\ blocked' \in [Process -> SUBSET Entry] /\ restarts' \in 0..MaxRestarts
        /\ UNCHANGED <<file, approved, human, head, agent, changes, calls, edits, exposed,
                       spared>>
    BY <1>0, <1>5 DEF Restart, views
  <2>4. CASE p = Agent
    <3>1. Covered(Explicit(file)) \in SUBSET File
      BY <2>1, CoveredFiles
    <3>2. stranded' \in SUBSET File
      BY <1>5, <2>4, <3>1 DEF Restart, Hidden
    <3>3. /\ paths' \in SUBSET Entry /\ known' = FALSE /\ pc' = "idle"
          /\ removed' = {} /\ wanted' = {}
      BY <1>5, <2>1, <2>4 DEF Restart
    <3> QED BY <2>2, <2>3, <3>2, <3>3
  <2>5. CASE p # Agent
    BY <1>5, <2>2, <2>5, <2>3 DEF Restart, runtime
  <2> QED BY <2>4, <2>5
<1>6. ASSUME NEW f \in File, HumanEdits(f)
      PROVE  TypeOK'
  BY <1>6 DEF HumanEdits, managers, runtime, exceptions
<1>7. CASE CallBegins
  <2>1. wanted' \in SUBSET Entry
    BY <1>7, <1>a, ExplicitEntries DEF CallBegins
  <2>2. removed' = paths \ wanted'
    BY <1>7 DEF CallBegins, Removed
  <2> QED BY <1>7, <2>1, <2>2 DEF CallBegins, managers, views, exceptions
<1>8. CASE Restore
  <2>1. Covered(removed) \in SUBSET File
    BY CoveredFiles
  <2>2. agent' \in [File -> Raw \cup Symbol \cup Mixed \cup {Absent}]
    BY <1>8, <1>b DEF Restore
  <2> QED BY <1>8, <2>1, <2>2 DEF Restore, managers, counters
<1>9. CASE Sync
  <2>1. Covered(Added) \in SUBSET File
    BY CoveredFiles DEF Added
  <2>2. Spared \in SUBSET File
    BY <2>1 DEF Spared
  <2> QED BY <1>9, <1>c, <2>1, <2>2 DEF Sync, managers, counters
<1>10. CASE Reconcile
  <2>1. PICK left \in SUBSET {f \in File : human[f] # Absent} :
          agent' = [f \in File |->
            IF f \notin {g \in File : human[g] # head[g]} THEN agent[f]
            ELSE IF f \in Covered(paths) THEN Behind(human[f])
            ELSE IF f \in left THEN Mix(human[f]) ELSE View(human[f])]
    BY <1>10 DEF Reconcile
  <2>2. \A f \in left : Mix(human[f]) \in Mixed
    BY RawOrSymbol
  <2>3. agent' \in [File -> Raw \cup Symbol \cup Mixed \cup {Absent}]
    BY <1>b, <2>1, <2>2
  <2> QED BY <1>10, <2>3 DEF Reconcile, managers, counters
<1>11. CASE CallFails
  <2>1. Covered(Added) \in SUBSET File
    BY CoveredFiles DEF Added
  <2>2. agent' \in [File -> Raw \cup Symbol \cup Mixed \cup {Absent}] /\ stranded' \in SUBSET File
    BY <1>11, <1>c, <2>1 DEF CallFails
  <2> QED BY <1>11, <2>2 DEF CallFails, managers, counters
<1>12. CASE CallEnds
  BY <1>12 DEF CallEnds, managers, views, counters, exceptions
<1>13. CASE UNCHANGED vars
  BY <1>13 DEF vars, managers, views, runtime, counters, exceptions
<1> QED BY <1>1, <1>2, <1>3, <1>4, <1>5, <1>6, <1>7, <1>8, <1>9, <1>10, <1>11,
           <1>12, <1>13 DEF Next, Managers

\* The variables keep their types; before the paths are exchanged the removed
\* ones are those no longer wanted, and afterwards the runtime has the wanted
\* ones.
THEOREM TypeCorrect == Spec => []TypeOK
<1> QED BY TypeInit, TypeStep, PTL DEF Spec

---------------------------------------------------------------------------
(***************************************************************************)
(* The views follow the paths                                              *)
(***************************************************************************)
SyncInv ==
  /\ pc = "restored" => Hidden \cap Covered(removed) = {}
  /\ Hidden \subseteq Covered(paths) \cup stranded
  /\ known => \A f \in Covered(paths) \ (exposed \cup spared) : agent[f] \notin Raw \cup Mixed

\* The initial state satisfies the invariant.
LEMMA SyncInit == Init => SyncInv
<1> SUFFICES ASSUME Init PROVE SyncInv
  OBVIOUS
<1>1. \A f \in File : human[f] \in Text
  BY DEF Init
<1>2. \A f \in File : View(human[f]) \notin Symbol /\ Mix(human[f]) \notin Symbol
  BY <1>1, RawOrSymbol, PolicyManagerAssumption
<1>3. Hidden = {}
  BY <1>2 DEF Init, Hidden
<1> QED BY <1>3 DEF Init, SyncInv

\* Every step keeps the invariant.
LEMMA SyncStep == TypeOK /\ SyncInv /\ [Next]_vars => SyncInv'
<1> SUFFICES ASSUME TypeOK, SyncInv, [Next]_vars PROVE SyncInv'
  OBVIOUS
<1> USE DEF SyncInv, Hidden
<1>a. \A f \in File : /\ View(human[f]) \notin Symbol
                      /\ Behind(human[f]) \notin Raw \cup Mixed
  BY RawOrSymbol DEF TypeOK
<1>b. /\ Covered(paths) \in SUBSET File /\ Covered(wanted) \in SUBSET File
      /\ Covered(removed) \in SUBSET File /\ Covered(Added) \in SUBSET File
  BY CoveredFiles DEF TypeOK, Added
<1>1. ASSUME NEW p \in Process, NEW c \in Change,
             ChangeSession(p, c) \/ PersistRead(p, c)
      PROVE  SyncInv'
  BY <1>1 DEF ChangeSession, PersistRead, views, runtime, exceptions
<1>2. ASSUME NEW p \in Process, PersistWrite(p) \/ ClearSession(p)
      PROVE  SyncInv'
  BY <1>2 DEF PersistWrite, ClearSession, views, runtime, exceptions
<1>3. ASSUME NEW p \in Process, Restart(p)
      PROVE  SyncInv'
  <2>1. CASE p = Agent
    BY <1>3, <2>1 DEF Restart, views
  <2>2. CASE p # Agent
    BY <1>3, <2>2 DEF Restart, views, runtime
  <2> QED BY <2>1, <2>2
<1>4. ASSUME NEW f \in File, HumanEdits(f)
      PROVE  SyncInv'
  BY <1>4 DEF HumanEdits, runtime, exceptions
<1>5. CASE CallBegins
  BY <1>5 DEF CallBegins, views, exceptions
<1>6. CASE Restore
  <2>1. Hidden' = Hidden \ Covered(removed)
    BY <1>6, <1>a, <1>b DEF Restore, TypeOK
  <2>2. Hidden' \cap Covered(removed') = {} /\ Hidden' \subseteq Covered(paths') \cup stranded'
    BY <1>6, <2>1 DEF Restore
  <2>3. ASSUME known', NEW f \in Covered(paths') \ (exposed' \cup spared')
        PROVE  agent'[f] \notin Raw \cup Mixed
    <3>1. f \in File /\ f \notin Covered(removed)
      BY <1>6, <1>b, <2>3 DEF Restore
    <3> QED BY <1>6, <2>3, <3>1 DEF Restore
  <2> QED BY <1>6, <2>2, <2>3 DEF Restore
<1>7. CASE Sync
  <2>1. paths = removed \cup (paths \cap wanted)
    BY <1>7 DEF Sync, TypeOK
  <2>2. Covered(paths) \subseteq Covered(removed) \cup Covered(wanted)
    BY <2>1 DEF Covered
  <2>3. Hidden' \subseteq Hidden \cup Covered(Added) /\ Covered(Added) \subseteq Covered(wanted)
    BY <1>7 DEF Sync, Symbolized, Added, Covered
  <2>4. Hidden' \subseteq Covered(paths') \cup stranded'
    BY <1>7, <2>2, <2>3 DEF Sync
  <2>5. ASSUME NEW f \in Covered(paths') \ (exposed' \cup spared')
        PROVE  agent'[f] \notin Raw \cup Mixed
    <3>1. f \in Covered(wanted) /\ f \in File
      BY <1>7, <1>b DEF Sync
    <3>2. CASE f \in Covered(Added)
      <4>1. agent'[f] = IF AsItIs(f) THEN agent[f] ELSE Behind(human[f])
        BY <1>7, <3>1, <3>2 DEF Sync, Symbolized
      <4>2. CASE AsItIs(f)
        <5>1. agent[f] \notin Mixed
          BY <1>7, <2>5, <3>2, <4>2 DEF Sync, Spared
        <5>2. agent[f] = [mixed |-> human[f]] => agent[f] \notin Raw
          BY DEF Raw
        <5> QED BY <4>1, <4>2, <5>1, <5>2, SymbolIsNotRaw DEF AsItIs
      <4> QED BY <1>a, <3>1, <4>1, <4>2
    <3>3. CASE f \notin Covered(Added)
      <4>1. known /\ f \in Covered(paths)
        BY <3>1, <3>3 DEF Added, Covered
      <4>2. f \notin exposed \cup spared
        BY <1>7, <2>5, <3>1, <3>3 DEF Sync
      <4> QED BY <1>7, <3>1, <3>3, <4>1, <4>2 DEF Sync, Symbolized
    <3> QED BY <3>2, <3>3
  <2>6. pc' # "restored"
    BY <1>7 DEF Sync
  <2> QED BY <2>4, <2>5, <2>6
<1>8. CASE Reconcile
  <2> DEFINE edited == {f \in File : human[f] # head[f]}
  <2>0. PICK left \in SUBSET {f \in edited \ Covered(paths) : human[f] # Absent} :
          agent' = [f \in File |->
            IF f \notin edited THEN agent[f]
            ELSE IF f \in Covered(paths) THEN Behind(human[f])
            ELSE IF f \in left THEN Mix(human[f]) ELSE View(human[f])]
    BY <1>8 DEF Reconcile
  <2>4. \A f \in left : Mix(human[f]) \notin Symbol
    BY RawOrSymbol DEF TypeOK
  <2>1. Hidden' \subseteq Covered(paths') \cup stranded'
    <3> SUFFICES ASSUME NEW f \in File, agent'[f] \in Symbol
                 PROVE  f \in Covered(paths) \cup stranded'
      BY <1>8 DEF Reconcile
    <3>1. CASE f \notin edited
      BY <1>8, <2>0, <3>1 DEF Reconcile
    <3>2. CASE f \in edited
      BY <1>a, <2>0, <2>4, <3>2
    <3> QED BY <3>1, <3>2
  <2>2. ASSUME known', NEW f \in Covered(paths') \ (exposed' \cup spared')
        PROVE  agent'[f] \notin Raw \cup Mixed
    <3>1. f \in File /\ f \in Covered(paths) /\ known
      BY <1>8, <1>b, <2>2 DEF Reconcile
    <3>2. CASE f \in edited
      BY <1>a, <2>0, <3>1, <3>2
    <3>3. CASE f \notin edited
      BY <1>8, <2>0, <2>2, <3>1, <3>3 DEF Reconcile
    <3> QED BY <3>2, <3>3
  <2> QED BY <1>8, <2>1, <2>2 DEF Reconcile
<1>9. CASE CallFails
  <2>1. CASE UNCHANGED <<agent, stranded>>
    BY <1>9, <2>1 DEF CallFails
  <2>2. CASE agent' = Symbolized /\ stranded' = stranded \cup (Covered(Added) \ Covered(paths))
    <3>1. Hidden' \subseteq Hidden \cup Covered(Added)
      BY <2>2 DEF Symbolized
    <3>2. \A f \in File : agent'[f] \in Raw \cup Mixed => agent[f] \in Raw \cup Mixed
      BY <1>a, <2>2 DEF Symbolized
    <3> QED BY <1>9, <1>b, <2>2, <3>1, <3>2 DEF CallFails
  <2> QED BY <1>9, <2>1, <2>2 DEF CallFails
<1>10. CASE CallEnds
  BY <1>10 DEF CallEnds, views, exceptions
<1>11. CASE UNCHANGED vars
  BY <1>11 DEF vars, views, runtime, exceptions
<1> QED BY <1>1, <1>2, <1>3, <1>4, <1>5, <1>6, <1>7, <1>8, <1>9, <1>10, <1>11
        DEF Next, Managers

\* While a tool runs, no line of a file under an untrusted path in force is raw
\* in the Agent view, whatever directories the policy names and however
\* processes restart and calls fail, but for the files that are given back too
\* early and those that were mixed already when their path was added.
THEOREM BlockedStayHidden == Spec => []BlockedBehindSymbols
<1>1. TypeOK /\ SyncInv => BlockedBehindSymbols
  BY DEF TypeOK, SyncInv, BlockedBehindSymbols
<1> QED BY <1>1, TypeInit, TypeStep, SyncInit, SyncStep, PTL DEF Spec

\* While a tool runs, no other file is behind one symbol, but for those under
\* paths that the runtime has forgotten.
THEOREM UnblockedAreReadable == Spec => []UnblockedReadable
<1>1. SyncInv => UnblockedReadable
  BY DEF SyncInv, UnblockedReadable
<1> QED BY <1>1, TypeInit, TypeStep, SyncInit, SyncStep, PTL DEF Spec

---------------------------------------------------------------------------
(***************************************************************************)
(* The policy file, written by one process at a time                       *)
(***************************************************************************)
FileInv ==
  /\ PersistedKept
  /\ \A p \in Process : saving[p] # None =>
       /\ saving[p].target = Changed(file, saving[p].change)
       /\ \A q \in Process \ {p} : saving[q] = None
  /\ \A p \in Process : \A e \in blocked[p] :
       \/ e \in overlay[p].untrusted
       \/ e \in yaml[p].untrusted /\ e \in file.untrusted

\* What a change leaves of the entries that are to be untrusted.
LEMMA ChangedUntrusted ==
  ASSUME NEW config \in Config, NEW c \in Change
  PROVE  /\ c.list = "trusted" => Changed(config, c).untrusted = config.untrusted
         /\ c.list = "untrusted" =>
              Changed(config, c).untrusted =
                IF c.op = "add" THEN config.untrusted \cup {c.entry}
                ELSE config.untrusted \ {c.entry}
         /\ c.list = "untrusted" => Changed(config, c).trusted = config.trusted
         /\ c.list = "trusted" =>
              Changed(config, c).trusted =
                IF c.op = "add" THEN config.trusted \cup {c.entry}
                ELSE config.trusted \ {c.entry}
         /\ c.list = "trusted" \/ c.list = "untrusted"
<1>1. c.list \in List /\ c.entry \in Entry
  BY DEF Change
<1>2. CASE c.list = "trusted"
  BY <1>1, <1>2 DEF Changed, AddEntry, RemoveEntry, Config
<1>3. CASE c.list = "untrusted"
  BY <1>1, <1>3 DEF Changed, AddEntry, RemoveEntry, Config
<1> QED BY <1>1, <1>2, <1>3 DEF List

\* The initial state satisfies the invariant.
LEMMA FileInit == Init => FileInv
BY DEF Init, FileInv, PersistedKept, NoConfig

\* Every step keeps the invariant.
LEMMA FileStep ==
  ASSUME Serial
  PROVE  TypeOK /\ FileInv /\ [Next]_vars => FileInv'
<1> SUFFICES ASSUME TypeOK, FileInv, [Next]_vars PROVE FileInv'
  OBVIOUS
<1> USE DEF FileInv
<1>1. ASSUME NEW p \in Process, NEW c \in Change, ChangeSession(p, c)
      PROVE  FileInv'
  <2>1. PersistedKept'
    BY <1>1 DEF ChangeSession, PersistedKept
  <2>2. ASSUME NEW q \in Process, NEW e \in blocked'[q]
        PROVE  \/ e \in overlay'[q].untrusted
               \/ e \in yaml'[q].untrusted /\ e \in file'.untrusted
    <3>1. CASE q # p
      BY <1>1, <2>2, <3>1 DEF ChangeSession, TypeOK
    <3>2. CASE q = p
      <4>1. overlay'[q] = Changed(overlay[q], c) /\ blocked'[q] = BlockedAfter(blocked[q], c)
        BY <1>1, <3>2 DEF ChangeSession, TypeOK
      <4>2. overlay[q] \in Config
        BY DEF TypeOK
      <4>3. /\ c.list = "trusted" => Changed(overlay[q], c).untrusted = overlay[q].untrusted
            /\ c.list # "trusted" =>
                 Changed(overlay[q], c).untrusted =
                   IF c.op = "add" THEN overlay[q].untrusted \cup {c.entry}
                   ELSE overlay[q].untrusted \ {c.entry}
        BY <4>2, ChangedUntrusted
      <4>4. /\ c.list = "trusted" => e \in blocked[q]
            /\ c.list # "trusted" =>
                 IF c.op = "add" THEN e \in blocked[q] \cup {c.entry}
                 ELSE e \in blocked[q] \ {c.entry}
        BY <2>2, <4>1 DEF BlockedAfter
      <4>5. UNCHANGED <<yaml, file>>
        BY <1>1 DEF ChangeSession
      <4> QED BY <4>1, <4>3, <4>4, <4>5
    <3> QED BY <3>1, <3>2
  <2> QED BY <1>1, <2>1, <2>2 DEF ChangeSession
<1>2. ASSUME NEW p \in Process, NEW c \in Change, PersistRead(p, c)
      PROVE  FileInv'
  <2>1. PersistedKept'
    BY <1>2 DEF PersistRead, PersistedKept
  <2>2. ASSUME NEW q \in Process, saving'[q] # None
        PROVE  /\ saving'[q].target = Changed(file', saving'[q].change)
               /\ \A r \in Process \ {q} : saving'[r] = None
    <3>1. q = p
      BY <1>2, <2>2 DEF PersistRead, TypeOK
    <3>2. saving'[q] = [change |-> c, target |-> Changed(file, c)]
      BY <1>2, <3>1 DEF PersistRead, Target, TypeOK
    <3> QED BY <1>2, <3>1, <3>2 DEF PersistRead, TypeOK
  <2> QED BY <1>2, <2>1, <2>2 DEF PersistRead
<1>3. ASSUME NEW p \in Process, PersistWrite(p)
      PROVE  FileInv'
  <2> DEFINE c == saving[p].change
  <2>1. saving[p] \in [change : Change, target : Config]
    BY <1>3 DEF PersistWrite, TypeOK
  <2>2. c \in Change /\ file \in Config /\ file' = Changed(file, c)
    BY <1>3, <2>1 DEF PersistWrite, TypeOK
  <2>8. c.op = "add" \/ c.op = "delete"
    BY <2>2 DEF Change
  <2>9. /\ c.list = "trusted" =>
             /\ file'.untrusted = file.untrusted
             /\ file'.trusted = IF c.op = "add" THEN file.trusted \cup {c.entry}
                               ELSE file.trusted \ {c.entry}
        /\ c.list = "untrusted" =>
             /\ file'.trusted = file.trusted
             /\ file'.untrusted = IF c.op = "add" THEN file.untrusted \cup {c.entry}
                                 ELSE file.untrusted \ {c.entry}
        /\ c.list = "trusted" \/ c.list = "untrusted"
    BY <2>2, ChangedUntrusted
  <2>3. PersistedKept'
    <3>1. approved' = [approved EXCEPT ![c.list] =
                         IF c.op = "add" THEN @ \cup {c.entry} ELSE @ \ {c.entry}]
      BY <1>3 DEF PersistWrite
    <3>2. /\ approved \in [trusted : SUBSET Entry, untrusted : SUBSET Entry]
          /\ approved' \in [trusted : SUBSET Entry, untrusted : SUBSET Entry]
      BY TypeStep DEF TypeOK
    <3>3. approved.trusted = file.trusted /\ approved.untrusted = file.untrusted
      BY DEF PersistedKept
    <3>4. approved'.trusted = file'.trusted /\ approved'.untrusted = file'.untrusted
      <4>1. CASE c.list = "trusted"
        BY <2>9, <3>1, <3>2, <3>3, <4>1
      <4>2. CASE c.list = "untrusted"
        BY <2>9, <3>1, <3>2, <3>3, <4>2
      <4> QED BY <2>9, <4>1, <4>2
    <3> QED BY <3>2, <3>4 DEF PersistedKept
  <2>4. ASSUME NEW q \in Process
        PROVE  saving'[q] = None
    BY <1>3 DEF PersistWrite, TypeOK
  <2>5. ASSUME NEW q \in Process, NEW e \in blocked'[q]
        PROVE  \/ e \in overlay'[q].untrusted
               \/ e \in yaml'[q].untrusted /\ e \in file'.untrusted
    <3>1. blocked'[q] = IF q = p \/ c.op = "delete" THEN BlockedAfter(blocked[q], c)
                        ELSE blocked[q]
      BY <1>3 DEF PersistWrite
    <3>2. yaml'[q] = (IF q = p THEN file' ELSE yaml[q]) /\ overlay'[q] = overlay[q]
      BY <1>3 DEF PersistWrite, TypeOK
    <3>3. e \in blocked[q] /\ e \in file.untrusted => e \in file'.untrusted
      BY <2>5, <2>8, <2>9, <3>1 DEF BlockedAfter
    <3>4. e \notin blocked[q] => q = p /\ e \in file'.untrusted
      BY <2>9, <2>5, <3>1 DEF BlockedAfter
    <3> QED BY <3>2, <3>3, <3>4
  <2> QED BY <2>3, <2>4, <2>5
<1>4. ASSUME NEW p \in Process, ClearSession(p)
      PROVE  FileInv'
  <2>1. PersistedKept'
    BY <1>4 DEF ClearSession, PersistedKept
  <2> QED BY <1>4, <2>1 DEF ClearSession, TypeOK
<1>5. ASSUME NEW p \in Process, Restart(p)
      PROVE  FileInv'
  <2>1. PersistedKept'
    BY <1>5 DEF Restart, PersistedKept
  <2> QED BY <1>5, <2>1 DEF Restart, TypeOK
<1>6. CASE UNCHANGED managers
  BY <1>6 DEF managers, PersistedKept
<1>7. ASSUME NEW f \in File, HumanEdits(f)
      PROVE  UNCHANGED managers
  BY <1>7 DEF HumanEdits
<1>8. CASE CallBegins \/ Restore \/ Sync \/ Reconcile \/ CallFails \/ CallEnds
  BY <1>6, <1>8 DEF CallBegins, Restore, Sync, Reconcile, CallFails, CallEnds
<1>9. CASE UNCHANGED vars
  BY <1>6, <1>9 DEF vars
<1> QED BY <1>1, <1>2, <1>3, <1>4, <1>5, <1>6, <1>7, <1>8, <1>9 DEF Next, Managers

\* No persisted change is lost, however old the copies of the other processes
\* are, as long as no two of them change the file at once.
THEOREM NothingPersistedIsLost ==
  ASSUME Serial
  PROVE  Spec => []PersistedKept
<1>1. FileInv => PersistedKept
  BY DEF FileInv
<1> QED BY <1>1, TypeInit, TypeStep, FileInit, FileStep, PTL DEF Spec

\* A block stands until its entry is deleted, or until a directory is trusted
\* and the block counts no more below trusted directories.
THEOREM BlocksAreKept ==
  ASSUME Serial
  PROVE  Spec => []BlocksStand
<1>1. TypeOK /\ FileInv => BlocksStand
  <2> SUFFICES ASSUME TypeOK, FileInv,
                      NEW p \in Process, NEW e \in blocked[p], NEW f \in Under[e]
               PROVE  LET config == Effective(p) IN
                      \/ Untrusted(config, f)
                      \/ config.default = "UNTRUSTED" /\ f \in Covered(config.trusted)
    BY DEF BlocksStand
  <2>1. e \in Effective(p).untrusted
    BY DEF FileInv, Effective, Merge
  <2>2. f \in Covered(Effective(p).untrusted)
    BY <2>1 DEF Covered
  <2> QED BY <2>2 DEF Untrusted
<1> QED BY <1>1, TypeInit, TypeStep, FileInit, FileStep, PTL DEF Spec

===========================================================================
