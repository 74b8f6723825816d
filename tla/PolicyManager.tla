--------------------------- MODULE PolicyManager ---------------------------
(***************************************************************************)
(* The Data Trust Policy at run time, for the category DIR:                *)
(*                                                                         *)
(*  - each process has a manager (policy/runtime-policy-manager.ts): a     *)
(*    copy of dualview-policy.yaml and an overlay of its session, changed  *)
(*    by the tools policy_add and policy_del;                              *)
(*  - one of them is an agent whose tool calls (plugin/langchain/index.ts) *)
(*    first bring its view of the files in line with the policy            *)
(*    (dualview-policy-dir-sync-ondemand.ts): what is under an untrusted   *)
(*    path is kept behind a symbol, and given back when the path is no     *)
(*    longer untrusted; a file that has symbols in it already, and shows   *)
(*    what the human sees, is left as it is.  What the tools write         *)
(*    themselves is in DualFS.                                             *)
(***************************************************************************)
EXTENDS Naturals, FiniteSets

CONSTANTS
  Process,      \* processes with a manager
  Agent,        \* the one whose tool calls are modelled
  Entry,        \* directories a policy can name
  File,         \* files of the workspace
  Under,        \* Under[e]: the files in the directory e
  Partial,      \* the files that tools have put symbols into before
  Text,         \* what a file can say
  Absent,       \* no file
  None,         \* nothing
  MaxChanges,   \* approved changes of the policy
  MaxCalls,     \* tool calls
  MaxEdits,     \* edits of the human's
  MaxRestarts,  \* restarts of a process
  Serial        \* one process at a time changes the policy file

Raw == [raw : Text]
Symbol == [symbol : Text]
Mixed == [mixed : Text]   \* some lines behind symbols, others raw

ASSUME PolicyManagerAssumption ==
  /\ Agent \in Process
  /\ Under \in [Entry -> SUBSET File]
  /\ Partial \subseteq File
  /\ Absent \notin Text \cup Raw \cup Symbol \cup Mixed
  /\ MaxChanges \in Nat /\ MaxCalls \in Nat /\ MaxEdits \in Nat /\ MaxRestarts \in Nat
  /\ Serial \in BOOLEAN

List == {"trusted", "untrusted"}
Config == [default : {"TRUSTED", "UNTRUSTED", None},
           trusted : SUBSET Entry, untrusted : SUBSET Entry]
NoConfig == [default |-> None, trusted |-> {}, untrusted |-> {}]

VARIABLES
  file,      \* dualview-policy.yaml
  yaml,      \* yamlPolicy of each manager
  overlay,   \* sessionOverlay of each manager
  saving,    \* what a manager has read of the file and changed, to be written
  human,     \* the Human view
  head,      \* its last commit
  agent,     \* the Agent view
  paths,     \* policyDirPaths of the agent's runtime
  known,     \* policyDirPathsInitialized
  pc,        \* where the agent's tool call is
  removed,   \* removedPaths and ...
  wanted,    \* ... the paths in force when the call began
  changes, calls, edits, restarts,
  approved,  \* history: the entries that persisted changes have left
  blocked,   \* history: the entries each manager has been told to distrust
  exposed,   \* history: untrusted files given back although still untrusted
  stranded,  \* history: files left behind symbols that no path accounts for
  spared     \* history: untrusted files that were found mixed and left so

managers == <<file, yaml, overlay, saving, approved, blocked>>
views == <<human, head, agent>>
runtime == <<paths, known, pc, removed, wanted>>
counters == <<changes, calls, edits, restarts>>
exceptions == <<exposed, stranded, spared>>
vars == <<managers, views, runtime, counters, exceptions>>

---------------------------------------------------------------------------
Covered(entries) == UNION {Under[e] : e \in entries}

MergeReplacing(y, s) ==   \* seeded fault: the session replaces the file
  IF s = NoConfig THEN y ELSE s

\* mergeCategoryConfig
Merge(y, s) == [default   |-> IF s.default # None THEN s.default ELSE y.default,
                trusted   |-> y.trusted \cup s.trusted,
                untrusted |-> y.untrusted \cup s.untrusted]

Effective(p) == Merge(yaml[p], overlay[p])

\* createPolicyEngine and createDirTrustCategory: only the list that goes
\* with the default is looked at.
Untrusted(config, f) ==
  IF config.default = "UNTRUSTED" THEN f \notin Covered(config.trusted)
  ELSE f \in Covered(config.untrusted)

\* getExplicitUntrustedDirPolicyPaths: what is untrusted by default only
\* cannot be enumerated.
Explicit(config) == IF config.default = "UNTRUSTED" THEN {} ELSE config.untrusted

DefaultFor(list) == IF list = "trusted" THEN "UNTRUSTED" ELSE "TRUSTED"

AddEntry(config, list, e) ==
  [config EXCEPT ![list] = @ \cup {e}, !.default = DefaultFor(list)]

\* The default that came with an entry stays when the entry goes.
RemoveEntry(config, list, e) == [config EXCEPT ![list] = @ \ {e}]

Change == [op : {"add", "delete"}, list : List, entry : Entry]

Changed(config, c) ==
  IF c.op = "add" THEN AddEntry(config, c.list, c.entry)
  ELSE RemoveEntry(config, c.list, c.entry)

\* A deletion of what is not there is an error.
Applies(config, c) == c.op = "delete" => c.entry \in config[c.list]

---------------------------------------------------------------------------
TypeOK ==
  /\ file \in Config
  /\ yaml \in [Process -> Config] /\ overlay \in [Process -> Config]
  /\ saving \in [Process -> {None} \cup [change : Change, target : Config]]
  /\ human \in [File -> Text \cup {Absent}] /\ head \in [File -> Text \cup {Absent}]
  /\ agent \in [File -> Raw \cup Symbol \cup Mixed \cup {Absent}]
  /\ paths \in SUBSET Entry /\ known \in BOOLEAN
  /\ pc \in {"idle", "begun", "restored", "synced", "running"}
  /\ removed \in SUBSET Entry /\ wanted \in SUBSET Entry
  /\ changes \in 0..MaxChanges /\ calls \in 0..MaxCalls
  /\ edits \in 0..MaxEdits /\ restarts \in 0..MaxRestarts
  /\ approved \in [trusted : SUBSET Entry, untrusted : SUBSET Entry]
  /\ blocked \in [Process -> SUBSET Entry]
  /\ exposed \in SUBSET File /\ stranded \in SUBSET File /\ spared \in SUBSET File
  /\ pc \in {"begun", "restored"} => removed = paths \ wanted
  /\ pc \in {"synced", "running"} => known /\ paths = wanted

View(t) == IF t = Absent THEN Absent ELSE [raw |-> t]
Behind(t) == IF t = Absent THEN Absent ELSE [symbol |-> t]
Mix(t) == [mixed |-> t]

Init ==
  /\ file = NoConfig
  /\ yaml = [p \in Process |-> file] /\ overlay = [p \in Process |-> NoConfig]
  /\ saving = [p \in Process |-> None]
  /\ \E t \in Text : human = [f \in File |-> t]
  /\ head = human
  /\ agent = [f \in File |-> IF f \in Partial THEN Mix(human[f]) ELSE View(human[f])]
  /\ paths = Explicit(file) /\ known = FALSE
  /\ pc = "idle" /\ removed = {} /\ wanted = {}
  /\ changes = 0 /\ calls = 0 /\ edits = 0 /\ restarts = 0
  /\ approved = [trusted |-> {}, untrusted |-> {}]
  /\ blocked = [p \in Process |-> {}]
  /\ exposed = {} /\ stranded = {} /\ spared = {}

---------------------------------------------------------------------------
(***************************************************************************)
(* policy_add and policy_del, after the user's approval.                   *)
(***************************************************************************)
\* What the agent's process does before a tool runs it does in one piece.
Free(p) == p = Agent => pc \in {"idle", "running"}

\* Which blocks are to stand after the change c.
BlockedAfter(set, c) ==
  IF c.list = "trusted" THEN set
  ELSE IF c.op = "add" THEN set \cup {c.entry} ELSE set \ {c.entry}

ChangeSession(p, c) ==
  /\ Free(p) /\ saving[p] = None
  /\ changes < MaxChanges
  /\ Applies(overlay[p], c)
  /\ overlay' = [overlay EXCEPT ![p] = Changed(@, c)]
  /\ blocked' = [blocked EXCEPT ![p] = BlockedAfter(@, c)]
  /\ changes' = changes + 1
  /\ UNCHANGED <<file, yaml, saving, approved, views, runtime, calls, edits,
                 restarts, exceptions>>

TargetStale(p) == yaml[p]     \* seeded fault: the file is not read again

\* mutableTarget: the file as it is now, other processes' changes included
Target(p) == file

PersistRead(p, c) ==
  /\ Free(p) /\ saving[p] = None
  /\ Serial => \A q \in Process : saving[q] = None
  /\ changes < MaxChanges
  /\ Applies(Target(p), c)
  /\ saving' = [saving EXCEPT ![p] = [change |-> c, target |-> Changed(Target(p), c)]]
  /\ changes' = changes + 1
  /\ UNCHANGED <<file, yaml, overlay, approved, blocked, views, runtime, calls,
                 edits, restarts, exceptions>>

\* commitTarget
PersistWrite(p) ==
  /\ saving[p] # None
  /\ LET c == saving[p].change IN
     /\ file' = saving[p].target
     /\ yaml' = [yaml EXCEPT ![p] = file']
     /\ approved' = [approved EXCEPT ![c.list] =
                       IF c.op = "add" THEN @ \cup {c.entry} ELSE @ \ {c.entry}]
     /\ blocked' = [q \in Process |->
          IF q = p \/ c.op = "delete" THEN BlockedAfter(blocked[q], c) ELSE blocked[q]]
  /\ saving' = [saving EXCEPT ![p] = None]
  /\ UNCHANGED <<overlay, views, runtime, counters, exceptions>>

\* clearSessionOverlay, when the session is closed
ClearSession(p) ==
  /\ Free(p) /\ saving[p] = None
  /\ overlay[p] # NoConfig
  /\ overlay' = [overlay EXCEPT ![p] = NoConfig]
  /\ blocked' = [blocked EXCEPT ![p] = @ \cap yaml[p].untrusted \cap file.untrusted]
  /\ UNCHANGED <<file, yaml, saving, approved, views, runtime, counters, exceptions>>

Hidden == {f \in File : agent[f] \in Symbol}

\* A process ends, wherever it is, and starts again from the file.
Restart(p) ==
  /\ restarts < MaxRestarts
  /\ restarts' = restarts + 1
  /\ yaml' = [yaml EXCEPT ![p] = file]
  /\ overlay' = [overlay EXCEPT ![p] = NoConfig]
  /\ saving' = [saving EXCEPT ![p] = None]
  /\ blocked' = [blocked EXCEPT ![p] = @ \cap file.untrusted]
  /\ IF p = Agent
     THEN /\ paths' = Explicit(file) /\ known' = FALSE
          /\ pc' = "idle" /\ removed' = {} /\ wanted' = {}
          /\ stranded' = (stranded \cup Hidden) \ Covered(paths')
     ELSE UNCHANGED <<runtime, stranded>>
  /\ UNCHANGED <<file, approved, views, changes, calls, edits, exposed, spared>>

Managers ==
  \/ \E p \in Process, c \in Change : ChangeSession(p, c) \/ PersistRead(p, c)
  \/ \E p \in Process : PersistWrite(p) \/ ClearSession(p) \/ Restart(p)

---------------------------------------------------------------------------
(***************************************************************************)
(* The human, and wrapToolCall of the LangChain runtime.                   *)
(***************************************************************************)
HumanEdits(f) ==
  /\ edits < MaxEdits
  /\ edits' = edits + 1
  /\ \E t \in (Text \cup {Absent}) \ {human[f]} : human' = [human EXCEPT ![f] = t]
  /\ UNCHANGED <<managers, head, agent, runtime, changes, calls, restarts,
                 exceptions>>

RemovedNone == {}      \* seeded fault: nothing is given back

RemovedFromFile ==     \* seeded fault: what the session overrides, not what was in force
  yaml[Agent].untrusted \ Explicit(Effective(Agent))

\* What was in force before this call, and no longer is.
Removed == paths \ Explicit(Effective(Agent))

CallBegins ==
  /\ pc = "idle" /\ saving[Agent] = None
  /\ calls < MaxCalls
  /\ calls' = calls + 1
  /\ wanted' = Explicit(Effective(Agent))
  /\ removed' = Removed
  /\ pc' = "begun"
  /\ UNCHANGED <<managers, views, paths, known, changes, edits, restarts,
                 exceptions>>

\* restorePolicyDirPathsInOnDemand: everything under a removed path, what
\* another path still covers included
Restore ==
  LET back == Covered(removed) IN
  /\ pc = "begun"
  /\ agent' = [f \in File |-> IF f \in back THEN View(human[f]) ELSE agent[f]]
  /\ exposed' = exposed \cup back
  /\ stranded' = stranded \ back
  /\ spared' = spared \ back
  /\ pc' = "restored"
  /\ UNCHANGED <<managers, human, head, paths, known, removed, wanted, counters>>

AddedUnlessKnown == wanted \ paths   \* seeded fault: a start is not told apart

\* After a start all paths count as added.
Added == IF known THEN wanted \ paths ELSE wanted

\* shouldRegisterAsUntrusted: not if it has symbols and shows the human's text
AsItIs(f) == agent[f] \in {[symbol |-> human[f]], [mixed |-> human[f]]}

Symbolized ==
  [f \in File |-> IF f \in Covered(Added) /\ ~AsItIs(f) THEN Behind(human[f]) ELSE agent[f]]

\* What has raw lines in it now and will after the paths are added
Spared == {f \in Covered(Added) : AsItIs(f) /\ agent[f] \in Mixed}

\* syncPolicyDirPathsToOnDemand; the human's changes there are committed too.
Sync ==
  LET new == Covered(Added) IN
  /\ pc = "restored"
  /\ agent' = Symbolized
  /\ head' = [f \in File |-> IF f \in new THEN human[f] ELSE head[f]]
  /\ paths' = wanted /\ known' = TRUE
  /\ exposed' = (exposed \ new) \cap Covered(wanted)
  /\ stranded' = stranded \ new
  /\ spared' = ((spared \ new) \cap Covered(wanted)) \cup Spared
  /\ pc' = "synced"
  /\ UNCHANGED <<managers, human, removed, wanted, counters>>

\* reconcileHumanEdits: by the paths, not by the engine.  Elsewhere the lines of
\* a symbol that the human has left alone stay behind symbols (LineReconcile).
Reconcile ==
  LET edited == {f \in File : human[f] # head[f]}
      split == {f \in edited \ Covered(paths) :
                  agent[f] \in Symbol \cup Mixed /\ human[f] # Absent}
  IN
  /\ pc = "synced"
  /\ \E left \in SUBSET split :
       agent' = [f \in File |->
         IF f \notin edited THEN agent[f]
         ELSE IF f \in Covered(paths) THEN Behind(human[f])
         ELSE IF f \in left THEN Mix(human[f]) ELSE View(human[f])]
  /\ head' = [f \in File |-> IF f \in edited THEN human[f] ELSE head[f]]
  /\ exposed' = exposed \ edited
  /\ stranded' = stranded \ edited
  /\ spared' = spared \ edited
  /\ pc' = "running"
  /\ UNCHANGED <<managers, human, paths, known, removed, wanted, counters>>

\* The lock is held, or git fails: the tool does not run, and the paths stay
\* as they were.
CallFails ==
  /\ pc \in {"begun", "restored", "synced"}
  /\ \/ UNCHANGED <<agent, stranded>>
     \/ /\ pc = "restored"     \* after the symbols were written
        /\ agent' = Symbolized
        /\ stranded' = stranded \cup (Covered(Added) \ Covered(paths))
  /\ removed' = {} /\ wanted' = {}
  /\ pc' = "idle"
  /\ UNCHANGED <<managers, human, head, paths, known, counters, exposed, spared>>

CallEnds ==
  /\ pc = "running"
  /\ removed' = {} /\ wanted' = {}
  /\ pc' = "idle"
  /\ UNCHANGED <<managers, views, paths, known, counters, exceptions>>

Next ==
  \/ Managers
  \/ \E f \in File : HumanEdits(f)
  \/ CallBegins \/ Restore \/ Sync \/ Reconcile \/ CallFails \/ CallEnds

Spec == Init /\ [][Next]_vars

---------------------------------------------------------------------------
\* The policy file has the entries that the users of all processes have had
\* persisted and not deleted, whichever process wrote it last and however old
\* its own copy is.
PersistedKept ==
  approved = [trusted |-> file.trusted, untrusted |-> file.untrusted]

\* A directory the user has had blocked stays untrusted to that manager until
\* he has the entry deleted, whatever else is added, deleted, persisted or
\* cleared, in this session or by another process; with one exception: once he
\* trusts a directory, no matter which, no block counts any more below any
\* directory that he trusts or has trusted before.
BlocksStand ==
  \A p \in Process : \A e \in blocked[p] : \A f \in Under[e] :
    LET config == Effective(p) IN
    \/ Untrusted(config, f)
    \/ config.default = "UNTRUSTED" /\ f \in Covered(config.trusted)

\* When a tool runs, no line of a file under an untrusted path in force is raw
\* in the Agent view, unless the file was given back because of another path or
\* by a call that failed, or was mixed already when its path was added.
BlockedBehindSymbols ==
  pc = "running" =>
    \A f \in Covered(paths) \ (exposed \cup spared) : agent[f] \notin Raw \cup Mixed

\* When a tool runs, no other file is behind one symbol, unless a restart or a
\* call that failed has made the runtime forget the path it was under.
UnblockedReadable ==
  pc = "running" => Hidden \subseteq Covered(paths) \cup stranded

===========================================================================
