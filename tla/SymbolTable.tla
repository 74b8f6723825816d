---------------------------- MODULE SymbolTable ----------------------------
(***************************************************************************)
(* The symbol table of DualView (plugin/dualview/dualview-symbol-table.ts) *)
(*                                                                         *)
(* Every process that runs DualView (an OpenClaw gateway, a Claude Code    *)
(* MCP server, a LangChain application) keeps a private in-memory map from *)
(* symbol names to entries and shares one SQLite table with the others.    *)
(* An untrusted value is replaced by a name; the name must go on meaning   *)
(* that value for as long as text that mentions it can be resolved.        *)
(*                                                                         *)
(* A row is abstracted to what decides the code's behaviour: its value and *)
(* whether it is active.  The other columns (tool, field, origin, session, *)
(* call, derived_from, line_range, and the seconds it was created and      *)
(* obsoleted in) are left out: two processes may agree on all of them, so  *)
(* the model lets no comparison of rows rely on them.                      *)
(***************************************************************************)
EXTENDS Naturals, FiniteSets

CONSTANTS
  Process,      \* processes sharing the database
  Name,         \* symbol names the format can generate
  Value,        \* untrusted values
  MaxAttempts,  \* ALLOC_MAX_ATTEMPTS
  NoRow         \* "no such row", "no journal record"

Entry == [value : Value, active : BOOLEAN]

Change == [before : Entry, after : Entry]

ASSUME AttemptsAssumption == MaxAttempts \in Nat \ {0}

ASSUME NoRowAssumption == NoRow \notin Entry \cup Change

VARIABLES
  db,        \* the shared SQLite table
  map,       \* each process's SymbolMap
  inserted,  \* SymbolMutationJournal.inserted of the running reconciliation
  updated,   \* SymbolMutationJournal.updated of the running reconciliation
  phase,     \* "free", "reconciling", or "failed": an error must roll back
  attempts,  \* names the allocation in progress has lost, 0 if none is
  owned,     \* history: <<name, value>> pairs an allocation has returned
  promoted,  \* history: names whose obsoletion a reconciliation completed
  recycled   \* history: names whose row a rollback has deleted

vars == <<db, map, inserted, updated, phase, attempts,
          owned, promoted, recycled>>

Phase == {"free", "reconciling", "failed"}

NoRows == [n \in Name |-> NoRow]

(***************************************************************************)
(* The type invariant.                                                     *)
(***************************************************************************)
TypeOK ==
  /\ db \in [Name -> Entry \cup {NoRow}]
  /\ map \in [Process -> [Name -> Entry \cup {NoRow}]]
  /\ inserted \in [Process -> [Name -> Entry \cup {NoRow}]]
  /\ updated \in [Process -> [Name -> Change \cup {NoRow}]]
  /\ phase \in [Process -> Phase]
  /\ attempts \in [Process -> 0 .. MaxAttempts - 1]
  /\ owned \in [Process -> SUBSET (Name \X Value)]
  /\ promoted \in SUBSET Name
  /\ recycled \in SUBSET Name

Init ==
  /\ db = NoRows
  /\ map = [p \in Process |-> NoRows]
  /\ inserted = [p \in Process |-> NoRows]
  /\ updated = [p \in Process |-> NoRows]
  /\ phase = [p \in Process |-> "free"]
  /\ attempts = [p \in Process |-> 0]
  /\ owned = [p \in Process |-> {}]
  /\ promoted = {}
  /\ recycled = {}

IsRow(r) == r # NoRow

NewEntry(v) == [value |-> v, active |-> TRUE]

---------------------------------------------------------------------------
(***************************************************************************)
(* Loading.  Some callers work on a fresh copy of the table, others merge  *)
(* into a long-lived map the rows it does not list yet; what the map lists *)
(* already is kept even when the row has changed since.                    *)
(***************************************************************************)
FreshMap == db

MergedMap(p) == [n \in Name |-> IF IsRow(map[p][n]) THEN map[p][n] ELSE db[n]]

LoadMap(p) ==
  /\ phase[p] = "free"
  /\ attempts[p] = 0
  /\ \E m \in {FreshMap, MergedMap(p)} : map' = [map EXCEPT ![p] = m]
  /\ UNCHANGED <<db, inserted, updated, phase, attempts,
                 owned, promoted, recycled>>

\* A closed session takes the symbols it allocated out of the map, not out of
\* the table.
CloseSession(p) ==
  /\ phase[p] = "free"
  /\ attempts[p] = 0
  /\ map' = [map EXCEPT ![p] =
       [n \in Name |-> IF \E v \in Value : <<n, v>> \in owned[p]
                       THEN NoRow ELSE map[p][n]]]
  /\ UNCHANGED <<db, inserted, updated, phase, attempts,
                 owned, promoted, recycled>>

---------------------------------------------------------------------------
(***************************************************************************)
(* allocateSymbol and allocateDerivedSymbol with a database: draw a name,  *)
(* INSERT OR IGNORE it, and draw again when another process has it.  The   *)
(* draw avoids the names the local map lists, except that after a hundred  *)
(* unlucky draws it takes whatever comes: any name can be drawn.           *)
(***************************************************************************)
AllocateWinsOverwriting(p, n, v) ==         \* seeded fault: a plain upsert
  /\ phase[p] \in {"free", "reconciling"}
  /\ db' = [db EXCEPT ![n] = NewEntry(v)]
  /\ map' = [map EXCEPT ![p][n] = NewEntry(v)]
  /\ inserted' = IF phase[p] = "reconciling"
                 THEN [inserted EXCEPT ![p][n] = NewEntry(v)] ELSE inserted
  /\ owned' = [owned EXCEPT ![p] = @ \cup {<<n, v>>}]
  /\ attempts' = [attempts EXCEPT ![p] = 0]
  /\ UNCHANGED <<updated, phase, promoted, recycled>>

AllocateWinsUnchecked(p, n, v) ==   \* seeded fault: "changes" is not looked at
  /\ phase[p] \in {"free", "reconciling"}
  /\ db' = IF IsRow(db[n]) THEN db ELSE [db EXCEPT ![n] = NewEntry(v)]
  /\ map' = [map EXCEPT ![p][n] = NewEntry(v)]
  /\ inserted' = IF phase[p] = "reconciling"
                 THEN [inserted EXCEPT ![p][n] = NewEntry(v)] ELSE inserted
  /\ owned' = [owned EXCEPT ![p] = @ \cup {<<n, v>>}]
  /\ attempts' = [attempts EXCEPT ![p] = 0]
  /\ UNCHANGED <<updated, phase, promoted, recycled>>

AllocateWins(p, n, v) ==
  /\ phase[p] \in {"free", "reconciling"}
  /\ ~IsRow(db[n])
  /\ db' = [db EXCEPT ![n] = NewEntry(v)]
  /\ map' = [map EXCEPT ![p][n] = NewEntry(v)]
  /\ inserted' = IF phase[p] = "reconciling"
                 THEN [inserted EXCEPT ![p][n] = NewEntry(v)] ELSE inserted
  /\ owned' = [owned EXCEPT ![p] = @ \cup {<<n, v>>}]
  /\ attempts' = [attempts EXCEPT ![p] = 0]
  /\ UNCHANGED <<updated, phase, promoted, recycled>>

AllocateLosesOnceMore(p, n) ==          \* seeded fault: one attempt too many
  /\ phase[p] \in {"free", "reconciling"}
  /\ IsRow(db[n])
  /\ attempts[p] + 1 <= MaxAttempts
  /\ attempts' = [attempts EXCEPT ![p] = @ + 1]
  /\ UNCHANGED <<db, map, inserted, updated, phase,
                 owned, promoted, recycled>>

AllocateLosesListed(p, n) ==    \* seeded fault: the map is set before the insert
  /\ phase[p] \in {"free", "reconciling"}
  /\ IsRow(db[n])
  /\ attempts[p] + 1 < MaxAttempts
  /\ attempts' = [attempts EXCEPT ![p] = @ + 1]
  /\ \E v \in Value : map' = [map EXCEPT ![p][n] = NewEntry(v)]
  /\ UNCHANGED <<db, inserted, updated, phase, owned, promoted, recycled>>

AllocateLoses(p, n) ==
  /\ phase[p] \in {"free", "reconciling"}
  /\ IsRow(db[n])
  /\ attempts[p] + 1 < MaxAttempts
  /\ attempts' = [attempts EXCEPT ![p] = @ + 1]
  /\ UNCHANGED <<db, map, inserted, updated, phase,
                 owned, promoted, recycled>>

\* The last attempt is lost too: the allocation throws, and a reconciliation
\* in progress has to be rolled back.
AllocateExhausted(p, n) ==
  /\ phase[p] \in {"free", "reconciling"}
  /\ IsRow(db[n])
  /\ attempts[p] + 1 = MaxAttempts
  /\ attempts' = [attempts EXCEPT ![p] = 0]
  /\ phase' = IF phase[p] = "reconciling"
              THEN [phase EXCEPT ![p] = "failed"] ELSE phase
  /\ UNCHANGED <<db, map, inserted, updated,
                 owned, promoted, recycled>>

---------------------------------------------------------------------------
(***************************************************************************)
(* A human-edit reconciliation: it loads the table, obsoletes the symbols  *)
(* the human has edited, allocates derived ones, keeps a journal of both,  *)
(* and either completes or rolls the journal back.                         *)
(***************************************************************************)
BeginReconcile(p) ==
  /\ phase[p] = "free"
  /\ attempts[p] = 0
  /\ phase' = [phase EXCEPT ![p] = "reconciling"]
  /\ \E m \in {FreshMap, MergedMap(p)} : map' = [map EXCEPT ![p] = m]
  /\ inserted' = [inserted EXCEPT ![p] = NoRows]
  /\ updated' = [updated EXCEPT ![p] = NoRows]
  /\ UNCHANGED <<db, attempts, owned, promoted, recycled>>

\* The line map only looks at symbols that are active in the local map; one
\* that fills several lines may be obsoleted once for each.
MayObsolete(p, n) ==
  /\ phase[p] = "reconciling"
  /\ attempts[p] = 0
  /\ IsRow(map[p][n])
  /\ map[p][n].active \/ IsRow(updated[p][n])

\* recordSymbolUpdate: an entry this journal inserted is kept up to date, any
\* other keeps the first "before" and the last "after".
RecordUpdate(p, n, before, after) ==
  IF IsRow(inserted[p][n])
  THEN /\ inserted' = [inserted EXCEPT ![p][n] = after]
       /\ UNCHANGED updated
  ELSE /\ updated' = [updated EXCEPT ![p][n] =
            [before |-> IF IsRow(updated[p][n])
                        THEN updated[p][n].before ELSE before,
             after |-> after]]
       /\ UNCHANGED inserted

Obsoleted(e) == [e EXCEPT !.active = FALSE]

ObsoleteSymbolUnchecked(p, n) ==     \* seeded fault: no compare in the update
  LET e == map[p][n] IN
  /\ MayObsolete(p, n)
  /\ db' = IF IsRow(db[n]) THEN [db EXCEPT ![n] = Obsoleted(e)] ELSE db
  /\ map' = [map EXCEPT ![p][n] = Obsoleted(e)]
  /\ RecordUpdate(p, n, e, Obsoleted(e))
  /\ UNCHANGED <<phase, attempts, owned, promoted, recycled>>

\* The local entry is compared with the row inside one write transaction; a
\* symbol whose row is gone is obsoleted in memory only.
ObsoleteSymbol(p, n) ==
  LET e == map[p][n] IN
  /\ MayObsolete(p, n)
  /\ db[n] \in {e, NoRow}
  /\ db' = IF IsRow(db[n]) THEN [db EXCEPT ![n] = Obsoleted(e)] ELSE db
  /\ map' = [map EXCEPT ![p][n] = Obsoleted(e)]
  /\ RecordUpdate(p, n, e, Obsoleted(e))
  /\ UNCHANGED <<phase, attempts, owned, promoted, recycled>>

\* "symbol changed concurrently": the obsoletion throws.
ObsoleteConflict(p, n) ==
  /\ MayObsolete(p, n)
  /\ db[n] \notin {map[p][n], NoRow}
  /\ phase' = [phase EXCEPT ![p] = "failed"]
  /\ UNCHANGED <<db, map, inserted, updated, attempts,
                 owned, promoted, recycled>>

\* Both branches are committed: the journal is dropped.
CompleteReconcile(p) ==
  /\ phase[p] = "reconciling"
  /\ attempts[p] = 0
  /\ phase' = [phase EXCEPT ![p] = "free"]
  /\ promoted' = promoted \cup
       {n \in Name :
          \/ IsRow(updated[p][n]) /\ db[n] = updated[p][n].after
          \/ /\ IsRow(inserted[p][n])
             /\ db[n] = inserted[p][n]
             /\ ~db[n].active}
  /\ inserted' = [inserted EXCEPT ![p] = NoRows]
  /\ updated' = [updated EXCEPT ![p] = NoRows]
  /\ UNCHANGED <<db, map, attempts, owned, recycled>>

\* rollbackSymbolMapChanges undoes a row only if it is still what the journal
\* left there; the in-memory map is restored whatever the table said.
RolledBackRowUnchecked(p, n) ==     \* seeded fault: undone whatever the row is
  IF IsRow(inserted[p][n]) THEN NoRow
  ELSE IF IsRow(updated[p][n]) THEN updated[p][n].before
  ELSE db[n]

RolledBackRow(p, n) ==
  IF IsRow(inserted[p][n]) /\ db[n] = inserted[p][n] THEN NoRow
  ELSE IF IsRow(updated[p][n]) /\ db[n] = updated[p][n].after
  THEN updated[p][n].before
  ELSE db[n]

RolledBackEntry(p, n) ==
  IF IsRow(inserted[p][n]) THEN NoRow
  ELSE IF IsRow(updated[p][n]) THEN updated[p][n].before
  ELSE map[p][n]

\* Any later step of the reconciliation may fail, so it may be rolled back
\* at any point between two table operations.
Rollback(p) ==
  /\ phase[p] \in {"reconciling", "failed"}
  /\ attempts[p] = 0
  /\ phase' = [phase EXCEPT ![p] = "free"]
  /\ db' = [n \in Name |-> RolledBackRow(p, n)]
  /\ map' = [map EXCEPT ![p] = [n \in Name |-> RolledBackEntry(p, n)]]
  /\ owned' = [owned EXCEPT ![p] = {o \in @ : ~IsRow(inserted[p][o[1]])}]
  /\ recycled' = recycled \cup
       {n \in Name : IsRow(inserted[p][n]) /\ db[n] = inserted[p][n]}
  /\ inserted' = [inserted EXCEPT ![p] = NoRows]
  /\ updated' = [updated EXCEPT ![p] = NoRows]
  /\ UNCHANGED <<attempts, promoted>>

---------------------------------------------------------------------------
(***************************************************************************)
(* The paths that choose the name before they reach the table and write it *)
(* with an upsert: tool results symbolized by the OpenClaw plugin, with or *)
(* without a hash shared by a group of fields, and the derived symbols of  *)
(* inspect_symbol, which reuse the hash of their parent.  A shared hash    *)
(* can name any symbol, listed in the map or not.                          *)
(***************************************************************************)
UpsertSymbol(p, n, v) ==
  /\ phase[p] = "free"
  /\ attempts[p] = 0
  /\ map' = [map EXCEPT ![p][n] = NewEntry(v)]
  /\ db' = [db EXCEPT ![n] = NewEntry(v)]
  /\ owned' = [owned EXCEPT ![p] = @ \cup {<<n, v>>}]
  /\ UNCHANGED <<inserted, updated, phase, attempts,
                 promoted, recycled>>

(***************************************************************************)
(* allocateDerivedSymbol without a database path: a gateway whose          *)
(* configuration names none passes none on.  Loading, upserting,           *)
(* obsoleting and rolling back then fall back on the default database;     *)
(* this allocation does not.  The parent is a symbol the line map has.     *)
(***************************************************************************)
AllocateUnpersisted(p, n, v) ==
  /\ \E parent \in Name : MayObsolete(p, parent)
  /\ map' = [map EXCEPT ![p][n] = NewEntry(v)]
  /\ inserted' = [inserted EXCEPT ![p][n] = NewEntry(v)]
  /\ owned' = [owned EXCEPT ![p] = @ \cup {<<n, v>>}]
  /\ UNCHANGED <<db, updated, phase, attempts, promoted, recycled>>

---------------------------------------------------------------------------
ProcessStep(p) ==
  \/ LoadMap(p)
  \/ CloseSession(p)
  \/ \E n \in Name, v \in Value : AllocateWins(p, n, v)
  \/ \E n \in Name : AllocateLoses(p, n)
  \/ \E n \in Name : AllocateExhausted(p, n)
  \/ BeginReconcile(p)
  \/ \E n \in Name : ObsoleteSymbol(p, n)
  \/ \E n \in Name : ObsoleteConflict(p, n)
  \/ CompleteReconcile(p)
  \/ Rollback(p)

\* Every allocation goes through INSERT OR IGNORE.
Next == \E p \in Process : ProcessStep(p)

Spec == Init /\ [][Next]_vars

\* The upserting paths run as well, and gateways without a database path.
MixedNext ==
  \/ Next
  \/ \E p \in Process, n \in Name, v \in Value :
       UpsertSymbol(p, n, v) \/ AllocateUnpersisted(p, n, v)

MixedSpec == Init /\ [][MixedNext]_vars

---------------------------------------------------------------------------
(***************************************************************************)
(* Safety.                                                                 *)
(***************************************************************************)
\* A name an allocation has returned keeps its row, with the value it was
\* returned for, until its allocator rolls back: no other process's insert,
\* obsoletion or rollback overwrites or deletes it.
OwnersKeepRows ==
  \A p \in Process : \A o \in owned[p] :
    IsRow(db[o[1]]) /\ db[o[1]].value = o[2]

\* "Two allocators can never land on the same sym_name even when they share a
\* stale in-memory view" (allocateDerivedSymbol): two allocations that stand
\* have returned different names, in one process or in two.
NamesMeanOneValue ==
  \A p, q \in Process : \A o \in owned[p], o2 \in owned[q] :
    o[1] = o2[1] => p = q /\ o = o2

\* What a process resolves a name to, however old its map, is what the process
\* that allocated the name meant.  Names whose row a rollback has deleted are
\* excepted: a map loaded before the rollback still lists the old meaning when
\* the name is drawn again.
MapsAgreeWithOwners ==
  \A p, q \in Process : \A o \in owned[q] :
    IsRow(map[p][o[1]]) /\ o[1] \notin recycled => map[p][o[1]].value = o[2]

\* Once a reconciliation has completed, the symbols it promoted stay obsoleted:
\* no later rollback reactivates one or deletes it, not even the rollback of
\* the process that had inserted it.
PromotionSticks ==
  \A n \in promoted \ recycled : IsRow(db[n]) /\ ~db[n].active

\* Two reconciliations never promote the same row: of two processes that read
\* a symbol as active, the compare-and-set lets one obsolete it.
OnePromoter ==
  \A p, q \in Process, n \in Name \ recycled :
    IsRow(updated[p][n]) /\ IsRow(updated[q][n]) => p = q

===========================================================================
