------------------------- MODULE SymbolTableProofs -------------------------
(***************************************************************************)
(* Proofs about SymbolTable: its type invariant and every safety property  *)
(* the model-checking run checks, for any processes, names and values.     *)
(***************************************************************************)
EXTENDS SymbolTable, TLAPS

---------------------------------------------------------------------------
(***************************************************************************)
(* The inductive invariant.  OwnersKeepRows and NamesMeanOneValue are not  *)
(* inductive alone: a rollback deletes and restores rows, so what a        *)
(* journal holds has to be related to the names that are owned.            *)
(***************************************************************************)
\* A journalled insertion is a symbol the process owns.
InsertedOwned ==
  \A p \in Process, n \in Name :
    IsRow(inserted[p][n]) => <<n, inserted[p][n].value>> \in owned[p]

\* Outside a reconciliation there is no journal.
JournalClosed ==
  \A p \in Process : phase[p] = "free" =>
    inserted[p] = NoRows /\ updated[p] = NoRows

\* A journalled update only clears "active", and its result is what the map
\* lists unless the same reconciliation has drawn the name again.
UpdatedObsoletes ==
  \A p \in Process, n \in Name : IsRow(updated[p][n]) =>
    /\ updated[p][n].before.value = updated[p][n].after.value
    /\ updated[p][n].before.active
    /\ ~updated[p][n].after.active
    /\ IsRow(inserted[p][n]) \/ map[p][n] = updated[p][n].after

\* What a map lists is in the table under the same value.
MapsAgreeWithTable ==
  \A p \in Process, n \in Name \ recycled : IsRow(map[p][n]) =>
    IsRow(db[n]) /\ db[n].value = map[p][n].value

\* While an update is journalled its row stays obsoleted, the same journal has
\* not inserted it, and no reconciliation has promoted it yet.
UpdatesPending ==
  \A p \in Process, n \in Name \ recycled : IsRow(updated[p][n]) =>
    /\ IsRow(db[n])
    /\ db[n].value = updated[p][n].before.value
    /\ ~db[n].active
    /\ ~IsRow(inserted[p][n])
    /\ n \notin promoted

\* A row inserted and obsoleted by one reconciliation is obsoleted in the
\* table, and no other process holds an update of it; one that another process
\* has obsoleted is still active in the journal that inserted it.
InsertionsConsistent ==
  \A p \in Process, n \in Name \ recycled :
    IsRow(inserted[p][n]) /\ ~inserted[p][n].active =>
      /\ ~db[n].active
      /\ \A q \in Process : ~IsRow(updated[q][n])

IInv ==
  /\ TypeOK
  /\ OwnersKeepRows
  /\ NamesMeanOneValue
  /\ InsertedOwned
  /\ JournalClosed
  /\ UpdatedObsoletes
  /\ MapsAgreeWithTable
  /\ UpdatesPending
  /\ InsertionsConsistent
  /\ PromotionSticks
  /\ OnePromoter

---------------------------------------------------------------------------
LEMMA InitIInv == Init => IInv
<1> SUFFICES ASSUME Init PROVE IInv
  OBVIOUS
<1> USE NoRowAssumption, AttemptsAssumption DEF Init, NoRows, IsRow
<1>1. TypeOK
  BY DEF TypeOK, Phase
<1>2. OwnersKeepRows /\ NamesMeanOneValue
  BY DEF OwnersKeepRows, NamesMeanOneValue
<1>3. InsertedOwned /\ JournalClosed /\ UpdatedObsoletes
  BY DEF InsertedOwned, JournalClosed, UpdatedObsoletes
<1>4. MapsAgreeWithTable /\ UpdatesPending /\ InsertionsConsistent
  BY DEF MapsAgreeWithTable, UpdatesPending, InsertionsConsistent
<1>5. PromotionSticks /\ OnePromoter
  BY DEF PromotionSticks, OnePromoter
<1>6. QED
  BY <1>1, <1>2, <1>3, <1>4, <1>5 DEF IInv

---------------------------------------------------------------------------
(***************************************************************************)
(* Every action preserves IInv: one lemma per action.  Those that leave    *)
(* the table, the journals and the history alone share the first lemma.    *)
(***************************************************************************)
LEMMA TableUntouched ==
  ASSUME IInv,
         UNCHANGED <<db, inserted, updated, owned, promoted, recycled>>,
         TypeOK', JournalClosed', UpdatedObsoletes', MapsAgreeWithTable'
  PROVE  IInv'
<1>1. (OwnersKeepRows /\ NamesMeanOneValue /\ InsertedOwned)'
  BY DEF IInv, OwnersKeepRows, NamesMeanOneValue, InsertedOwned
<1>2. (UpdatesPending /\ InsertionsConsistent)'
  BY DEF IInv, UpdatesPending, InsertionsConsistent
<1>3. (PromotionSticks /\ OnePromoter)'
  BY DEF IInv, PromotionSticks, OnePromoter
<1>4. QED
  BY <1>1, <1>2, <1>3 DEF IInv

LEMMA LoadMapIInv ==
  ASSUME IInv, NEW p \in Process, LoadMap(p)
  PROVE  IInv'
<1> USE DEF IInv, LoadMap, FreshMap, MergedMap
<1>1. TypeOK'
  <2>1. PICK m \in {FreshMap, MergedMap(p)} : map' = [map EXCEPT ![p] = m]
    OBVIOUS
  <2>2. m \in [Name -> Entry \cup {NoRow}]
    BY DEF TypeOK
  <2>3. map' \in [Process -> [Name -> Entry \cup {NoRow}]]
    BY <2>1, <2>2, Zenon DEF TypeOK
  <2>4. QED
    BY <2>3, Zenon DEF TypeOK
<1>2. JournalClosed'
  BY DEF JournalClosed
<1>3. UpdatedObsoletes'
  BY NoRowAssumption DEF TypeOK, JournalClosed, NoRows, UpdatedObsoletes, IsRow
<1>4. MapsAgreeWithTable'
  BY DEF TypeOK, MapsAgreeWithTable, IsRow
<1>5. QED
  BY <1>1, <1>2, <1>3, <1>4, TableUntouched

LEMMA CloseSessionIInv ==
  ASSUME IInv, NEW p \in Process, CloseSession(p)
  PROVE  IInv'
<1> USE DEF IInv, CloseSession
<1>1. TypeOK'
  BY DEF TypeOK
<1>2. JournalClosed'
  BY DEF JournalClosed
<1>3. UpdatedObsoletes'
  BY DEF TypeOK, JournalClosed, NoRows, UpdatedObsoletes, IsRow
<1>4. MapsAgreeWithTable'
  BY DEF TypeOK, MapsAgreeWithTable, IsRow
<1>5. QED
  BY <1>1, <1>2, <1>3, <1>4, TableUntouched

LEMMA AllocateLosesIInv ==
  ASSUME IInv, NEW p \in Process, NEW n \in Name, AllocateLoses(p, n)
  PROVE  IInv'
<1> USE DEF IInv, AllocateLoses
<1>1. TypeOK'
  BY AttemptsAssumption DEF TypeOK
<1>2. (JournalClosed /\ UpdatedObsoletes /\ MapsAgreeWithTable)'
  BY DEF JournalClosed, UpdatedObsoletes, MapsAgreeWithTable
<1>3. QED
  BY <1>1, <1>2, TableUntouched

LEMMA AllocateExhaustedIInv ==
  ASSUME IInv, NEW p \in Process, NEW n \in Name, AllocateExhausted(p, n)
  PROVE  IInv'
<1> USE DEF IInv, AllocateExhausted
<1>1. TypeOK'
  BY AttemptsAssumption DEF TypeOK, Phase
<1>2. JournalClosed'
  BY DEF TypeOK, Phase, JournalClosed
<1>3. (UpdatedObsoletes /\ MapsAgreeWithTable)'
  BY DEF UpdatedObsoletes, MapsAgreeWithTable
<1>4. QED
  BY <1>1, <1>2, <1>3, TableUntouched

LEMMA ObsoleteConflictIInv ==
  ASSUME IInv, NEW p \in Process, NEW n \in Name, ObsoleteConflict(p, n)
  PROVE  IInv'
<1> USE DEF IInv, ObsoleteConflict
<1>1. TypeOK'
  BY DEF TypeOK, Phase
<1>2. JournalClosed'
  BY DEF TypeOK, Phase, JournalClosed
<1>3. (UpdatedObsoletes /\ MapsAgreeWithTable)'
  BY DEF UpdatedObsoletes, MapsAgreeWithTable
<1>4. QED
  BY <1>1, <1>2, <1>3, TableUntouched

LEMMA BeginReconcileIInv ==
  ASSUME IInv, NEW p \in Process, BeginReconcile(p)
  PROVE  IInv'
<1> USE DEF IInv, BeginReconcile, FreshMap, MergedMap
<1>1. UNCHANGED <<inserted, updated>>
  BY DEF TypeOK, JournalClosed
<1>2. TypeOK'
  BY <1>1 DEF TypeOK, Phase
<1>3. JournalClosed'
  BY <1>1 DEF TypeOK, JournalClosed
<1>4. UpdatedObsoletes'
  BY <1>1 DEF TypeOK, JournalClosed, NoRows, UpdatedObsoletes, IsRow
<1>5. MapsAgreeWithTable'
  BY DEF TypeOK, MapsAgreeWithTable, IsRow
<1>6. QED
  BY <1>1, <1>2, <1>3, <1>4, <1>5, TableUntouched

\* A name that is free in the table is owned by nobody, and unless it is
\* recycled no map and no journal lists it.
LEMMA FreeName ==
  ASSUME IInv, NEW n \in Name, ~IsRow(db[n])
  PROVE  /\ \A q \in Process : \A o \in owned[q] : o[1] # n
         /\ \A q \in Process : ~IsRow(inserted[q][n])
         /\ n \notin recycled =>
              /\ n \notin promoted
              /\ \A q \in Process : ~IsRow(map[q][n]) /\ ~IsRow(updated[q][n])
<1> USE DEF IInv
<1>1. \A q \in Process : \A o \in owned[q] : o[1] # n
  BY DEF OwnersKeepRows
<1>2. \A q \in Process : ~IsRow(inserted[q][n])
  BY <1>1 DEF InsertedOwned
<1>3. n \notin recycled =>
        /\ n \notin promoted
        /\ \A q \in Process : ~IsRow(map[q][n]) /\ ~IsRow(updated[q][n])
  BY DEF PromotionSticks, MapsAgreeWithTable, UpdatesPending
<1>4. QED
  BY <1>1, <1>2, <1>3

LEMMA AllocateWinsIInv ==
  ASSUME IInv, NEW p \in Process, NEW n \in Name, NEW v \in Value,
         AllocateWins(p, n, v)
  PROVE  IInv'
<1> USE DEF IInv, AllocateWins, NewEntry
<1> DEFINE e == NewEntry(v)
<1>1. e \in Entry /\ e.value = v /\ e.active /\ IsRow(e)
  <2>1. e \in Entry
    BY DEF Entry
  <2>2. e.value = v /\ e.active
    OBVIOUS
  <2>3. QED
    BY <2>1, <2>2, NoRowAssumption DEF IsRow
<1>2. /\ \A q \in Process : \A o \in owned[q] : o[1] # n
      /\ \A q \in Process : ~IsRow(inserted[q][n])
      /\ n \notin recycled =>
           /\ n \notin promoted
           /\ \A q \in Process : ~IsRow(map[q][n]) /\ ~IsRow(updated[q][n])
  BY FreeName
<1>3. TypeOK'
  BY <1>1, AttemptsAssumption DEF TypeOK
<1>4. /\ db' = [db EXCEPT ![n] = e]
      /\ map' = [map EXCEPT ![p][n] = e]
      /\ \/ inserted' = inserted /\ phase[p] = "free"
         \/ inserted' = [inserted EXCEPT ![p][n] = e] /\ phase[p] # "free"
      /\ owned' = [owned EXCEPT ![p] = @ \cup {<<n, v>>}]
      /\ UNCHANGED <<updated, phase, promoted, recycled>>
  BY DEF TypeOK, Phase
<1>a. /\ \A m \in Name : db'[m] = IF m = n THEN e ELSE db[m]
      /\ \A q \in Process, m \in Name :
           \/ inserted'[q][m] = inserted[q][m]
           \/ q = p /\ m = n /\ inserted'[q][m] = e
      /\ \A q \in Process :
           owned'[q] = IF q = p THEN owned[q] \cup {<<n, v>>} ELSE owned[q]
  BY <1>4 DEF TypeOK
<1> HIDE DEF e, AllocateWins, NewEntry
<1>5. OwnersKeepRows'
  BY <1>1, <1>2, <1>4 DEF TypeOK, OwnersKeepRows
<1>6. NamesMeanOneValue'
  <2> SUFFICES ASSUME NEW q1 \in Process, NEW q2 \in Process,
                      NEW o1 \in owned'[q1], NEW o2 \in owned'[q2], o1[1] = o2[1]
               PROVE  q1 = q2 /\ o1 = o2
    BY DEF NamesMeanOneValue
  <2>a. \A q \in Process : \A o \in owned'[q] :
          o \in owned[q] \/ (q = p /\ o = <<n, v>>)
    <3>1. \A q \in Process :
            owned'[q] = IF q = p THEN owned[q] \cup {<<n, v>>} ELSE owned[q]
      BY <1>a
    <3> HIDE DEF IInv
    <3>2. QED
      BY <3>1, Zenon
  <2>1. /\ o1 \in owned[q1] \/ (q1 = p /\ o1 = <<n, v>>)
        /\ o2 \in owned[q2] \/ (q2 = p /\ o2 = <<n, v>>)
    BY <2>a
  <2>2. <<n, v>>[1] = n
    OBVIOUS
  <2>3. CASE o1 \in owned[q1] /\ o2 \in owned[q2]
    BY <2>3 DEF NamesMeanOneValue
  <2>4. CASE o1 = <<n, v>> \/ o2 = <<n, v>>
    BY <2>1, <2>2, <2>4, <1>2
  <2>5. QED
    BY <2>1, <2>3, <2>4
<1>7. InsertedOwned'
  <2> SUFFICES ASSUME NEW q \in Process, NEW m \in Name, IsRow(inserted'[q][m])
               PROVE  <<m, inserted'[q][m].value>> \in owned'[q]
    BY DEF InsertedOwned
  <2>1. CASE inserted'[q][m] = inserted[q][m]
    BY <2>1, <1>a DEF InsertedOwned
  <2>2. CASE q = p /\ m = n /\ inserted'[q][m] = e
    BY <2>2, <1>1, <1>a
  <2>3. QED
    BY <2>1, <2>2, <1>a
<1>8. JournalClosed'
  BY <1>4 DEF TypeOK, JournalClosed
<1>9. UpdatedObsoletes'
  BY <1>1, <1>4 DEF TypeOK, UpdatedObsoletes, JournalClosed, NoRows, IsRow
<1>10. MapsAgreeWithTable'
  BY <1>1, <1>2, <1>4 DEF TypeOK, MapsAgreeWithTable
<1>11. UpdatesPending'
  BY <1>1, <1>2, <1>4, <1>a DEF UpdatesPending
<1>12. InsertionsConsistent'
  BY <1>1, <1>2, <1>4, <1>a DEF InsertionsConsistent
<1>13. (PromotionSticks /\ OnePromoter)'
  BY <1>1, <1>2, <1>4 DEF TypeOK, PromotionSticks, OnePromoter
<1>14. QED
  BY <1>3, <1>5, <1>6, <1>7, <1>8, <1>9, <1>10, <1>11, <1>12, <1>13

LEMMA CompleteReconcileIInv ==
  ASSUME IInv, NEW p \in Process, CompleteReconcile(p)
  PROVE  IInv'
<1> USE DEF IInv, CompleteReconcile, IsRow
<1>1. TypeOK'
  BY DEF TypeOK, Phase, NoRows
<1>2. (OwnersKeepRows /\ NamesMeanOneValue /\ MapsAgreeWithTable)'
  BY DEF OwnersKeepRows, NamesMeanOneValue, MapsAgreeWithTable
<1>3. (InsertedOwned /\ JournalClosed)'
  BY DEF TypeOK, InsertedOwned, JournalClosed, NoRows
<1>4. UpdatedObsoletes'
  BY DEF TypeOK, UpdatedObsoletes, NoRows
<1>5. UpdatesPending'
  BY DEF TypeOK, UpdatesPending, InsertionsConsistent, OnePromoter, NoRows
<1>6. InsertionsConsistent'
  BY DEF TypeOK, InsertionsConsistent, NoRows
<1>7. PromotionSticks'
  BY NoRowAssumption DEF TypeOK, Entry, Change, PromotionSticks, UpdatedObsoletes
<1>8. OnePromoter'
  BY DEF TypeOK, OnePromoter, NoRows
<1>9. QED
  BY <1>1, <1>2, <1>3, <1>4, <1>5, <1>6, <1>7, <1>8

LEMMA ObsoleteSymbolIInv ==
  ASSUME IInv, NEW p \in Process, NEW n \in Name, ObsoleteSymbol(p, n)
  PROVE  IInv'
<1> DEFINE e == map[p][n]
           f == Obsoleted(e)
<1> USE DEF IInv
<1>1. e \in Entry /\ IsRow(e)
  BY DEF TypeOK, ObsoleteSymbol, MayObsolete, IsRow
<1>2. f \in Entry /\ IsRow(f) /\ f.value = e.value /\ ~f.active
  <2>1. f \in Entry /\ f.value = e.value /\ f.active = FALSE
    BY <1>1 DEF Entry, Obsoleted
  <2>2. QED
    BY <2>1, NoRowAssumption DEF IsRow
<1>3. /\ phase[p] = "reconciling"
      /\ e.active \/ IsRow(updated[p][n])
      /\ db[n] \in {e, NoRow}
      /\ db' = IF IsRow(db[n]) THEN [db EXCEPT ![n] = f] ELSE db
      /\ map' = [map EXCEPT ![p][n] = f]
      /\ RecordUpdate(p, n, e, f)
      /\ UNCHANGED <<phase, attempts, owned, promoted, recycled>>
  BY DEF ObsoleteSymbol, MayObsolete
<1> DEFINE b == IF IsRow(updated[p][n]) THEN updated[p][n].before ELSE e
           c == [before |-> b, after |-> f]
<1>4. /\ b.active
      /\ ~IsRow(inserted[p][n]) => b.value = e.value
      /\ b \in Entry
  <2>1. CASE ~IsRow(updated[p][n])
    BY <2>1, <1>1, <1>3
  <2>2. CASE IsRow(updated[p][n])
    BY <2>2 DEF UpdatedObsoletes, TypeOK, Change, IsRow
  <2>3. QED
    BY <2>1, <2>2
<1>5. c \in Change /\ IsRow(c) /\ c.before = b /\ c.after = f
  BY <1>2, <1>4, NoRowAssumption DEF Change, IsRow
<1>6. \/ /\ IsRow(inserted[p][n])
         /\ inserted' = [inserted EXCEPT ![p][n] = f]
         /\ updated' = updated
      \/ /\ ~IsRow(inserted[p][n])
         /\ updated' = [updated EXCEPT ![p][n] = c]
         /\ inserted' = inserted
  BY <1>3 DEF RecordUpdate
<1> HIDE DEF e, f, b, c
<1>7. TypeOK'
  <2>1. db' \in [Name -> Entry \cup {NoRow}]
    BY <1>2, <1>3 DEF TypeOK
  <2>2. map' \in [Process -> [Name -> Entry \cup {NoRow}]]
    BY <1>2, <1>3 DEF TypeOK
  <2>3. inserted' \in [Process -> [Name -> Entry \cup {NoRow}]]
    <3>1. CASE inserted' = inserted
      BY <3>1 DEF TypeOK
    <3>2. CASE inserted' = [inserted EXCEPT ![p][n] = f]
      BY <1>2, <3>2 DEF TypeOK
    <3>3. QED
      BY <1>6, <3>1, <3>2
  <2>4. updated' \in [Process -> [Name -> Change \cup {NoRow}]]
    <3>1. CASE updated' = updated
      BY <3>1 DEF TypeOK
    <3>2. CASE updated' = [updated EXCEPT ![p][n] = c]
      BY <1>5, <3>2 DEF TypeOK
    <3>3. QED
      BY <1>6, <3>1, <3>2
  <2>5. QED
    BY <1>3, <2>1, <2>2, <2>3, <2>4 DEF TypeOK
\* What the step does to each place it may change.
<1>8. /\ \A m \in Name :
           db'[m] = IF m = n /\ IsRow(db[n]) THEN f ELSE db[m]
      /\ \A q \in Process, m \in Name :
           map'[q][m] = IF q = p /\ m = n THEN f ELSE map[q][m]
  BY <1>3 DEF TypeOK
<1>9. \A q \in Process, m \in Name :
        inserted'[q][m] = IF q = p /\ m = n /\ IsRow(inserted[p][n])
                          THEN f ELSE inserted[q][m]
  BY <1>6 DEF TypeOK
<1>10. \A q \in Process, m \in Name :
        updated'[q][m] = IF q = p /\ m = n /\ ~IsRow(inserted[p][n])
                         THEN c ELSE updated[q][m]
  BY <1>6 DEF TypeOK
\* A name that is not recycled is still in the table, as the map lists it.
<1>11. n \notin recycled => db[n] = e
  BY <1>1, <1>3 DEF MapsAgreeWithTable, IsRow, e
<1>12. OwnersKeepRows'
  <2> SUFFICES ASSUME NEW q \in Process, NEW o \in owned[q]
               PROVE  IsRow(db'[o[1]]) /\ db'[o[1]].value = o[2]
    BY <1>3 DEF OwnersKeepRows
  <2>1. o[1] \in Name /\ IsRow(db[o[1]]) /\ db[o[1]].value = o[2]
    BY DEF OwnersKeepRows, TypeOK
  <2>2. QED
    BY <1>2, <1>3, <1>8, <2>1 DEF IsRow
<1>13. NamesMeanOneValue'
  BY <1>3 DEF NamesMeanOneValue
<1>14. InsertedOwned'
  <2>1. IsRow(inserted[p][n]) => f.value = inserted[p][n].value
    <3> SUFFICES ASSUME IsRow(inserted[p][n])
                 PROVE  f.value = inserted[p][n].value
      OBVIOUS
    <3> DEFINE o == <<n, inserted[p][n].value>>
    <3>1. o \in owned[p] /\ o[1] = n /\ o[2] = inserted[p][n].value
      BY DEF InsertedOwned
    <3>2. IsRow(db[n]) /\ db[n].value = inserted[p][n].value
      BY <3>1 DEF OwnersKeepRows
    <3>3. QED
      BY <1>2, <1>3, <3>2 DEF IsRow
  <2>2. QED
    BY <1>3, <1>9, <2>1 DEF InsertedOwned
<1>15. JournalClosed'
  BY <1>3, <1>6 DEF TypeOK, JournalClosed
<1>16. UpdatedObsoletes'
  BY <1>2, <1>4, <1>5, <1>8, <1>9, <1>10 DEF UpdatedObsoletes
<1>17. MapsAgreeWithTable'
  BY <1>1, <1>2, <1>3, <1>8, <1>11 DEF MapsAgreeWithTable
<1>18. UpdatesPending'
  BY <1>1, <1>2, <1>3, <1>4, <1>5, <1>8, <1>9, <1>10, <1>11
     DEF UpdatesPending, PromotionSticks
<1>19. InsertionsConsistent'
  BY <1>1, <1>2, <1>3, <1>8, <1>9, <1>10, <1>11
     DEF InsertionsConsistent, UpdatesPending
<1>20. PromotionSticks'
  BY <1>2, <1>3, <1>8 DEF PromotionSticks
<1>21. OnePromoter'
  BY <1>3, <1>10, <1>11 DEF OnePromoter, UpdatesPending
<1>22. QED
  BY <1>7, <1>12, <1>13, <1>14, <1>15, <1>16, <1>17, <1>18, <1>19, <1>20, <1>21

LEMMA RollbackIInv ==
  ASSUME IInv, NEW p \in Process, Rollback(p)
  PROVE  IInv'
<1> USE DEF IInv
<1>1. /\ db' = [n \in Name |-> RolledBackRow(p, n)]
      /\ map' = [map EXCEPT ![p] = [n \in Name |-> RolledBackEntry(p, n)]]
      /\ owned' = [owned EXCEPT ![p] = {o \in @ : ~IsRow(inserted[p][o[1]])}]
      /\ recycled' = recycled \cup
           {n \in Name : IsRow(inserted[p][n]) /\ db[n] = inserted[p][n]}
      /\ inserted' = [inserted EXCEPT ![p] = NoRows]
      /\ updated' = [updated EXCEPT ![p] = NoRows]
      /\ phase' = [phase EXCEPT ![p] = "free"]
      /\ UNCHANGED <<attempts, promoted>>
  BY DEF Rollback
<1>2. \A n \in Name : IsRow(updated[p][n]) => updated[p][n].before \in Entry
  BY DEF TypeOK, Change, IsRow
<1>3. TypeOK'
  <2>1. \A n \in Name : RolledBackRow(p, n) \in Entry \cup {NoRow}
    BY <1>2 DEF TypeOK, RolledBackRow
  <2>2. \A n \in Name : RolledBackEntry(p, n) \in Entry \cup {NoRow}
    BY <1>2 DEF TypeOK, RolledBackEntry
  <2>3. QED
    BY <1>1, <2>1, <2>2 DEF TypeOK, Phase, NoRows
\* The values of the rows it keeps do not change; it deletes only its own.
<1>4. \A n \in Name :
        \/ IsRow(inserted[p][n]) /\ db[n] = inserted[p][n] /\ db'[n] = NoRow
        \/ db'[n] = db[n]
        \/ /\ IsRow(updated[p][n])
           /\ db[n] = updated[p][n].after
           /\ db'[n] = updated[p][n].before
           /\ IsRow(db'[n])
           /\ db'[n].value = db[n].value
           /\ db'[n].active
  BY <1>1, <1>2, NoRowAssumption
     DEF RolledBackRow, UpdatedObsoletes, IsRow
<1>5. \A n \in Name :
        \/ map'[p][n] = NoRow
        \/ map'[p][n] = map[p][n] /\ ~IsRow(updated[p][n])
        \/ /\ IsRow(updated[p][n])
           /\ map'[p][n] = updated[p][n].before
  BY <1>1 DEF TypeOK, RolledBackEntry
<1>6. \A q \in Process \ {p} :
        /\ map'[q] = map[q]
        /\ inserted'[q] = inserted[q]
        /\ updated'[q] = updated[q]
        /\ owned'[q] = owned[q]
  BY <1>1 DEF TypeOK
<1>7. /\ \A n \in Name : ~IsRow(inserted'[p][n]) /\ ~IsRow(updated'[p][n])
      /\ owned'[p] = {o \in owned[p] : ~IsRow(inserted[p][o[1]])}
      /\ \A n \in Name : n \notin recycled' =>
           /\ n \notin recycled
           /\ ~(IsRow(inserted[p][n]) /\ db[n] = inserted[p][n])
  BY <1>1 DEF TypeOK, NoRows, IsRow
<1>8. OwnersKeepRows'
  <2> SUFFICES ASSUME NEW q \in Process, NEW o \in owned'[q]
               PROVE  IsRow(db'[o[1]]) /\ db'[o[1]].value = o[2]
    BY DEF OwnersKeepRows
  <2>1. o \in owned[q] /\ (q = p => ~IsRow(inserted[p][o[1]]))
    BY <1>6, <1>7
  <2>2. o[1] \in Name /\ IsRow(db[o[1]]) /\ db[o[1]].value = o[2]
    BY <2>1 DEF OwnersKeepRows, TypeOK
  <2>3. ~IsRow(inserted[p][o[1]])
    <3> SUFFICES ASSUME IsRow(inserted[p][o[1]]) PROVE FALSE
      OBVIOUS
    <3> DEFINE i == <<o[1], inserted[p][o[1]].value>>
    <3>1. i \in owned[p] /\ i[1] = o[1]
      BY <2>2 DEF InsertedOwned
    <3>2. q = p
      BY <2>1, <3>1 DEF NamesMeanOneValue
    <3>3. QED
      BY <2>1, <3>2
  <2>4. QED
    BY <1>4, <2>2, <2>3
<1>9. NamesMeanOneValue'
  BY <1>6, <1>7 DEF NamesMeanOneValue
<1>10. InsertedOwned'
  BY <1>6, <1>7 DEF InsertedOwned
<1>11. JournalClosed'
  BY <1>1 DEF TypeOK, JournalClosed
<1>12. UpdatedObsoletes'
  BY <1>6, <1>7 DEF UpdatedObsoletes
<1>13. MapsAgreeWithTable'
  BY <1>4, <1>5, <1>6, <1>7 DEF MapsAgreeWithTable, UpdatesPending, IsRow
<1>14. UpdatesPending'
  BY <1>1, <1>4, <1>6, <1>7 DEF UpdatesPending, OnePromoter
<1>15. InsertionsConsistent'
  BY <1>4, <1>6, <1>7 DEF InsertionsConsistent
<1>16. PromotionSticks'
  BY <1>1, <1>4, <1>7 DEF TypeOK, PromotionSticks, UpdatesPending
<1>17. OnePromoter'
  BY <1>6, <1>7 DEF OnePromoter
<1>18. QED
  BY <1>3, <1>8, <1>9, <1>10, <1>11, <1>12, <1>13, <1>14, <1>15, <1>16, <1>17

---------------------------------------------------------------------------
LEMMA NextIInv == IInv /\ [Next]_vars => IInv'
<1> SUFFICES ASSUME IInv, [Next]_vars PROVE IInv'
  OBVIOUS
<1>1. CASE Next
  <2> PICK p \in Process : ProcessStep(p)
    BY <1>1 DEF Next
  <2>1. QED
    BY LoadMapIInv, CloseSessionIInv, AllocateWinsIInv, AllocateLosesIInv,
       AllocateExhaustedIInv, BeginReconcileIInv, ObsoleteSymbolIInv,
       ObsoleteConflictIInv, CompleteReconcileIInv, RollbackIInv
       DEF ProcessStep
<1>2. CASE UNCHANGED vars
  <2>1. TypeOK'
    BY <1>2 DEF IInv, TypeOK, vars
  <2>2. (JournalClosed /\ UpdatedObsoletes /\ MapsAgreeWithTable)'
    BY <1>2 DEF IInv, JournalClosed, UpdatedObsoletes, MapsAgreeWithTable, vars
  <2>3. QED
    BY <1>2, <2>1, <2>2, TableUntouched DEF vars
<1>3. QED
  BY <1>1, <1>2

LEMMA Invariance == Spec => []IInv
  BY InitIInv, NextIInv, PTL DEF Spec

\* The type invariant of the symbol table (dualview-symbol-table.ts), for any
\* number of processes, names, values and allocation attempts.
THEOREM TypeCorrect == Spec => []TypeOK
  BY Invariance, PTL DEF IInv

\* persistSymbolIfNew, obsoleteSymbol and rollbackSymbolMapChanges never
\* overwrite or delete a row another process has been given.
THEOREM OwnershipIsKept == Spec => []OwnersKeepRows
  BY Invariance, PTL DEF IInv

\* allocateSymbol and allocateDerivedSymbol never return one name twice.
THEOREM NamesAreUnique == Spec => []NamesMeanOneValue
  BY Invariance, PTL DEF IInv

\* A map loaded by loadSymbolMap, however stale, resolves every owned name to
\* the value its owner put there, unless a rollback has recycled the name.
THEOREM MapsAreSound == Spec => []MapsAgreeWithOwners
<1>1. IInv => MapsAgreeWithOwners
  BY DEF IInv, TypeOK, OwnersKeepRows, MapsAgreeWithTable, MapsAgreeWithOwners
<1>2. QED
  BY <1>1, Invariance, PTL

\* rollbackSymbolMapChanges never undoes the obsoletion another reconciliation
\* has completed.
THEOREM PromotionsAreFinal == Spec => []PromotionSticks
  BY Invariance, PTL DEF IInv

\* Of two reconciliations that read a symbol as active, obsoleteSymbol lets
\* only one obsolete it.
THEOREM PromotersAreUnique == Spec => []OnePromoter
  BY Invariance, PTL DEF IInv

===========================================================================
