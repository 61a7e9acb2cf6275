--------------------------- MODULE BlockStoreProofs ---------------------------
(***************************************************************************)
(* The bag on disk, for every value of its constants: its types, what its  *)
(* indexes agree on, that recovery loses nothing, that it implements Bag;  *)
(* and the forwarder on top of it, which uses the store as BlockStore      *)
(* allows and marks as forwarded only what the vault has.                  *)
(***************************************************************************)
EXTENDS BagForwarder, TLAPS

USE DEF Callers, InService

-----------------------------------------------------------------------------
(* Types.                                                                  *)

\* The constructors of entries make entries.
LEMMA NewEntryType ==
  ASSUME NEW i \in Nat, NEW h \in Hashes, NEW r \in Reasons
  PROVE  [id |-> i, hash |-> h, reason |-> r, forwarded |-> FALSE] \in Entry
  BY DEF Entry

\* Flagging an entry as forwarded makes an entry.
LEMMA WithForwardedType ==
  ASSUME NEW e \in Entry
  PROVE  WithForwarded(e) \in Entry
  BY DEF WithForwarded, Entry

\* Every step keeps the flags Boolean; apart, because SMT is weak on Booleans.
LEMMA FlagsStep == TypeOK /\ [Next]_vars => TypeFlags'
  BY DEF TypeOK, TypeFlags, Phases, Next, vars, memory, disk, Load, LoadEntry,
    LoadDbDone, RecoverLine, RecoverDone, SaveDone, Enqueue, ListBatch,
    DropBatch, MarkSubmittedMany, MarkPendingReason, MarkForwardedMany,
    DeferAllToNextStart, Flush, Destroy, Crash, CrashInAppend, SaveDb, NoSave,
    Forget, MarkDirtyMaybeSave, MarkDirtySave, AppendQueueJsonl

\* Every step keeps the types.
LEMMA TypeStep == TypeOK /\ [Next]_vars => TypeOK'
<1> SUFFICES ASSUME TypeOK, [Next]_vars
             PROVE TypeCounts' /\ TypeBag' /\ TypeDisk'
  BY FlagsStep DEF TypeOK
<1> USE DEF TypeOK, TypeCounts, TypeBag, TypeDisk
<1>1. CASE Load
  BY <1>1 DEF Load, disk, Snapshot
<1>2. CASE LoadEntry
  BY <1>2 DEF LoadEntry, disk, Larger, Entry
<1>3. CASE LoadDbDone
  BY <1>3 DEF LoadDbDone, memory, disk
<1>4. CASE RecoverLine
  <2>1. CASE jsonl[cursor].hash \in hashIndex
    BY <1>4, <2>1 DEF RecoverLine, disk
  <2>2. CASE jsonl[cursor].hash \notin hashIndex
    <3>1. jsonl[cursor] \in Line
      BY <1>4 DEF RecoverLine
    <3>2. RecoveredId(jsonl[cursor]) \in Nat
      BY <3>1 DEF RecoveredId, Line
    <3>3. [id |-> RecoveredId(jsonl[cursor]), hash |-> jsonl[cursor].hash,
           reason |-> jsonl[cursor].reason, forwarded |-> FALSE] \in Entry
      BY <3>1, <3>2, NewEntryType DEF Line
    <3>4. TypeCounts'
      BY <1>4, <2>2, <3>2 DEF RecoverLine, Larger
    <3>5. pending' \in SUBSET Entry
      BY <1>4, <2>2, <3>3 DEF RecoverLine
    <3>6. hashIndex' \in SUBSET Hashes
      BY <1>4, <2>2, <3>1 DEF RecoverLine, Line
    <3> QED
      BY <1>4, <3>4, <3>5, <3>6 DEF RecoverLine, disk
  <2> QED
    BY <2>1, <2>2
<1>5. CASE RecoverDone
  BY <1>5 DEF RecoverDone, SaveDb, NoSave, Discarded, Snapshot
<1>6. CASE SaveDone
  BY <1>6 DEF SaveDone, Forget, Snapshot
<1>7. ASSUME NEW h \in Hashes, NEW r \in Reasons, Enqueue(h, r)
      PROVE TypeCounts' /\ TypeBag' /\ TypeDisk'
  <2>1. TypeCounts'
    BY <1>7 DEF Enqueue, MarkDirtyMaybeSave
  <2>2. TypeBag'
    <3>1. [id |-> nextId, hash |-> h, reason |-> r, forwarded |-> FALSE] \in Entry
      BY NewEntryType
    <3>2. pending' \in SUBSET Entry /\ {hashIndex', owed'} \subseteq SUBSET Hashes
          /\ toLoad' = toLoad /\ held' = held
      BY <1>7, <3>1 DEF Enqueue
    <3>3. glued' \in SUBSET Hashes
      BY <1>7 DEF Enqueue, AppendQueueJsonl
    <3> QED
      BY <3>2, <3>3
  <2>3. db' \in Snapshot
    BY <1>7 DEF Enqueue, MarkDirtyMaybeSave, SaveDb, NoSave, Discarded, Snapshot
  <2>4. [id |-> nextId, hash |-> h, reason |-> r] \in Line
    BY DEF Line
  <2>5. jsonl' \in Seq(Line)
    BY <1>7, <2>4 DEF Enqueue, AppendQueueJsonl
  <2> QED
    BY <2>1, <2>2, <2>3, <2>5
<1>8. ASSUME NEW c \in Callers, ListBatch(c)
      PROVE TypeCounts' /\ TypeBag' /\ TypeDisk'
  BY <1>8 DEF ListBatch, disk, Entry, Handle
<1>9. ASSUME NEW c \in Callers, DropBatch(c)
      PROVE TypeCounts' /\ TypeBag' /\ TypeDisk'
  BY <1>9 DEF DropBatch, disk
<1>10. ASSUME NEW S \in SUBSET held["flush"], MarkSubmittedMany(S)
       PROVE TypeCounts' /\ TypeBag' /\ TypeDisk'
  BY <1>10 DEF MarkSubmittedMany, MarkDirtySave, SaveDb, Discarded, Snapshot
<1>11. ASSUME NEW e \in held["flush"], NEW r \in Reasons, MarkPendingReason(e.id, r)
       PROVE TypeCounts' /\ TypeBag' /\ TypeDisk'
  <2>1. pending' \in SUBSET Entry
    BY <1>11 DEF MarkPendingReason, Update, WithReason, Entry
  <2> QED
    BY <1>11, <2>1 DEF MarkPendingReason, MarkDirtyMaybeSave, SaveDb, NoSave,
      Discarded, Snapshot
<1>12. CASE MarkForwardedMany
  <2>1. pending' \in SUBSET Entry
    BY <1>12, WithForwardedType DEF MarkForwardedMany, Update
  <2> QED
    BY <1>12, <2>1 DEF MarkForwardedMany, MarkDirtySave, SaveDb, Discarded, Snapshot
<1>13. CASE DeferAllToNextStart
  <2>1. pending' \in SUBSET Entry
    BY <1>13 DEF DeferAllToNextStart, Update, WithReason, Entry
  <2> QED
    BY <1>13, <2>1 DEF DeferAllToNextStart, MarkDirtySave, SaveDb, Discarded, Snapshot
<1>14. CASE Flush
  BY <1>14 DEF Flush, SaveDb, Discarded, Snapshot, memory
<1>15. CASE Destroy
  BY <1>15 DEF Destroy, SaveDb, NoSave, Forget, Discarded, Snapshot, memory
<1>16. CASE Crash
  BY <1>16 DEF Crash, Forget, disk
<1>17. CASE CrashInAppend
  BY <1>17 DEF CrashInAppend, Forget
<1>18. CASE UNCHANGED vars
  BY <1>18 DEF vars
<1> QED
  BY <1>1, <1>2, <1>3, <1>4, <1>5, <1>6, <1>7, <1>8, <1>9, <1>10, <1>11,
     <1>12, <1>13, <1>14, <1>15, <1>16, <1>17, <1>18 DEF Next

-----------------------------------------------------------------------------
(* The structures in memory.                                               *)

\* S and T have the same ids and digests, pairwise.
SameKeys(S, T) ==
    /\ \A e \in S : \E f \in T : f.id = e.id /\ f.hash = e.hash
    /\ \A f \in T : \E e \in S : f.id = e.id /\ f.hash = e.hash

\* Replacing entries without touching id and digest keeps them distinct.
LEMMA UpdateKeys ==
  ASSUME NEW S, NEW g, Distinct(S),
         \A e \in S : g[e].id = e.id /\ g[e].hash = e.hash
  PROVE  Distinct({g[e] : e \in S}) /\ SameKeys(S, {g[e] : e \in S})
<1> DEFINE T == {g[e] : e \in S}
<1>1. Distinct(T)
  <2> SUFFICES ASSUME NEW a \in T, NEW b \in T, a.id = b.id \/ a.hash = b.hash
               PROVE a = b
    BY DEF Distinct
  <2>1. PICK x \in S : a = g[x]
    OBVIOUS
  <2>2. PICK y \in S : b = g[y]
    OBVIOUS
  <2>3. x = y
    BY <2>1, <2>2 DEF Distinct
  <2> QED
    BY <2>1, <2>2, <2>3
<1>2. SameKeys(S, T)
  BY DEF SameKeys
<1> QED
  BY <1>1, <1>2

\* Entries replaced one by one by entries of the same digest have its digests.
LEMMA SameKeysHashes ==
  ASSUME NEW S, NEW T, SameKeys(S, T)
  PROVE  HashesOf(S) = HashesOf(T)
  BY DEF SameKeys, HashesOf

\* The three operations that write into the entries of pending_.
Rewrite == \/ \E e \in held["flush"], r \in Reasons : MarkPendingReason(e.id, r)
           \/ MarkForwardedMany
           \/ DeferAllToNextStart

\* A rewrite of reasons or flags leaves ids, digests and their uniqueness alone.
LEMMA RewriteKeys ==
  ASSUME Distinct(pending), Rewrite
  PROVE  Distinct(pending') /\ SameKeys(pending, pending')
<1>1. ASSUME NEW i, NEW r, MarkPendingReason(i, r)
      PROVE  Distinct(pending') /\ SameKeys(pending, pending')
  <2> DEFINE g == [e \in pending |-> IF e.id = i THEN WithReason(e, r) ELSE e]
  <2>1. \A e \in pending : g[e].id = e.id /\ g[e].hash = e.hash
    BY DEF WithReason
  <2>2. pending' = {g[e] : e \in pending}
    BY <1>1 DEF MarkPendingReason, Update
  <2> HIDE DEF g
  <2> QED
    BY <2>1, <2>2, UpdateKeys
<1>2. CASE MarkForwardedMany
  <2> DEFINE g == [e \in pending |-> IF e.id \in IdsOf(held["forward"])
                                     THEN WithForwarded(e) ELSE e]
  <2>1. \A e \in pending : g[e].id = e.id /\ g[e].hash = e.hash
    BY DEF WithForwarded
  <2>2. pending' = {g[e] : e \in pending}
    BY <1>2 DEF MarkForwardedMany, Update
  <2> HIDE DEF g
  <2> QED
    BY <2>1, <2>2, UpdateKeys
<1>3. CASE DeferAllToNextStart
  <2>1. PICK r \in [pending -> Reasons] :
          Update([e \in pending |-> WithReason(e, r[e])])
    BY <1>3 DEF DeferAllToNextStart
  <2> DEFINE g == [e \in pending |-> WithReason(e, r[e])]
  <2>2. \A e \in pending : g[e].id = e.id /\ g[e].hash = e.hash
    BY DEF WithReason
  <2>3. pending' = {g[e] : e \in pending}
    BY <2>1 DEF Update
  <2> HIDE DEF g
  <2> QED
    BY <2>2, <2>3, UpdateKeys
<1> QED
  BY <1>1, <1>2, <1>3 DEF Rewrite

\* Phase bookkeeping.
LEMMA PhaseStep == MemoryInv /\ [Next]_vars => PhaseInv'
<1> SUFFICES ASSUME MemoryInv, [Next]_vars PROVE PhaseInv'
  OBVIOUS
<1> USE DEF MemoryInv, PhaseInv, TypeOK, TypeFlags, TypeCounts, TypeDisk, Phases
<1>1. CASE Load
  BY <1>1 DEF Load, disk
<1>2. CASE LoadEntry
  BY <1>2 DEF LoadEntry, disk, Larger
<1>3. CASE LoadDbDone
  BY <1>3 DEF LoadDbDone, memory, disk
<1>4. CASE RecoverLine
  BY <1>4 DEF RecoverLine, disk, RecoveredId, Larger, IdsOf
<1>5. CASE RecoverDone
  BY <1>5 DEF RecoverDone, SaveDb, NoSave, Discarded
<1>6. CASE SaveDone
  BY <1>6 DEF SaveDone, Forget
<1>7. ASSUME NEW h \in Hashes, NEW r \in Reasons, Enqueue(h, r)
      PROVE PhaseInv'
  BY <1>7 DEF Enqueue, AppendQueueJsonl, MarkDirtyMaybeSave, SaveDb, NoSave, Discarded
<1>8. ASSUME NEW c \in Callers, ListBatch(c)
      PROVE PhaseInv'
  BY <1>8 DEF ListBatch, disk
<1>9. ASSUME NEW c \in Callers, DropBatch(c)
      PROVE PhaseInv'
  BY <1>9 DEF DropBatch, disk
<1>10. ASSUME NEW S \in SUBSET held["flush"], MarkSubmittedMany(S)
      PROVE PhaseInv'
  BY <1>10 DEF MarkSubmittedMany, MarkDirtySave, SaveDb, Discarded, IdsOf
<1>11. CASE Rewrite
  BY <1>11 DEF Rewrite, MarkPendingReason, MarkForwardedMany, DeferAllToNextStart, MarkDirtyMaybeSave, MarkDirtySave, SaveDb, NoSave, Discarded
<1>12. CASE Flush
  BY <1>12 DEF Flush, memory, SaveDb, Discarded
<1>13. CASE Destroy
  BY <1>13 DEF Destroy, SaveDb, NoSave, Discarded, Forget, memory
<1>14. CASE Crash
  BY <1>14 DEF Crash, disk, Forget
<1>15. CASE CrashInAppend
  BY <1>15 DEF CrashInAppend, Forget
<1>16. CASE UNCHANGED vars
  BY <1>16 DEF vars
<1> QED
  BY <1>1, <1>2, <1>3, <1>4, <1>5, <1>6, <1>7, <1>8, <1>9, <1>10, <1>11, <1>12, <1>13, <1>14, <1>15, <1>16 DEF Next, Rewrite


\* A new entry with a new id and a new digest.
LEMMA AddDistinct ==
  ASSUME NEW S, NEW e, Distinct(S), e.id \notin IdsOf(S), e.hash \notin HashesOf(S)
  PROVE  Distinct(S \cup {e})
  BY DEF Distinct, IdsOf, HashesOf

\* Ids stay unique and below next_id_, in memory and on disk.
LEMMA IdStep == MemoryInv /\ [Next]_vars => IdInv'
<1> SUFFICES ASSUME MemoryInv, [Next]_vars PROVE IdInv'
  OBVIOUS
<1> USE DEF MemoryInv, PhaseInv, IdInv, Distinct, TypeOK, TypeCounts, TypeBag, TypeDisk, Snapshot, Entry
<1>1. CASE Load
  BY <1>1 DEF Load, disk
<1>2. CASE LoadEntry
  BY <1>2 DEF LoadEntry, disk, Larger
<1>3. CASE LoadDbDone
  BY <1>3 DEF LoadDbDone, memory, disk
<1>4. CASE RecoverLine
  <2>1. CASE jsonl[cursor].hash \in hashIndex
    BY <1>4, <2>1 DEF RecoverLine, disk
  <2>2. CASE jsonl[cursor].hash \notin hashIndex
    <3> DEFINE i == RecoveredId(jsonl[cursor])
               new == [id |-> i, hash |-> jsonl[cursor].hash,
                       reason |-> jsonl[cursor].reason, forwarded |-> FALSE]
    <3>0. jsonl[cursor] \in Line
      BY <1>4 DEF RecoverLine
    <3>1. i \in Nat /\ i \notin IdsOf(pending)
      BY <3>0 DEF RecoveredId, Line, IdsOf
    <3>2. jsonl[cursor].hash \notin HashesOf(pending)
      BY <2>2 DEF StoreConsistent
    <3>3. pending' = pending \cup {new} /\ toLoad' = {} /\ toLoad = {}
      BY <1>4, <2>2 DEF RecoverLine
    <3>4. nextId' >= nextId /\ i < nextId' /\ nextId' \in Nat
      BY <1>4, <2>2, <3>1 DEF RecoverLine, Larger
    <3> HIDE DEF i
    <3>5. Distinct(pending \cup {new})
      <4> HIDE DEF Distinct
      <4>1. Distinct(pending)
        BY DEF StoreConsistent
      <4>2. new.id \notin IdsOf(pending) /\ new.hash \notin HashesOf(pending)
        BY <3>1, <3>2
      <4> HIDE DEF new
      <4> QED
        BY <4>1, <4>2, AddDistinct
    <3>6. \A e \in pending' : e.id < nextId'
      BY <3>3, <3>4
    <3>7. UNCHANGED <<held, db>>
      BY <1>4 DEF RecoverLine, disk
    <3> QED
      BY <1>4, <3>3, <3>4, <3>5, <3>6, <3>7 DEF RecoverLine
  <2> QED
    BY <2>1, <2>2
<1>5. CASE RecoverDone
  BY <1>5 DEF RecoverDone, SaveDb, NoSave, Discarded
<1>6. CASE SaveDone
  BY <1>6 DEF SaveDone, Forget
<1>7. ASSUME NEW h \in Hashes, NEW r \in Reasons, Enqueue(h, r)
      PROVE IdInv'
  <2> DEFINE new == [id |-> nextId, hash |-> h, reason |-> r, forwarded |-> FALSE]
  <2>1. pending' = pending \cup {new} /\ toLoad' = {} /\ toLoad = {}
        /\ nextId' = nextId + 1 /\ held' = held
    BY <1>7 DEF Enqueue
  <2>2. Distinct(pending \cup {new})
    <3>1. h \notin HashesOf(pending) /\ nextId \notin IdsOf(pending)
      BY <1>7 DEF Enqueue, StoreConsistent, IdsOf
    <3> HIDE DEF Distinct
    <3>2. Distinct(pending)
      BY DEF StoreConsistent
    <3>3. new.id \notin IdsOf(pending) /\ new.hash \notin HashesOf(pending)
      BY <3>1
    <3> HIDE DEF new
    <3> QED
      BY <3>2, <3>3, AddDistinct
  <2>3. Distinct(db'.pending) /\ \A e \in db'.pending : e.id < db'.next
    BY <1>7 DEF Enqueue, MarkDirtyMaybeSave, SaveDb, NoSave, Discarded
  <2>4. \A e \in pending' : e.id < nextId'
    BY <2>1
  <2>5. \A c \in Callers : \A e \in held'[c] : e.id < nextId'
    BY <2>1 DEF Handle
  <2> QED
    BY <2>1, <2>2, <2>3, <2>4, <2>5
<1>8. ASSUME NEW c \in Callers, ListBatch(c)
      PROVE IdInv'
  BY <1>8 DEF ListBatch, disk
<1>9. ASSUME NEW c \in Callers, DropBatch(c)
      PROVE IdInv'
  BY <1>9 DEF DropBatch, disk
<1>10. ASSUME NEW S \in SUBSET held["flush"], MarkSubmittedMany(S)
      PROVE IdInv'
  BY <1>10 DEF MarkSubmittedMany, MarkDirtySave, SaveDb, Discarded, IdsOf
<1>11. CASE Rewrite
  <2>1. Distinct(pending') /\ SameKeys(pending, pending')
    BY <1>11, RewriteKeys DEF StoreConsistent
  <2>2. toLoad' = {} /\ nextId' = nextId
    BY <1>11 DEF Rewrite, MarkPendingReason, MarkForwardedMany, DeferAllToNextStart
  <2>3. \A c \in Callers : held'[c] \subseteq held[c]
    BY <1>11 DEF Rewrite, MarkPendingReason, MarkForwardedMany, DeferAllToNextStart
  <2>4. db' = db \/ db' = Discarded
    BY <1>11 DEF Rewrite, MarkPendingReason, MarkForwardedMany,
      DeferAllToNextStart, MarkDirtyMaybeSave, MarkDirtySave, SaveDb, NoSave
  <2>5. \A e \in pending' : e.id < nextId'
    BY <2>1, <2>2 DEF SameKeys
  <2> QED
    BY <2>1, <2>2, <2>3, <2>4, <2>5 DEF Discarded
<1>12. CASE Flush
  BY <1>12 DEF Flush, memory, SaveDb, Discarded
<1>13. CASE Destroy
  BY <1>13 DEF Destroy, SaveDb, NoSave, Discarded, Forget, memory
<1>14. CASE Crash
  BY <1>14 DEF Crash, disk, Forget
<1>15. CASE CrashInAppend
  BY <1>15 DEF CrashInAppend, Forget
<1>16. CASE UNCHANGED vars
  BY <1>16 DEF vars
<1> QED
  BY <1>1, <1>2, <1>3, <1>4, <1>5, <1>6, <1>7, <1>8, <1>9, <1>10, <1>11, <1>12, <1>13, <1>14, <1>15, <1>16 DEF Next, Rewrite

\* A new entry adds its digest.
LEMMA AddHash ==
  ASSUME NEW S, NEW e
  PROVE  HashesOf(S \cup {e}) = HashesOf(S) \cup {e.hash}
  BY DEF HashesOf

\* hash_index_ follows pending_.
LEMMA IndexStep == MemoryInv /\ [Next]_vars => (hashIndex = HashesOf(pending))'
<1> SUFFICES ASSUME MemoryInv, [Next]_vars PROVE (hashIndex = HashesOf(pending))'
  OBVIOUS
<1> USE DEF MemoryInv, PhaseInv, StoreConsistent, TypeOK, TypeBag
<1>1. CASE Load
  BY <1>1 DEF Load, disk
<1>2. CASE LoadEntry
  BY <1>2, AddHash DEF LoadEntry
<1>3. CASE LoadDbDone
  BY <1>3 DEF LoadDbDone, memory, disk
<1>4. CASE RecoverLine
  <2> DEFINE new == [id |-> RecoveredId(jsonl[cursor]), hash |-> jsonl[cursor].hash,
                     reason |-> jsonl[cursor].reason, forwarded |-> FALSE]
  <2>1. \/ UNCHANGED <<pending, hashIndex>>
        \/ pending' = pending \cup {new} /\ hashIndex' = hashIndex \cup {new.hash}
    BY <1>4 DEF RecoverLine
  <2> HIDE DEF new
  <2> QED
    BY <2>1, AddHash
<1>5. CASE RecoverDone
  BY <1>5 DEF RecoverDone, SaveDb, NoSave
<1>6. CASE SaveDone
  BY <1>6 DEF SaveDone, Forget, HashesOf
<1>7. ASSUME NEW h \in Hashes, NEW r \in Reasons, Enqueue(h, r)
      PROVE (hashIndex = HashesOf(pending))'
  <2> DEFINE new == [id |-> nextId, hash |-> h, reason |-> r, forwarded |-> FALSE]
  <2>1. pending' = pending \cup {new} /\ hashIndex' = hashIndex \cup {new.hash}
    BY <1>7 DEF Enqueue
  <2> HIDE DEF new
  <2> QED
    BY <2>1, AddHash
<1>8. ASSUME NEW c \in Callers, ListBatch(c)
      PROVE (hashIndex = HashesOf(pending))'
  BY <1>8 DEF ListBatch, disk
<1>9. ASSUME NEW c \in Callers, DropBatch(c)
      PROVE (hashIndex = HashesOf(pending))'
  BY <1>9 DEF DropBatch, disk
<1>10. ASSUME NEW S \in SUBSET held["flush"], MarkSubmittedMany(S)
      PROVE (hashIndex = HashesOf(pending))'
  BY <1>10 DEF MarkSubmittedMany, IdsOf, HashesOf, Distinct
<1>11. CASE Rewrite
  <2>1. SameKeys(pending, pending')
    BY <1>11, RewriteKeys
  <2>2. hashIndex' = hashIndex
    BY <1>11 DEF Rewrite, MarkPendingReason, MarkForwardedMany, DeferAllToNextStart
  <2> QED
    BY <2>1, <2>2, SameKeysHashes
<1>12. CASE Flush
  BY <1>12 DEF Flush, memory, SaveDb
<1>13. CASE Destroy
  BY <1>13 DEF Destroy, Forget, memory, HashesOf
<1>14. CASE Crash
  BY <1>14 DEF Crash, Forget, HashesOf
<1>15. CASE CrashInAppend
  BY <1>15 DEF CrashInAppend, Forget, HashesOf
<1>16. CASE UNCHANGED vars
  BY <1>16 DEF vars
<1> QED
  BY <1>1, <1>2, <1>3, <1>4, <1>5, <1>6, <1>7, <1>8, <1>9, <1>10, <1>11,
     <1>12, <1>13, <1>14, <1>15, <1>16 DEF Next, Rewrite

\* Copies of ids outlive the mutex: an id is never given to another block.
LEMMA HeldStep == MemoryInv /\ [Next]_vars => HeldIdsStable'
<1> SUFFICES ASSUME MemoryInv, [Next]_vars PROVE HeldIdsStable'
  OBVIOUS
<1> USE DEF MemoryInv, PhaseInv, StoreConsistent, HeldIdsStable, IdInv, TypeOK, TypeCounts, TypeBag, Handle, Entry
<1>1. CASE Load
  BY <1>1 DEF Load, disk
<1>2. CASE LoadEntry
  BY <1>2 DEF LoadEntry, disk, Larger
<1>3. CASE LoadDbDone
  BY <1>3 DEF LoadDbDone, memory, disk
<1>4. CASE RecoverLine
  BY <1>4 DEF RecoverLine, disk
<1>5. CASE RecoverDone
  BY <1>5 DEF RecoverDone, SaveDb, NoSave
<1>6. CASE SaveDone
  BY <1>6 DEF SaveDone, Forget
<1>7. ASSUME NEW h \in Hashes, NEW r \in Reasons, Enqueue(h, r)
      PROVE HeldIdsStable'
  BY <1>7 DEF Enqueue, AppendQueueJsonl, MarkDirtyMaybeSave, SaveDb, NoSave
<1>8. ASSUME NEW c \in Callers, ListBatch(c)
      PROVE HeldIdsStable'
  BY <1>8 DEF ListBatch, disk, Distinct
<1>9. ASSUME NEW c \in Callers, DropBatch(c)
      PROVE HeldIdsStable'
  BY <1>9 DEF DropBatch, disk
<1>10. ASSUME NEW S \in SUBSET held["flush"], MarkSubmittedMany(S)
      PROVE HeldIdsStable'
  BY <1>10 DEF MarkSubmittedMany, MarkDirtySave, SaveDb, IdsOf
<1>11. CASE Rewrite
  <2>1. SameKeys(pending, pending')
    BY <1>11, RewriteKeys
  <2>2. \A c \in Callers : held'[c] \subseteq held[c]
    BY <1>11 DEF Rewrite, MarkPendingReason, MarkForwardedMany, DeferAllToNextStart
  <2> QED
    BY <2>1, <2>2 DEF SameKeys
<1>12. CASE Flush
  BY <1>12 DEF Flush, memory, SaveDb
<1>13. CASE Destroy
  BY <1>13 DEF Destroy, SaveDb, NoSave, Forget, memory
<1>14. CASE Crash
  BY <1>14 DEF Crash, disk, Forget
<1>15. CASE CrashInAppend
  BY <1>15 DEF CrashInAppend, Forget
<1>16. CASE UNCHANGED vars
  BY <1>16 DEF vars
<1> QED
  BY <1>1, <1>2, <1>3, <1>4, <1>5, <1>6, <1>7, <1>8, <1>9, <1>10, <1>11,
     <1>12, <1>13, <1>14, <1>15, <1>16 DEF Next, Rewrite

\* What load() has in memory against the snapshot.
LEMMA LagStep == MemoryInv /\ [Next]_vars => LagInv'
<1> SUFFICES ASSUME MemoryInv, [Next]_vars PROVE LagInv'
  OBVIOUS
<1> USE DEF MemoryInv, PhaseInv, LagInv, TypeOK, TypeFlags, Phases
<1>1. CASE Load
  BY <1>1 DEF Load, disk
<1>2. CASE LoadEntry
  BY <1>2 DEF LoadEntry, disk, Larger
<1>3. CASE LoadDbDone
  BY <1>3 DEF LoadDbDone, memory, disk
<1>4. CASE RecoverLine
  BY <1>4 DEF RecoverLine, disk
<1>5. CASE RecoverDone
  BY <1>5 DEF RecoverDone, SaveDb, NoSave
<1>6. CASE SaveDone
  BY <1>6 DEF SaveDone, Forget
<1>7. ASSUME NEW h \in Hashes, NEW r \in Reasons, Enqueue(h, r)
      PROVE LagInv'
  BY <1>7 DEF Enqueue, AppendQueueJsonl, MarkDirtyMaybeSave, SaveDb, NoSave
<1>8. ASSUME NEW c \in Callers, ListBatch(c)
      PROVE LagInv'
  BY <1>8 DEF ListBatch, disk
<1>9. ASSUME NEW c \in Callers, DropBatch(c)
      PROVE LagInv'
  BY <1>9 DEF DropBatch, disk
<1>10. ASSUME NEW S \in SUBSET held["flush"], MarkSubmittedMany(S)
      PROVE LagInv'
  BY <1>10 DEF MarkSubmittedMany, MarkDirtySave, SaveDb, IdsOf
<1>11. CASE Rewrite
  BY <1>11 DEF Rewrite, MarkPendingReason, MarkForwardedMany, DeferAllToNextStart,
    MarkDirtyMaybeSave, MarkDirtySave, SaveDb, NoSave
<1>12. CASE Flush
  BY <1>12 DEF Flush, memory, SaveDb
<1>13. CASE Destroy
  BY <1>13 DEF Destroy, SaveDb, NoSave, Forget, memory
<1>14. CASE Crash
  BY <1>14 DEF Crash, disk, Forget
<1>15. CASE CrashInAppend
  BY <1>15 DEF CrashInAppend, Forget
<1>16. CASE UNCHANGED vars
  BY <1>16 DEF vars
<1> QED
  BY <1>1, <1>2, <1>3, <1>4, <1>5, <1>6, <1>7, <1>8, <1>9, <1>10, <1>11,
     <1>12, <1>13, <1>14, <1>15, <1>16 DEF Next, Rewrite

\* dirty_ops_ measures how far the snapshot lags.
LEMMA DirtyStep == MemoryInv /\ [Next]_vars => DirtyCountsLag'
<1> SUFFICES ASSUME MemoryInv, [Next]_vars PROVE DirtyCountsLag'
  OBVIOUS
<1> USE DEF MemoryInv, PhaseInv, LagInv, DirtyCountsLag, TypeOK, TypeFlags, TypeCounts, Phases
<1>1. CASE Load
  BY <1>1 DEF Load, disk
<1>2. CASE LoadEntry
  BY <1>2 DEF LoadEntry, disk, Larger
<1>3. CASE LoadDbDone
  BY <1>3 DEF LoadDbDone, memory, disk
<1>4. CASE RecoverLine
  BY <1>4 DEF RecoverLine, disk
<1>5. CASE RecoverDone
  <2>1. CASE added
    BY <1>5, <2>1 DEF RecoverDone, SaveDb
  <2>2. CASE ~added
    <3>1. dirty' = 0 /\ pending' = pending /\ db' = db /\ pending = db.pending
      BY <1>5, <2>2 DEF RecoverDone, NoSave
    <3> QED
      BY <3>1, BlockStoreAssumption
  <2> QED
    BY <2>1, <2>2
<1>6. CASE SaveDone
  <2>1. CASE phase = "closing"
    BY <1>6, <2>1 DEF SaveDone, Forget
  <2>2. CASE phase # "closing"
    <3>1. dirty' = 0 /\ db'.pending = pending'
      BY <1>6, <2>2 DEF SaveDone
    <3> QED
      BY <3>1, BlockStoreAssumption
  <2> QED
    BY <2>1, <2>2
<1>7. ASSUME NEW h \in Hashes, NEW r \in Reasons, Enqueue(h, r)
      PROVE DirtyCountsLag'
  <2>1. CASE saving'
    BY <2>1
  <2>2. CASE ~saving'
    <3>1. dirty' = dirty + 1 /\ dirty + 1 < KSaveEveryOps
      BY <1>7, <2>2, BlockStoreAssumption DEF Enqueue, MarkDirtyMaybeSave, SaveDb, NoSave
    <3> QED
      BY <3>1
  <2> QED
    BY <2>1, <2>2
<1>8. ASSUME NEW c \in Callers, ListBatch(c)
      PROVE DirtyCountsLag'
  BY <1>8 DEF ListBatch, disk
<1>9. ASSUME NEW c \in Callers, DropBatch(c)
      PROVE DirtyCountsLag'
  BY <1>9 DEF DropBatch, disk
<1>10. ASSUME NEW S \in SUBSET held["flush"], MarkSubmittedMany(S)
      PROVE DirtyCountsLag'
  BY <1>10 DEF MarkSubmittedMany, MarkDirtySave, SaveDb, IdsOf
<1>11. CASE Rewrite
  <2>1. CASE saving'
    BY <2>1
  <2>2. CASE ~saving'
    <3>0. ~MarkForwardedMany /\ ~DeferAllToNextStart
      BY <2>2 DEF MarkForwardedMany, DeferAllToNextStart, MarkDirtySave, SaveDb
    <3>1. dirty' = dirty + 1 /\ dirty + 1 < KSaveEveryOps
      <4>1. PICK e \in held["flush"], r \in Reasons : MarkPendingReason(e.id, r)
        BY <1>11, <3>0 DEF Rewrite
      <4>2. MarkDirtyMaybeSave
        BY <4>1 DEF MarkPendingReason
      <4> QED
        BY <2>2, <4>2, BlockStoreAssumption DEF MarkDirtyMaybeSave, SaveDb
    <3> QED
      BY <3>1
  <2> QED
    BY <2>1, <2>2
<1>12. CASE Flush
  BY <1>12 DEF Flush, memory, SaveDb
<1>13. CASE Destroy
  BY <1>13 DEF Destroy, SaveDb, NoSave, Forget, memory
<1>14. CASE Crash
  BY <1>14 DEF Crash, disk, Forget
<1>15. CASE CrashInAppend
  BY <1>15 DEF CrashInAppend, Forget
<1>16. CASE UNCHANGED vars
  BY <1>16 DEF vars
<1> QED
  BY <1>1, <1>2, <1>3, <1>4, <1>5, <1>6, <1>7, <1>8, <1>9, <1>10, <1>11,
     <1>12, <1>13, <1>14, <1>15, <1>16 DEF Next, Rewrite

\* The invariant holds before the first start.
LEMMA MemoryInvInit == Init => MemoryInv
<1> SUFFICES ASSUME Init PROVE MemoryInv
  OBVIOUS
<1> USE DEF Init, Discarded
<1>1. TypeFlags
  BY DEF TypeFlags, Phases
<1>2. TypeCounts /\ TypeBag
  BY DEF TypeCounts, TypeBag
<1>3. TypeDisk
  BY DEF TypeDisk, Snapshot
<1>4. PhaseInv
  BY DEF PhaseInv
<1>5. IdInv /\ StoreConsistent
  BY DEF IdInv, StoreConsistent, Distinct, HashesOf
<1>6. HeldIdsStable /\ DirtyCountsLag /\ LagInv
  BY DEF HeldIdsStable, DirtyCountsLag, LagInv
<1> QED
  BY <1>1, <1>2, <1>3, <1>4, <1>5, <1>6 DEF MemoryInv, TypeOK

\* Every step keeps all parts of the invariant.
LEMMA MemoryInvStep == MemoryInv /\ [Next]_vars => MemoryInv'
<1> SUFFICES ASSUME MemoryInv, [Next]_vars PROVE MemoryInv'
  OBVIOUS
<1>1. TypeOK' /\ PhaseInv' /\ IdInv' /\ LagInv'
  BY TypeStep, PhaseStep, IdStep, LagStep DEF MemoryInv
<1>2. HeldIdsStable' /\ DirtyCountsLag' /\ (hashIndex = HashesOf(pending))'
  BY HeldStep, DirtyStep, IndexStep
<1>3. StoreConsistent'
  BY <1>1, <1>2 DEF StoreConsistent, IdInv, Distinct
<1> QED
  BY <1>1, <1>2, <1>3 DEF MemoryInv

\* The store's variables keep their types, whatever operations and crashes
\* happen.
THEOREM TypeCorrect == Spec => []TypeOK
<1>1. Spec => []MemoryInv
  BY MemoryInvInit, MemoryInvStep, PTL DEF Spec
<1>2. MemoryInv => TypeOK
  BY DEF MemoryInv
<1> QED
  BY <1>1, <1>2, PTL

\* pending_, hash_index_ and next_id_ agree in every reachable state: no two
\* blocks share an id or a digest, also after any mix of torn snapshots and
\* log recovery.
THEOREM Consistency == Spec => []StoreConsistent
<1>1. Spec => []MemoryInv
  BY MemoryInvInit, MemoryInvStep, PTL DEF Spec
<1>2. MemoryInv => StoreConsistent
  BY DEF MemoryInv
<1> QED
  BY <1>1, <1>2, PTL

\* The ids that a flush or forwarder wave carries across its HTTP calls never
\* come to name another block.
THEOREM StableIds == Spec => []HeldIdsStable
<1>1. Spec => []MemoryInv
  BY MemoryInvInit, MemoryInvStep, PTL DEF Spec
<1>2. MemoryInv => HeldIdsStable
  BY DEF MemoryInv
<1> QED
  BY <1>1, <1>2, PTL

\* With the mutex free, dirty_ops_ = 0 means the snapshot holds the bag, and
\* fewer than kSaveEveryOps updates are ever unsaved.
THEOREM BoundedLag == Spec => []DirtyCountsLag
<1>1. Spec => []MemoryInv
  BY MemoryInvInit, MemoryInvStep, PTL DEF Spec
<1>2. MemoryInv => DirtyCountsLag
  BY DEF MemoryInv
<1> QED
  BY <1>1, <1>2, PTL

-----------------------------------------------------------------------------
(* Durability.                                                             *)

\* Only enqueue() writes the log; a crash inside an append can tear its end.
LEMMA LogFrame ==
  ASSUME TypeOK, [Next]_vars
  PROVE  \/ UNCHANGED <<jsonl, glued>> /\ tornTail' \in {tornTail, TRUE}
         \/ \E h \in Hashes, r \in Reasons : Enqueue(h, r)
  BY DEF Next, vars, memory, disk, Load, LoadEntry,
    LoadDbDone, RecoverLine, RecoverDone, SaveDone, ListBatch,
    DropBatch, MarkSubmittedMany, MarkPendingReason, MarkForwardedMany,
    DeferAllToNextStart, Flush, Destroy, Crash, CrashInAppend

\* With a clean end the log grows by one line, the block's.
LEMMA LogAppend ==
  ASSUME TypeOK, ~tornTail, NEW h \in Hashes, NEW r \in Reasons, Enqueue(h, r)
  PROVE  JsonlHashes' = JsonlHashes \cup {h}
<1> DEFINE rec == [id |-> nextId, hash |-> h, reason |-> r]
<1>1. jsonl' = Append(jsonl, rec)
  BY DEF Enqueue, AppendQueueJsonl
<1>2. rec \in Line /\ rec.hash = h
  BY DEF Line, TypeOK, TypeCounts
<1> HIDE DEF rec
<1>3. /\ Len(jsonl') = Len(jsonl) + 1
      /\ \A i \in 1..Len(jsonl) : jsonl'[i] = jsonl[i]
      /\ jsonl'[Len(jsonl) + 1] = rec
      /\ Len(jsonl) \in Nat
  BY <1>1, <1>2 DEF TypeOK, TypeDisk
<1> QED
  BY <1>2, <1>3 DEF JsonlHashes

\* What an append does to the log: behind a torn line the digest is glued.
LEMMA LogEffect ==
  ASSUME TypeOK, NEW h \in Hashes, NEW r \in Reasons, Enqueue(h, r)
  PROVE  /\ tornTail' = FALSE
         /\ tornTail => JsonlHashes' = JsonlHashes /\ glued' = glued \cup {h}
         /\ ~tornTail => JsonlHashes' = JsonlHashes \cup {h} /\ glued' = glued \ {h}
<1>1. tornTail' = FALSE
  BY DEF Enqueue, AppendQueueJsonl
<1>2. CASE tornTail
  BY <1>1, <1>2 DEF Enqueue, AppendQueueJsonl, JsonlHashes
<1>3. CASE ~tornTail
  <2>1. glued' = glued \ {h}
    BY <1>3 DEF Enqueue, AppendQueueJsonl
  <2> QED
    BY <1>1, <1>3, <2>1, LogAppend
<1> QED
  BY <1>2, <1>3

\* The log never loses a digest, and an appended one is in it or glued.
LEMMA LogGrows ==
  ASSUME TypeOK, [Next]_vars
  PROVE  /\ JsonlHashes \subseteq JsonlHashes'
         /\ JsonlHashes \cup glued \subseteq JsonlHashes' \cup glued'
<1>1. CASE UNCHANGED <<jsonl, glued>>
  BY <1>1 DEF JsonlHashes
<1>2. ASSUME NEW h \in Hashes, NEW r \in Reasons, Enqueue(h, r)
      PROVE  /\ JsonlHashes \subseteq JsonlHashes'
             /\ JsonlHashes \cup glued \subseteq JsonlHashes' \cup glued'
  <2>1. CASE tornTail
    BY <1>2, <2>1, LogEffect
  <2>2. CASE ~tornTail
    BY <1>2, <2>2, LogEffect
  <2> QED
    BY <2>1, <2>2
<1> QED
  BY <1>1, <1>2, LogFrame

\* The snapshot only ever holds what it held, nothing, or the bag.
LEMMA SnapshotFrame ==
  ASSUME MemoryInv, [Next]_vars
  PROVE  HashesOf(db'.pending) \subseteq HashesOf(db.pending) \cup hashIndex
<1>1. db' = db \/ db' = Discarded \/ db' = [next |-> nextId, pending |-> pending]
  BY DEF SaveDb, NoSave, MarkDirtyMaybeSave, MarkDirtySave, Next, vars, memory, disk, Load, LoadEntry,
    LoadDbDone, RecoverLine, RecoverDone, SaveDone, Enqueue, ListBatch,
    DropBatch, MarkSubmittedMany, MarkPendingReason, MarkForwardedMany,
    DeferAllToNextStart, Flush, Destroy, Crash, CrashInAppend
<1>2. hashIndex = HashesOf(pending)
  BY DEF MemoryInv, StoreConsistent
<1>3. HashesOf(Discarded.pending) = {}
  BY DEF Discarded, HashesOf
<1> QED
  BY <1>1, <1>2, <1>3

\* Where the digests in memory and the owed ones come from.
LEMMA IndexFrame ==
  ASSUME MemoryInv, [Next]_vars,
         ~ \E h \in Hashes, r \in Reasons : Enqueue(h, r)
  PROVE  /\ hashIndex' \subseteq hashIndex \cup HashesOf(db.pending) \cup JsonlHashes
         /\ owed' \subseteq owed
<1>1. CASE LoadEntry
  <2>1. toLoad \subseteq db.pending
    BY <1>1 DEF LoadEntry, MemoryInv, LagInv
  <2> QED
    BY <1>1, <2>1 DEF LoadEntry, HashesOf
<1>2. CASE RecoverLine
  <2>1. cursor \in 1..Len(jsonl)
    BY <1>2 DEF RecoverLine, MemoryInv, TypeOK, TypeCounts, TypeDisk
  <2> QED
    BY <1>2, <2>1 DEF RecoverLine, JsonlHashes
<1>3. CASE ~LoadEntry /\ ~RecoverLine
  BY <1>3 DEF Forget, Next, vars, memory, disk, Load, LoadDbDone, RecoverDone, SaveDone, ListBatch,
    DropBatch, MarkSubmittedMany, MarkPendingReason, MarkForwardedMany,
    DeferAllToNextStart, Flush, Destroy, Crash, CrashInAppend
<1> QED
  BY <1>1, <1>2, <1>3

\* Everything in memory, in the snapshot or owed stays covered by the log.
LEMMA CoverStep ==
  ASSUME LogCovers, MemoryInv, [Next]_vars
  PROVE  LogCovers'
<1>1. HashesOf(db'.pending) \subseteq JsonlHashes \cup glued
  BY SnapshotFrame DEF LogCovers
<1>2. JsonlHashes \cup glued \subseteq JsonlHashes' \cup glued'
  BY LogGrows DEF MemoryInv
<1>3. ASSUME NEW h \in Hashes, NEW r \in Reasons, Enqueue(h, r) PROVE LogCovers'
  <2>1. hashIndex' = hashIndex \cup {h} /\ owed' = owed \cup {h}
    BY <1>3 DEF Enqueue
  <2>2. h \in JsonlHashes' \cup glued'
    BY <1>3, LogEffect DEF MemoryInv
  <2> QED
    BY <1>1, <1>2, <2>1, <2>2 DEF LogCovers
<1>4. CASE ~ \E h \in Hashes, r \in Reasons : Enqueue(h, r)
  BY <1>1, <1>2, <1>4, IndexFrame DEF LogCovers
<1> QED
  BY <1>3, <1>4

\* recover_jsonl has the lines it has read in the index.
LEMMA RecoverStep ==
  ASSUME RecoveredSoFar, MemoryInv, [Next]_vars
  PROVE  RecoveredSoFar'
<1> SUFFICES ASSUME phase' = "loadJsonl"
             PROVE  \A i \in 1..(cursor' - 1) : jsonl'[i].hash \in hashIndex'
  BY DEF RecoveredSoFar
<1>1. LoadDbDone \/ RecoverLine \/ (phase = "loadJsonl" /\ UNCHANGED <<cursor, jsonl, hashIndex>>)
  BY DEF Forget, MemoryInv, PhaseInv, Next, vars, memory, disk, Load, LoadEntry,
    LoadDbDone, RecoverLine, RecoverDone, SaveDone, Enqueue, ListBatch,
    DropBatch, MarkSubmittedMany, MarkPendingReason, MarkForwardedMany,
    DeferAllToNextStart, Flush, Destroy, Crash, CrashInAppend
<1>2. CASE LoadDbDone
  <2>1. cursor' = 1
    BY <1>2 DEF LoadDbDone, memory, MemoryInv, PhaseInv
  <2> QED
    BY <2>1
<1>3. CASE RecoverLine
  <2>1. /\ phase = "loadJsonl" /\ jsonl' = jsonl
        /\ cursor \in Nat /\ cursor' = cursor + 1
        /\ hashIndex \subseteq hashIndex' /\ jsonl[cursor].hash \in hashIndex'
    BY <1>3 DEF RecoverLine, disk, MemoryInv, TypeOK, TypeCounts
  <2> QED
    BY <2>1 DEF RecoveredSoFar
<1>4. CASE phase = "loadJsonl" /\ UNCHANGED <<cursor, jsonl, hashIndex>>
  BY <1>4 DEF RecoveredSoFar
<1> QED
  BY <1>1, <1>2, <1>3, <1>4

\* Before recovery starts the index is the snapshot's; it adds logged digests.
LEMMA SnapshotStep ==
  ASSUME SnapshotLoaded, MemoryInv, [Next]_vars
  PROVE  SnapshotLoaded'
<1> SUFFICES ASSUME phase' = "loadJsonl"
             PROVE  /\ HashesOf(db'.pending) \subseteq hashIndex'
                    /\ hashIndex' \subseteq JsonlHashes' \cup HashesOf(db'.pending)
  BY DEF SnapshotLoaded
<1>1. \/ LoadDbDone \/ RecoverLine
      \/ phase = "loadJsonl" /\ UNCHANGED <<db, jsonl, hashIndex>>
  BY DEF Forget, MemoryInv, PhaseInv, Next, vars, memory, disk, Load, LoadEntry,
    LoadDbDone, RecoverLine, RecoverDone, SaveDone, Enqueue, ListBatch,
    DropBatch, MarkSubmittedMany, MarkPendingReason, MarkForwardedMany,
    DeferAllToNextStart, Flush, Destroy, Crash, CrashInAppend
<1>2. CASE LoadDbDone
  <2>1. /\ phase = "loadDb" /\ toLoad = {}
        /\ hashIndex' = hashIndex /\ db' = db
    BY <1>2 DEF LoadDbDone, memory, disk
  <2>2. pending = db.pending
    BY <2>1 DEF MemoryInv, LagInv
  <2>3. hashIndex = HashesOf(db.pending)
    BY <2>2 DEF MemoryInv, StoreConsistent
  <2> QED
    BY <2>1, <2>3
<1>3. CASE RecoverLine
  <2>1. cursor \in 1..Len(jsonl)
    BY <1>3 DEF RecoverLine, MemoryInv, TypeOK, TypeCounts, TypeDisk
  <2>2. jsonl[cursor].hash \in JsonlHashes
    BY <2>1 DEF JsonlHashes
  <2>3. /\ phase = "loadJsonl" /\ jsonl' = jsonl /\ db' = db
        /\ hashIndex \subseteq hashIndex'
        /\ hashIndex' \subseteq hashIndex \cup {jsonl[cursor].hash}
    BY <1>3 DEF RecoverLine, disk
  <2>4. JsonlHashes' = JsonlHashes
    BY <2>3 DEF JsonlHashes
  <2> QED
    BY <2>2, <2>3, <2>4 DEF SnapshotLoaded
<1>4. CASE phase = "loadJsonl" /\ UNCHANGED <<db, jsonl, hashIndex>>
  BY <1>4 DEF SnapshotLoaded, JsonlHashes
<1> QED
  BY <1>1, <1>2, <1>3, <1>4

\* At the end of the log recovery has brought back every line of it.
LEMMA LogRecovered ==
  ASSUME LogInv, MemoryInv, RecoverDone
  PROVE  hashIndex = JsonlHashes \cup HashesOf(db.pending)
<1>1. phase = "loadJsonl" /\ cursor = Len(jsonl) + 1
  BY DEF RecoverDone
<1>2. Len(jsonl) \in Nat
  BY DEF MemoryInv, TypeOK, TypeDisk
<1>3. JsonlHashes \subseteq hashIndex
  BY <1>1, <1>2 DEF LogInv, RecoveredSoFar, JsonlHashes
<1> QED
  BY <1>1, <1>3 DEF LogInv, SnapshotLoaded

\* In service the bag holds what is owed and not glued: recovery reaches the
\* end of the log before service starts, and mark_submitted_many removes by
\* stable ids.
LEMMA ServeStep ==
  ASSUME LogInv, MemoryInv, [Next]_vars
  PROVE  ServesOwed'
<1> SUFFICES ASSUME phase' \in {"run", "closing"}
             PROVE  owed' \ glued' \subseteq hashIndex'
  BY DEF ServesOwed
<1>1. CASE RecoverDone
  <2>1. UNCHANGED <<owed, glued, hashIndex>>
    BY <1>1 DEF RecoverDone
  <2> QED
    BY <1>1, <2>1, LogRecovered DEF LogInv, LogCovers
<1>2. ASSUME NEW h \in Hashes, NEW r \in Reasons, Enqueue(h, r)
      PROVE  owed' \ glued' \subseteq hashIndex'
  <2>1. /\ phase = "run" /\ hashIndex' = hashIndex \cup {h}
        /\ owed' = owed \cup {h}
    BY <1>2 DEF Enqueue
  <2>2. glued \ {h} \subseteq glued'
    BY <1>2, LogEffect DEF MemoryInv
  <2> QED
    BY <2>1, <2>2 DEF LogInv, ServesOwed
<1>3. CASE \E S \in SUBSET held["flush"] : MarkSubmittedMany(S)
  <2>1. PICK S \in SUBSET held["flush"] : MarkSubmittedMany(S)
    BY <1>3
  <2> DEFINE gone == {e \in pending : e.id \in IdsOf(S)}
  <2>2. /\ hashIndex' = hashIndex \ HashesOf(gone)
        /\ owed' = owed \ HashesOf(S) /\ phase = "run" /\ glued' = glued
    BY <2>1 DEF MarkSubmittedMany
  <2>3. HashesOf(gone) \subseteq HashesOf(S)
    BY DEF MemoryInv, HeldIdsStable, HashesOf, IdsOf
  <2> QED
    BY <2>2, <2>3 DEF LogInv, ServesOwed
<1>4. CASE /\ ~RecoverDone
           /\ ~ \E h \in Hashes, r \in Reasons : Enqueue(h, r)
           /\ ~ \E S \in SUBSET held["flush"] : MarkSubmittedMany(S)
  <2>1. phase \in {"run", "closing"} /\ UNCHANGED <<owed, hashIndex, glued>>
    BY <1>4 DEF Forget, Next, vars, memory, disk, Load, LoadEntry,
    LoadDbDone, RecoverLine, SaveDone, ListBatch,
    DropBatch, MarkPendingReason, MarkForwardedMany,
    DeferAllToNextStart, Flush, Destroy, Crash, CrashInAppend
  <2> QED
    BY <2>1 DEF LogInv, ServesOwed
<1> QED
  BY <1>1, <1>2, <1>3, <1>4

\* The invariant about the log holds before the first start.
LEMMA LogInvInit == Init => LogInv
  BY DEF Init, LogInv, LogCovers, ServesOwed, RecoveredSoFar, SnapshotLoaded,
    HashesOf, Discarded

\* Every step keeps the invariant about the log.
LEMMA LogInvStep == MemoryInv /\ LogInv /\ [Next]_vars => LogInv'
  BY CoverStep, RecoverStep, ServeStep, SnapshotStep DEF LogInv

\* Whatever crashes happen, torn appends included, a store in service holds
\* every accepted block that was not marked submitted, but for those whose line
\* was appended to what a crash had left of another.
THEOREM Durability == Spec => []BagNeverLoses
<1>1. Spec => [](MemoryInv /\ LogInv)
  <2>1. MemoryInv /\ LogInv /\ [Next]_vars => MemoryInv' /\ LogInv'
    BY MemoryInvStep, LogInvStep
  <2> QED
    BY <2>1, MemoryInvInit, LogInvInit, PTL DEF Spec
<1>2. MemoryInv /\ LogInv => BagNeverLoses
  BY DEF MemoryInv, StoreConsistent, LogInv, ServesOwed, BagNeverLoses
<1> QED
  BY <1>1, <1>2, PTL

-----------------------------------------------------------------------------
(* The store implements Bag.                                               *)

\* Before the first start nothing is listed.
LEMMA WaveListedInit == Init => WaveListed
  BY DEF Init, WaveListed, Callers

\* Only mark_submitted_many takes blocks out, and out of the wave too; ids are
\* unique, so it takes no block that stays in the wave.
LEMMA WaveListedStep == MemoryInv /\ WaveListed /\ [Next]_vars => WaveListed'
<1> SUFFICES ASSUME MemoryInv, WaveListed, [Next]_vars PROVE WaveListed'
  OBVIOUS
<1>1. CASE Load \/ LoadEntry \/ LoadDbDone \/ RecoverLine
  BY <1>1 DEF Load, LoadEntry, LoadDbDone, RecoverLine, memory, MemoryInv,
     PhaseInv, WaveListed, Callers
<1>2. CASE RecoverDone \/ SaveDone \/ Flush \/ Destroy \/ Crash \/ CrashInAppend
  BY <1>2 DEF RecoverDone, SaveDone, Flush, Destroy, Crash, CrashInAppend,
     memory, Forget, WaveListed, Callers
<1>3. ASSUME NEW h \in Hashes, NEW r \in Reasons, Enqueue(h, r)
      PROVE  WaveListed'
  BY <1>3 DEF Enqueue, WaveListed
<1>4. ASSUME NEW c \in Callers, ListBatch(c) \/ DropBatch(c)
      PROVE  WaveListed'
  BY <1>4 DEF ListBatch, DropBatch, WaveListed, Callers, MemoryInv, TypeOK, TypeBag
<1>5. ASSUME NEW S \in SUBSET held["flush"], MarkSubmittedMany(S)
      PROVE  WaveListed'
  <2>1. /\ pending' = pending \ {e \in pending : e.id \in IdsOf(S)}
        /\ held'["flush"] = held["flush"] \ S
    BY <1>5 DEF MarkSubmittedMany, MemoryInv, TypeOK, TypeBag, Callers
  <2> SUFFICES ASSUME NEW k \in held["flush"], k \notin S
               PROVE  \E p \in pending' : p.id = k.id /\ p.hash = k.hash
    BY <2>1 DEF WaveListed
  <2>2. PICK p \in pending : p.id = k.id /\ p.hash = k.hash
    BY DEF WaveListed
  <2>3. ASSUME NEW j \in S, j.id = k.id PROVE FALSE
    <3>1. j.hash = p.hash
      BY <2>2, <2>3 DEF MemoryInv, HeldIdsStable, Callers
    <3>2. j \in Handle /\ k \in Handle
      BY DEF MemoryInv, TypeOK, TypeBag, Callers
    <3>3. j = k
      BY <2>2, <2>3, <3>1, <3>2 DEF Handle
    <3> QED
      BY <3>3
  <2>4. p.id \notin IdsOf(S)
    BY <2>2, <2>3 DEF IdsOf
  <2> QED
    BY <2>1, <2>2, <2>4
<1>6. CASE Rewrite
  <2>1. SameKeys(pending, pending')
    BY <1>6, RewriteKeys DEF MemoryInv, StoreConsistent
  <2>2. held'["flush"] = held["flush"]
    BY <1>6 DEF Rewrite, MarkPendingReason, MarkForwardedMany,
       DeferAllToNextStart, MemoryInv, TypeOK, TypeBag, Callers
  <2> QED
    BY <2>1, <2>2 DEF SameKeys, WaveListed
<1>7. CASE UNCHANGED vars
  BY <1>7 DEF vars, WaveListed
<1> QED
  BY <1>1, <1>2, <1>3, <1>4, <1>5, <1>6, <1>7 DEF Next, Rewrite

\* What is listed are digests of blocks in the bag.
LEMMA WaveInView ==
  ASSUME MemoryInv, WaveListed
  PROVE  HashesOf(held["flush"]) \subseteq hashIndex /\ hashIndex \subseteq Hashes
  BY DEF MemoryInv, StoreConsistent, WaveListed, HashesOf, TypeOK, TypeBag

\* The initial bag is the initial set.
LEMMA BagInit == Init => Abstract!Init
  BY DEF Init, Abstract!Init, Serving, BagView, JsonlHashes, Discarded, HashesOf,
     Callers

\* Enqueue is Put, behind a torn line as well.
LEMMA EnqueueIsPut ==
  ASSUME MemoryInv, MemoryInv', NEW h \in Hashes, NEW r \in Reasons, Enqueue(h, r)
  PROVE  Abstract!Put(h)
<1>1. hashIndex = HashesOf(pending) /\ hashIndex' = HashesOf(pending')
  BY DEF MemoryInv, StoreConsistent
<1>2. /\ phase = "run" /\ phase' = "run"
      /\ h \notin hashIndex /\ hashIndex' = hashIndex \cup {h}
      /\ owed' = owed \cup {h} /\ held' = held
  BY DEF Enqueue
<1>3. /\ Serving /\ Serving'
      /\ h \notin BagView /\ BagView' = BagView \cup {h}
  BY <1>1, <1>2 DEF BagView, Serving
<1>4. Serving' = Serving
  BY <1>3
<1>5. CASE tornTail
  BY <1>2, <1>3, <1>4, <1>5, LogEffect DEF Abstract!Put, MemoryInv
<1>6. CASE ~tornTail
  BY <1>2, <1>3, <1>4, <1>6, LogEffect DEF Abstract!Put, MemoryInv
<1> QED
  BY <1>5, <1>6

\* list_flush_batch is List.
LEMMA FlushListIsList ==
  ASSUME MemoryInv, MemoryInv', ListBatch("flush")
  PROVE  \E S \in SUBSET Hashes : Abstract!List(S)
<1>1. PICK S \in SUBSET pending :
        /\ S # {}
        /\ held' = [held EXCEPT !["flush"] =
                       {[id |-> e.id, hash |-> e.hash] : e \in S}]
  BY DEF ListBatch
<1> DEFINE T == HashesOf(S)
<1>2. held'["flush"] = {[id |-> e.id, hash |-> e.hash] : e \in S}
  BY <1>1 DEF MemoryInv, TypeOK, TypeBag, Callers
<1>3. HashesOf(held'["flush"]) = T
  <2> DEFINE handle(e) == [id |-> e.id, hash |-> e.hash]
  <2>1. \A k \in held'["flush"] : \E e \in S : k.hash = e.hash
    BY <1>2
  <2>2. \A e \in S : handle(e) \in held'["flush"] /\ handle(e).hash = e.hash
    BY <1>2
  <2> QED
    BY <2>1, <2>2 DEF HashesOf
<1>4. T # {} /\ T \subseteq HashesOf(pending)
  BY <1>1 DEF HashesOf
<1>5. HashesOf(pending) \subseteq Hashes
  BY DEF MemoryInv, StoreConsistent, TypeOK, TypeBag
<1>6. /\ phase = "run" /\ held["flush"] = {} /\ HashesOf(held["flush"]) = {}
      /\ UNCHANGED <<phase, pending, owed, glued, jsonl, tornTail>>
  BY DEF ListBatch, disk, HashesOf
<1>7. Serving /\ BagView = HashesOf(pending) /\ UNCHANGED <<Serving, BagView>>
  BY <1>6 DEF Serving, BagView
<1>8. JsonlHashes' = JsonlHashes
  BY <1>6 DEF JsonlHashes
<1> HIDE DEF T
<1>9. Abstract!List(T)
  BY <1>3, <1>4, <1>6, <1>7, <1>8 DEF Abstract!List
<1> QED
  BY <1>4, <1>5, <1>9

\* The end of a wave is GiveUp.
LEMMA DropIsGiveUp ==
  ASSUME MemoryInv, DropBatch("flush")
  PROVE  Abstract!GiveUp
<1>1. /\ phase = "run" /\ held'["flush"] = {}
      /\ UNCHANGED <<phase, pending, db, owed, glued, jsonl, tornTail>>
  BY DEF DropBatch, disk, MemoryInv, TypeOK, TypeBag, Callers
<1>2. Serving /\ UNCHANGED <<Serving, BagView, JsonlHashes>>
  BY <1>1 DEF Serving, BagView, JsonlHashes
<1>3. HashesOf(held'["flush"]) = {}
  BY <1>1 DEF HashesOf
<1> QED
  BY <1>1, <1>2, <1>3 DEF Abstract!GiveUp

\* mark_submitted_many is Take: by unique ids it removes the blocks reported,
\* and no other.
LEMMA MarkIsTake ==
  ASSUME MemoryInv, MemoryInv', WaveListed, NEW S \in SUBSET held["flush"],
         MarkSubmittedMany(S)
  PROVE  Abstract!Take(HashesOf(S))
<1> DEFINE T == HashesOf(S)
           gone == {e \in pending : e.id \in IdsOf(S)}
           wave == HashesOf(held["flush"])
<1>1. /\ phase = "run" /\ S # {}
      /\ hashIndex' = hashIndex \ HashesOf(gone)
      /\ held'["flush"] = held["flush"] \ S
      /\ owed' = owed \ T
      /\ UNCHANGED <<phase, glued, jsonl, tornTail>>
  BY DEF MarkSubmittedMany, MemoryInv, TypeOK, TypeBag, Callers
<1>2. HashesOf(gone) = T
  <2>1. HashesOf(gone) \subseteq T
    BY DEF MemoryInv, HeldIdsStable, HashesOf, IdsOf, Callers
  <2>2. T \subseteq HashesOf(gone)
    BY DEF WaveListed, HashesOf, IdsOf
  <2> QED
    BY <2>1, <2>2
<1>3. ASSUME NEW j \in held["flush"], NEW k \in held["flush"], j.hash = k.hash
      PROVE  j = k
  <2>1. PICK p \in pending : p.id = j.id /\ p.hash = j.hash
    BY DEF WaveListed
  <2>2. PICK q \in pending : q.id = k.id /\ q.hash = k.hash
    BY DEF WaveListed
  <2>3. p = q
    BY <1>3, <2>1, <2>2 DEF MemoryInv, StoreConsistent, Distinct
  <2>4. j \in Handle /\ k \in Handle
    BY DEF MemoryInv, TypeOK, TypeBag, Callers
  <2> QED
    BY <1>3, <2>1, <2>2, <2>3, <2>4 DEF Handle
<1>4. HashesOf(held["flush"] \ S) = wave \ T
  BY <1>3 DEF HashesOf
<1>5. T # {} /\ T \subseteq wave
  BY <1>1 DEF HashesOf
<1>6. BagView = hashIndex /\ BagView' = hashIndex' /\ Serving /\ Serving' = Serving
  BY <1>1 DEF Serving, BagView, MemoryInv, StoreConsistent
<1>7. JsonlHashes' = JsonlHashes
  BY <1>1 DEF JsonlHashes
<1>8. HashesOf(held["flush"])' = wave \ T
  BY <1>1, <1>4
<1>9. BagView' = BagView \ T
  BY <1>1, <1>2, <1>6
<1> HIDE DEF T, wave
<1>10. Abstract!Take(T)
  BY <1>1, <1>5, <1>6, <1>7, <1>8, <1>9 DEF Abstract!Take, wave
<1> QED
  BY <1>10 DEF T

\* The end of service is Stop: of what the snapshot has and the log has not,
\* all is glued.
LEMMA EndIsStop ==
  ASSUME LogInv', UNCHANGED <<jsonl, glued, owed>>, tornTail' \in {tornTail, TRUE},
         held'["flush"] = {}, Serving, ~Serving'
  PROVE  Abstract!Stop
<1> DEFINE S == HashesOf(db'.pending) \ JsonlHashes
<1>1. JsonlHashes' = JsonlHashes
  BY DEF JsonlHashes
<1>2. S \in SUBSET glued
  BY <1>1 DEF LogInv, LogCovers
<1>3. BagView' = JsonlHashes \cup S
  BY <1>1 DEF BagView
<1>4. HashesOf(held'["flush"]) = {}
  BY DEF HashesOf
<1>5. Serving' = FALSE
  BY DEF Serving
<1> HIDE DEF S
<1> QED
  BY <1>1, <1>2, <1>3, <1>4, <1>5 DEF Abstract!Stop

\* The end of recovery is Start: it has found what there was to find.
LEMMA RecoveryIsStart ==
  ASSUME MemoryInv, LogInv, MemoryInv', RecoverDone
  PROVE  Abstract!Start
<1>1. /\ phase = "loadJsonl" /\ phase' = "run"
      /\ UNCHANGED <<hashIndex, held, jsonl, tornTail, glued, owed>>
  BY DEF RecoverDone
<1>2. BagView = hashIndex
  BY <1>1, LogRecovered DEF BagView, Serving
<1>3. BagView' = hashIndex'
  BY <1>1 DEF BagView, Serving, MemoryInv, StoreConsistent
<1>4. ~Serving /\ Serving' = TRUE /\ JsonlHashes' = JsonlHashes
  BY <1>1 DEF Serving, JsonlHashes
<1> QED
  BY <1>1, <1>2, <1>3, <1>4 DEF Abstract!Start

\* The steps that Bag speaks of.
VisibleInBag ==
    \/ \E h \in Hashes, r \in Reasons : Enqueue(h, r)
    \/ ListBatch("flush") \/ DropBatch("flush")
    \/ \E S \in SUBSET held["flush"] : MarkSubmittedMany(S)
    \/ RecoverDone

\* Any other step leaves the view alone, unless it ends the service.
LEMMA OtherSteps ==
  ASSUME MemoryInv, MemoryInv', LogInv', [Next]_vars, ~VisibleInBag
  PROVE  [Abstract!Next]_(Abstract!bagVars)
<1>1. UNCHANGED <<jsonl, glued, owed>> /\ tornTail' \in {tornTail, TRUE}
  BY DEF VisibleInBag, Next, vars, memory, disk, Load, LoadEntry, LoadDbDone,
     RecoverLine, SaveDone, ListBatch, DropBatch, MarkPendingReason,
     MarkForwardedMany, DeferAllToNextStart, Flush, Destroy, Crash,
     CrashInAppend, Callers
<1>2. JsonlHashes' = JsonlHashes
  BY <1>1 DEF JsonlHashes
<1>3. held'["flush"] = held["flush"] \/ held'["flush"] = {}
  BY DEF VisibleInBag, Next, vars, memory, disk, Load, LoadEntry, LoadDbDone,
     RecoverLine, SaveDone, ListBatch, DropBatch, MarkPendingReason,
     MarkForwardedMany, DeferAllToNextStart, Flush, Destroy, Crash,
     CrashInAppend, Forget, Callers, MemoryInv, TypeOK, TypeBag
<1>4. ~Serving => ~Serving' /\ db' = db /\ tornTail' = tornTail
  BY DEF Serving, VisibleInBag, MemoryInv, PhaseInv, Next, vars, memory, disk,
     Load, LoadEntry, LoadDbDone, RecoverLine, SaveDone, ListBatch,
     DropBatch, MarkSubmittedMany, MarkPendingReason, MarkForwardedMany,
     DeferAllToNextStart, Flush, Destroy, Crash, CrashInAppend, Forget,
     TypeOK, TypeFlags, Phases
<1>5. Serving /\ Serving' =>
        hashIndex' = hashIndex /\ tornTail' = tornTail /\ held'["flush"] = held["flush"]
  BY DEF Serving, VisibleInBag, Next, vars, memory, disk, Load, LoadEntry,
     LoadDbDone, RecoverLine, SaveDone, ListBatch, DropBatch,
     MarkPendingReason, MarkForwardedMany, DeferAllToNextStart, Flush, Destroy,
     Crash, CrashInAppend, Forget, Callers, MemoryInv, TypeOK, TypeBag
<1>6. Serving /\ ~Serving' => held'["flush"] = {}
  BY DEF Serving, VisibleInBag, Next, vars, memory, disk, Load, LoadEntry,
     LoadDbDone, RecoverLine, SaveDone, ListBatch, DropBatch,
     MarkPendingReason, MarkForwardedMany, DeferAllToNextStart, Flush, Destroy,
     Crash, CrashInAppend, Forget, Callers
<1>7. CASE ~Serving
  <2>1. /\ ~Serving' /\ (Serving' <=> Serving)
        /\ db' = db /\ tornTail' = tornTail
    BY <1>4, <1>7
  <2>2. held["flush"] = {} /\ held'["flush"] = {}
    BY <1>7, <2>1 DEF Serving, MemoryInv, PhaseInv, TypeOK, TypeFlags, Phases, Callers
  <2>3. BagView' = BagView
    BY <1>2, <1>7, <2>1 DEF BagView
  <2>4. Serving' = Serving
    BY <2>1 DEF Serving
  <2> QED
    BY <1>1, <1>2, <2>1, <2>2, <2>3, <2>4 DEF Abstract!bagVars
<1>8. CASE Serving /\ ~Serving'
  BY <1>1, <1>6, <1>8, EndIsStop DEF Abstract!Next
<1>9. CASE Serving /\ Serving'
  <2>1. BagView' = BagView
    BY <1>5, <1>9 DEF BagView, MemoryInv, StoreConsistent
  <2>2. Serving' = Serving
    BY <1>9
  <2> QED
    BY <1>1, <1>2, <1>5, <1>9, <2>1, <2>2 DEF Abstract!bagVars
<1> QED
  BY <1>7, <1>8, <1>9

\* Every step of the store is one of Bag's, or invisible.
LEMMA BagStep ==
  ASSUME MemoryInv, LogInv, WaveListed, MemoryInv', LogInv', [Next]_vars
  PROVE  [Abstract!Next]_(Abstract!bagVars)
<1>1. ASSUME NEW h \in Hashes, NEW r \in Reasons, Enqueue(h, r)
      PROVE  Abstract!Next
  BY <1>1, EnqueueIsPut DEF Abstract!Next
<1>2. CASE ListBatch("flush")
  BY <1>2, FlushListIsList DEF Abstract!Next
<1>3. CASE DropBatch("flush")
  BY <1>3, DropIsGiveUp DEF Abstract!Next
<1>4. ASSUME NEW S \in SUBSET held["flush"], MarkSubmittedMany(S)
      PROVE  Abstract!Next
  <2>1. HashesOf(S) \in SUBSET Hashes
    BY WaveInView DEF HashesOf
  <2> QED
    BY <1>4, <2>1, MarkIsTake DEF Abstract!Next
<1>5. CASE RecoverDone
  BY <1>5, RecoveryIsStart DEF Abstract!Next
<1>6. CASE ~VisibleInBag
  BY <1>6, OtherSteps
<1> QED
  BY <1>1, <1>2, <1>3, <1>4, <1>5, <1>6 DEF VisibleInBag

\* The detailed store implements the set that Bag specifies: in service a block
\* leaves by a report on a listed block only, and neither a crash, wherever it
\* hits, nor a start, whatever the crash has left of snapshot and log, loses one
\* that was not glued to a torn line.
THEOREM Refinement == Spec => ImplementsBag
<1> DEFINE I == MemoryInv /\ LogInv /\ WaveListed
<1>1. I /\ [Next]_vars => I'
  BY MemoryInvStep, LogInvStep, WaveListedStep
<1>2. Init => I
  BY MemoryInvInit, LogInvInit, WaveListedInit
<1>3. I /\ I' /\ [Next]_vars => [Abstract!Next]_(Abstract!bagVars)
  BY BagStep
<1> HIDE DEF I
<1>4. Spec => []I
  BY <1>1, <1>2, PTL DEF Spec
<1> QED
  BY <1>3, <1>4, BagInit, PTL DEF Spec, ImplementsBag, Abstract!Spec

-----------------------------------------------------------------------------
(* The composition is a store.                                             *)

\* A step of the forwarder is an operation of the store or none at all.
LEMMA ForwardingIsStoreStep == Forwarding => [Next]_vars
  BY DEF Forwarding, LoopTest, ListWave, PostStored, PostFails, MarkWave,
     WaitEnds, Next, Callers

\* Every step of the composition is one of the store's, or leaves it alone.
LEMMA StepIsStoreStep == [FwdNext]_allVars => [Next]_vars
<1> SUFFICES ASSUME [FwdNext]_allVars PROVE [Next]_vars
  OBVIOUS
<1>1. CASE Others
  BY <1>1 DEF Others, StoreRuns, Next, Callers
<1>2. CASE DestroyStore \/ Die
  BY <1>2 DEF DestroyStore, Die, Next
<1>3. CASE Start \/ Stop
  BY <1>3 DEF Start, Stop
<1>4. CASE Forwarding
  BY <1>4, ForwardingIsStoreStep
<1>5. CASE UNCHANGED allVars
  BY <1>5 DEF allVars
<1> QED
  BY <1>1, <1>2, <1>3, <1>4, <1>5 DEF FwdNext

\* The forwarder uses the store only as BlockStore allows: what is proved of
\* Spec (TypeCorrect, Consistency, StableIds, BoundedLag, Durability and
\* Refinement) holds of the composition.
THEOREM ForwarderKeepsStore == FwdSpec => Spec
<1>1. FwdInit => Init
  BY DEF FwdInit
<1> QED
  BY <1>1, StepIsStoreStep, PTL DEF FwdSpec, Spec

-----------------------------------------------------------------------------
(* Marks.                                                                  *)

\* Where a forwarded mark may stand, and the digests it stands on.
Entries == pending \cup toLoad \cup db.pending
Marked == {e \in Entries : e.forwarded}

\* The operations other than mark_forwarded_many.
NoMarking ==
    \/ StoreRuns \/ ListBatch("forward") \/ DropBatch("forward")
    \/ Destroy \/ Crash \/ CrashInAppend
    \/ UNCHANGED vars

\* They set no mark: each marked entry was there before, with this digest.
LEMMA MarksMove ==
  ASSUME TypeOK, NoMarking
  PROVE  \A e \in Marked' : \E f \in Marked : f.hash = e.hash
<1> USE DEF Marked, Entries
<1> DEFINE Same == \A e \in Marked' : \E f \in Marked : f.hash = e.hash
<1>1. CASE Load \/ LoadEntry \/ LoadDbDone
  BY <1>1 DEF Load, LoadEntry, LoadDbDone, memory, disk
<1>2. CASE RecoverLine
  BY <1>2 DEF RecoverLine, disk
<1>3. CASE RecoverDone
  BY <1>3 DEF RecoverDone, SaveDb, NoSave, Discarded
<1>4. CASE SaveDone
  BY <1>4 DEF SaveDone, Forget
<1>5. ASSUME NEW h \in Hashes, NEW r \in Reasons, Enqueue(h, r) PROVE Same
  BY <1>5 DEF Enqueue, MarkDirtyMaybeSave, SaveDb, NoSave, Discarded
<1>6. ASSUME NEW c \in Callers, ListBatch(c) \/ DropBatch(c) PROVE Same
  BY <1>6 DEF ListBatch, DropBatch, disk
<1>7. ASSUME NEW S \in SUBSET held["flush"], MarkSubmittedMany(S) PROVE Same
  BY <1>7 DEF MarkSubmittedMany, MarkDirtySave, SaveDb, Discarded
<1>8. ASSUME NEW e \in held["flush"], NEW r \in Reasons,
             MarkPendingReason(e.id, r)
      PROVE Same
  BY <1>8 DEF MarkPendingReason, Update, WithReason, MarkDirtyMaybeSave, SaveDb,
     NoSave, Discarded
<1>9. CASE DeferAllToNextStart
  BY <1>9 DEF DeferAllToNextStart, Update, WithReason, MarkDirtySave, SaveDb,
     Discarded
<1>10. CASE Flush \/ Destroy
  BY <1>10 DEF Flush, Destroy, SaveDb, NoSave, Discarded, memory, Forget
<1>11. CASE Crash \/ CrashInAppend
  BY <1>11 DEF Crash, CrashInAppend, Forget, disk
<1>12. CASE UNCHANGED vars
  BY <1>12 DEF vars
<1> QED
  BY <1>1, <1>2, <1>3, <1>4, <1>5, <1>6, <1>7, <1>8, <1>9, <1>10, <1>11,
     <1>12 DEF NoMarking, StoreRuns, Callers

\* So they keep every mark true.
LEMMA MarksStayTrue ==
  ASSUME TypeOK, NoMarking, MarkedAreInVault, vault \subseteq vault'
  PROVE  MarkedAreInVault'
  BY MarksMove DEF MarkedAreInVault, Marked, Entries

\* mark_forwarded_many marks, by id, blocks of the wave: the ids still name
\* the blocks that the master has stored.
LEMMA MarkWaveTrue ==
  ASSUME VaultInv, HeldIdsStable, MarkWave
  PROVE  MarkedAreInVault'
<1> SUFFICES ASSUME NEW e \in (pending \cup toLoad \cup db.pending)', e.forwarded
             PROVE e.hash \in vault
  BY DEF MarkedAreInVault, MarkWave
<1>1. HashesOf(held["forward"]) \subseteq vault
  BY DEF VaultInv, AnsweredIsStored, MarkWave
<1>2. CASE e \in pending'
  <2>1. PICK p \in pending :
           e = IF p.id \in IdsOf(held["forward"]) THEN WithForwarded(p) ELSE p
    BY <1>2 DEF MarkWave, MarkForwardedMany, Update
  <2>2. CASE p.id \in IdsOf(held["forward"])
    <3>1. PICK k \in held["forward"] : k.id = p.id
      BY <2>2 DEF IdsOf
    <3>2. p.hash = k.hash
      BY <3>1 DEF HeldIdsStable, Callers
    <3> QED
      BY <1>1, <2>1, <2>2, <3>2 DEF WithForwarded, HashesOf
  <2>3. CASE p.id \notin IdsOf(held["forward"])
    BY <2>1, <2>3 DEF VaultInv, MarkedAreInVault
  <2> QED
    BY <2>2, <2>3
<1>3. CASE e \in toLoad' \cup db'.pending
  BY <1>3 DEF VaultInv, MarkedAreInVault, MarkWave, MarkForwardedMany,
     MarkDirtySave, SaveDb, Discarded
<1> QED
  BY <1>2, <1>3

\* What a wave holds are digests.
LEMMA HeldHashes == TypeOK => HashesOf(held["forward"]) \subseteq Hashes
  BY DEF TypeOK, TypeBag, Handle, HashesOf, Callers

\* The types of the thread's own state.
LEMMA ThreadTypeStep ==
  ASSUME FwdTypeOK, [FwdNext]_allVars
  PROVE  fwd' \in Places /\ running' \in BOOLEAN /\ closing' \in BOOLEAN
  BY DEF FwdTypeOK, FwdNext, Others, DestroyStore, Die, Start, Stop, Forwarding,
     LoopTest, ListWave, PostStored, PostFails, MarkWave, WaitEnds, AfterWave,
     Places, fwdVars, allVars

LEMMA VaultTypeStep ==
  ASSUME FwdTypeOK, [FwdNext]_allVars
  PROVE  vault \subseteq vault' /\ vault' \subseteq Hashes
<1>1. HashesOf(held["forward"]) \subseteq Hashes
  BY HeldHashes DEF FwdTypeOK
<1> QED
  BY <1>1 DEF FwdTypeOK, FwdNext, Others, DestroyStore, Die, Start, Stop,
     Forwarding, LoopTest, ListWave, PostStored, PostFails, MarkWave, WaitEnds,
     fwdVars, allVars

\* Only the forwarder touches its wave, and it leaves "mark" with the marks.
LEMMA AnsweredStep ==
  ASSUME VaultInv, [FwdNext]_allVars
  PROVE  AnsweredIsStored'
<1> USE DEF VaultInv, AnsweredIsStored
<1>1. CASE Others
  <2>1. fwd' = fwd /\ vault' = vault
    BY <1>1 DEF Others, fwdVars
  <2>2. held'["forward"] = held["forward"] \/ held'["forward"] = {}
    BY <1>1 DEF Others, StoreRuns, Load, LoadEntry, LoadDbDone, RecoverLine,
       RecoverDone, SaveDone, Enqueue, ListBatch, DropBatch, MarkSubmittedMany,
       MarkPendingReason, DeferAllToNextStart, Flush, memory, Forget, Callers,
       FwdTypeOK, TypeOK, TypeBag
  <2> QED
    BY <2>1, <2>2 DEF HashesOf
<1>2. CASE DestroyStore \/ Die \/ Start
  BY <1>2 DEF DestroyStore, Die, Start
<1>3. CASE Stop \/ LoopTest \/ WaitEnds
  BY <1>3 DEF Stop, LoopTest, WaitEnds, vars
<1>4. CASE ListWave \/ PostFails \/ MarkWave
  BY <1>4 DEF ListWave, PostFails, MarkWave, AfterWave
<1>5. CASE PostStored
  BY <1>5 DEF PostStored, vars
<1>6. CASE UNCHANGED allVars
  BY <1>6 DEF allVars, vars, fwdVars
<1> QED
  BY <1>1, <1>2, <1>3, <1>4, <1>5, <1>6 DEF FwdNext, Forwarding

\* Every step keeps the marks true.
LEMMA MarkedStep ==
  ASSUME VaultInv, HeldIdsStable, [FwdNext]_allVars
  PROVE  MarkedAreInVault'
<1> USE DEF VaultInv
<1>1. CASE MarkWave
  BY <1>1, MarkWaveTrue
<1>2. CASE ~MarkWave
  <2>1. NoMarking
    BY <1>2 DEF FwdNext, Others, DestroyStore, Die, Start, Stop, Forwarding,
       LoopTest, ListWave, PostStored, PostFails, WaitEnds, NoMarking, allVars
  <2> QED
    BY <2>1, VaultTypeStep, MarksStayTrue DEF FwdTypeOK
<1> QED
  BY <1>1, <1>2

LEMMA VaultInvInit == FwdInit => VaultInv
<1>1. FwdInit => TypeOK
  BY MemoryInvInit DEF FwdInit, MemoryInv
<1>2. FwdInit => AnsweredIsStored /\ MarkedAreInVault
  BY DEF FwdInit, Init, AnsweredIsStored, MarkedAreInVault, Discarded
<1> QED
  BY <1>1, <1>2 DEF FwdInit, VaultInv, FwdTypeOK, Places

LEMMA VaultInvStep == VaultInv /\ HeldIdsStable /\ [FwdNext]_allVars => VaultInv'
<1> SUFFICES ASSUME VaultInv, HeldIdsStable, [FwdNext]_allVars PROVE VaultInv'
  OBVIOUS
<1>1. TypeOK'
  BY StepIsStoreStep, TypeStep DEF VaultInv, FwdTypeOK
<1>2. FwdTypeOK'
  BY <1>1, ThreadTypeStep, VaultTypeStep DEF VaultInv, FwdTypeOK
<1> QED
  BY <1>2, AnsweredStep, MarkedStep DEF VaultInv

LEMMA VaultInvHolds == FwdSpec => []VaultInv
<1>1. FwdSpec => []HeldIdsStable
  BY ForwarderKeepsStore, StableIds, PTL
<1> QED
  BY <1>1, VaultInvInit, VaultInvStep, PTL DEF FwdSpec

\* The types of the store and of the forwarder's thread.
THEOREM ForwarderTypes == FwdSpec => []FwdTypeOK
<1>1. VaultInv => FwdTypeOK
  BY DEF VaultInv
<1> QED
  BY <1>1, VaultInvHolds, PTL

\* A block that carries the forwarded mark, in memory or in a snapshot, has
\* reached the vault: no interleaving with flush waves, enqueues and saves, no
\* crash and no recovery puts a mark on a block that was never sent.
THEOREM MarksAreTrue == FwdSpec => []MarkedAreInVault
<1>1. VaultInv => MarkedAreInVault
  BY DEF VaultInv
<1> QED
  BY <1>1, VaultInvHolds, PTL

=============================================================================
