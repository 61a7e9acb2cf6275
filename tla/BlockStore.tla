------------------------------ MODULE BlockStore ------------------------------
(***************************************************************************)
(* The on-disk bag of found blocks: class BlockStore, queue/store.cpp.     *)
(*                                                                         *)
(* Memory holds `pending` and the digest index; the disk holds a snapshot  *)
(* (miner_db) that is rewritten in place, and an append-only log           *)
(* (queue.jsonl).  Every operation runs under the mutex mu_, so each is    *)
(* one action; only the rewrite of the snapshot is split in two, because   *)
(* the file is truncated before it is written and the process can die in   *)
(* between.  `saving` is TRUE from the truncation to the write, and the    *)
(* mutex stays held, so no other operation runs meanwhile.                 *)
(*                                                                         *)
(* The two threads that read the bag and later act on what they read (the  *)
(* submit worker's flush and the bag forwarder) work on copies taken with  *)
(* the mutex released in between: `held`.                                  *)
(***************************************************************************)
EXTENDS Integers, Sequences

CONSTANTS
    Hashes,         \* digests of found blocks (BlockHit::hash_str)
    Reasons,        \* values of queue_reason
    KSaveEveryOps,  \* store.hpp: kSaveEveryOps
    MaxId,          \* bound on the ids that enqueue hands out
    MaxRestarts     \* bound on the number of times the process starts

ASSUME BlockStoreAssumption ==
    /\ KSaveEveryOps \in Nat \ {0}
    /\ MaxId \in Nat
    /\ MaxRestarts \in Nat
    /\ Reasons # {}

VARIABLES
    phase,      \* where the process is: see Phases
    pending,    \* pending_: a set of entries
    hashIndex,  \* hash_index_
    nextId,     \* next_id_
    dirty,      \* dirty_ops_
    saving,     \* the snapshot is truncated and not yet rewritten
    toLoad,     \* snapshot entries that load() has still to append
    cursor,     \* queue.jsonl line that recover_jsonl reads next
    added,      \* recover_jsonl appended something
    held,       \* held[c]: id and digest of the blocks caller c works on
    db,         \* the snapshot file
    jsonl,      \* the log file, its complete lines
    tornTail,   \* the log ends in part of a line
    restarts,   \* number of starts so far
    \* history: digests whose last record completes a torn line; digests enqueued
    \* and not marked submitted since
    glued, owed

memory == <<pending, hashIndex, nextId, dirty, toLoad, cursor, added, held>>
disk == <<db, jsonl, tornTail, glued>>
vars == <<phase, pending, hashIndex, nextId, dirty, saving, toLoad, cursor,
          added, held, db, jsonl, tornTail, restarts, glued, owed>>

\* "down": no process; "loadDb", "loadJsonl": in the constructor;
\* "run": in service; "closing": the destructor's last save.
Phases == {"down", "loadDb", "loadJsonl", "run", "closing"}
Callers == {"flush", "forward"}

Entry == [id : Nat, hash : Hashes, reason : Reasons, forwarded : BOOLEAN]
Line == [id : Nat, hash : Hashes, reason : Reasons]
Snapshot == [next : Nat \ {0}, pending : SUBSET Entry]

WithReason(e, r) == [id |-> e.id, hash |-> e.hash, reason |-> r,
                     forwarded |-> e.forwarded]
WithForwarded(e) == [id |-> e.id, hash |-> e.hash, reason |-> e.reason,
                     forwarded |-> TRUE]

Handle == [id : Nat, hash : Hashes]   \* what a caller keeps of an entry

HashesOf(S) == {e.hash : e \in S}
IdsOf(S) == {e.id : e \in S}
JsonlHashes == {jsonl[i].hash : i \in 1..Len(jsonl)}
Larger(a, b) == IF a >= b THEN a ELSE b

\* What json::parse makes of a missing, empty or half-written file.
Discarded == [next |-> 1, pending |-> {}]

-----------------------------------------------------------------------------
(* Saving the snapshot.                                                    *)

\* std::ofstream(db_path_, trunc): the old snapshot is gone.
SaveDb == /\ saving' = TRUE
          /\ db' = Discarded

NoSave == UNCHANGED <<saving, db>>

\* The process ends and its memory with it.
Forget ==
    /\ phase' = "down"
    /\ pending' = {} /\ hashIndex' = {} /\ nextId' = 1 /\ dirty' = 0
    /\ toLoad' = {} /\ cursor' = 1 /\ added' = FALSE
    /\ held' = [c \in Callers |-> {}]

\* The write that ends save_db_unlocked; the destructor's save ends the process.
SaveDone ==
    /\ saving
    /\ saving' = FALSE
    /\ db' = [next |-> nextId, pending |-> pending]
    /\ \/ /\ phase = "closing"
          /\ Forget
       \/ /\ phase # "closing"
          /\ dirty' = 0
          /\ UNCHANGED <<phase, pending, hashIndex, nextId, toLoad, cursor,
                         added, held>>
    /\ UNCHANGED <<jsonl, tornTail, restarts, glued, owed>>

\* mark_dirty_unlocked(); maybe_save_unlocked();
MarkDirtyMaybeSave ==
    /\ dirty' = dirty + 1
    /\ IF dirty + 1 >= KSaveEveryOps THEN SaveDb ELSE NoSave

\* mark_dirty_unlocked(); save_db_unlocked();
MarkDirtySave == dirty' = dirty + 1 /\ SaveDb

\* An operation of the running store: it gets mu_ only when no save holds it.
InService == phase = "run" /\ ~saving

-----------------------------------------------------------------------------
(* Start: load() and recover_jsonl_unlocked().                             *)

\* The constructor parses the snapshot and starts with an empty bag.
Load ==
    /\ phase = "down"
    /\ restarts < MaxRestarts
    /\ restarts' = restarts + 1
    /\ phase' = "loadDb"
    /\ nextId' = db.next
    /\ toLoad' = db.pending
    /\ UNCHANGED <<pending, hashIndex, dirty, saving, cursor, added, held,
                   disk, owed>>

\* One round of the loop over root["pending"].  next_id_++ is an argument of
\* item.value(), so it is evaluated for every entry, also when "id" is there.
LoadEntry ==
    /\ phase = "loadDb"
    /\ \E e \in toLoad :
         /\ pending' = pending \cup {e}
         /\ hashIndex' = hashIndex \cup {e.hash}
         /\ nextId' = Larger(nextId + 1, e.id + 1)
         /\ toLoad' = toLoad \ {e}
    /\ UNCHANGED <<phase, dirty, saving, cursor, added, held, disk, restarts,
                   owed>>

\* Mutant: the log is read only when the snapshot has no blocks.
LoadDbDoneTrustsDb ==
    /\ phase = "loadDb" /\ toLoad = {}
    /\ phase' = "loadJsonl"
    /\ cursor' = IF pending = {} THEN 1 ELSE Len(jsonl) + 1
    /\ UNCHANGED <<pending, hashIndex, nextId, dirty, toLoad, added, held,
                   saving, disk, restarts, owed>>

LoadDbDone ==
    /\ phase = "loadDb" /\ toLoad = {}
    /\ phase' = "loadJsonl"
    /\ UNCHANGED <<memory, saving, disk, restarts, owed>>

\* The id of a recovered entry: the logged one unless it is taken.
RecoveredId(rec) ==
    IF rec.id < 1 \/ rec.id \in IdsOf(pending) THEN nextId ELSE rec.id

\* Mutant: recovery forgets next_id_ = max(next_id_, pb.id + 1).
RecoverLineKeepsNextId ==
    /\ phase = "loadJsonl"
    /\ cursor <= Len(jsonl)
    /\ cursor' = cursor + 1
    /\ LET rec == jsonl[cursor] IN
       IF rec.hash \in hashIndex
       THEN UNCHANGED <<pending, hashIndex, added>>
       ELSE /\ pending' = pending \cup {[id |-> RecoveredId(rec), hash |-> rec.hash,
                                          reason |-> rec.reason,
                                          forwarded |-> FALSE]}
            /\ hashIndex' = hashIndex \cup {rec.hash}
            /\ added' = TRUE
    /\ UNCHANGED <<phase, nextId, dirty, saving, toLoad, held, disk, restarts,
                   owed>>

\* One round of the loop over queue.jsonl: a known digest is skipped.
RecoverLine ==
    /\ phase = "loadJsonl"
    /\ cursor <= Len(jsonl)
    /\ cursor' = cursor + 1
    /\ LET rec == jsonl[cursor]
           id == RecoveredId(rec) IN
       IF rec.hash \in hashIndex
       THEN UNCHANGED <<pending, hashIndex, nextId, added>>
       ELSE /\ pending' = pending \cup {[id |-> id, hash |-> rec.hash,
                                          reason |-> rec.reason,
                                          forwarded |-> FALSE]}
            /\ hashIndex' = hashIndex \cup {rec.hash}
            /\ nextId' = Larger(nextId, id + 1)
            /\ added' = TRUE
    /\ UNCHANGED <<phase, dirty, saving, toLoad, held, disk, restarts, owed>>

\* End of the log (a torn tail does not parse and is skipped).  The store is
\* in service once the save, if there is one, releases it.
RecoverDone ==
    /\ phase = "loadJsonl"
    /\ cursor = Len(jsonl) + 1
    /\ phase' = "run"
    /\ IF added THEN SaveDb ELSE NoSave
    /\ cursor' = 1 /\ added' = FALSE
    /\ UNCHANGED <<pending, hashIndex, nextId, dirty, toLoad, held, jsonl,
                   tornTail, restarts, glued, owed>>

-----------------------------------------------------------------------------
(* Operations of the running store.                                        *)

\* Mutant: enqueue_unlocked called with write_jsonl = false.
SkipQueueJsonl(rec) == UNCHANGED <<jsonl, tornTail, glued>>

\* append_queue_jsonl: behind a torn tail the record completes that line,
\* which then does not parse, and the record is not readable again.
AppendQueueJsonl(rec) ==
    /\ jsonl' = IF tornTail THEN jsonl ELSE Append(jsonl, rec)
    /\ tornTail' = FALSE
    /\ glued' = IF tornTail THEN glued \cup {rec.hash} ELSE glued \ {rec.hash}

\* enqueue (also through queue_hit, record_rejection and the bagging of the
\* live queue).  A digest that is already bagged is refused (returns 0).
Enqueue(h, r) ==
    /\ InService
    /\ h \notin hashIndex
    /\ nextId <= MaxId
    /\ nextId' = nextId + 1
    /\ hashIndex' = hashIndex \cup {h}
    /\ AppendQueueJsonl([id |-> nextId, hash |-> h, reason |-> r])
    /\ pending' = pending \cup {[id |-> nextId, hash |-> h, reason |-> r,
                                 forwarded |-> FALSE]}
    /\ MarkDirtyMaybeSave
    /\ owed' = owed \cup {h}
    /\ UNCHANGED <<phase, toLoad, cursor, added, held, restarts>>

\* list_flush_batch and list_unforwarded hand a copy to the caller.  Which
\* entries pass (m, window, limit) is the subject of FlushWave.
ListBatch(c) ==
    /\ InService
    /\ held[c] = {}
    /\ \E S \in SUBSET pending :
         /\ S # {}
         /\ c = "forward" => \A e \in S : ~e.forwarded
         /\ held' = [held EXCEPT ![c] =
                        {[id |-> e.id, hash |-> e.hash] : e \in S}]
    /\ UNCHANGED <<phase, pending, hashIndex, nextId, dirty, saving, toLoad,
                   cursor, added, disk, restarts, owed>>

\* The caller gives up what it still holds (end of a wave, failed POST); its
\* copy needs no mutex.
DropBatch(c) ==
    /\ phase = "run"
    /\ held[c] # {}
    /\ held' = [held EXCEPT ![c] = {}]
    /\ UNCHANGED <<phase, pending, hashIndex, nextId, dirty, saving, toLoad,
                   cursor, added, disk, restarts, owed>>

\* Mutant: an emptied bag starts its ids over.
MarkSubmittedManyRestartsIds(S) ==
    /\ InService
    /\ S # {} /\ S \subseteq held["flush"]
    /\ LET gone == {e \in pending : e.id \in IdsOf(S)} IN
       /\ pending' = pending \ gone
       /\ hashIndex' = hashIndex \ HashesOf(gone)
       /\ nextId' = IF pending = gone THEN 1 ELSE nextId
    /\ MarkDirtySave
    /\ held' = [held EXCEPT !["flush"] = @ \ S]
    /\ owed' = owed \ HashesOf(S)
    /\ UNCHANGED <<phase, toLoad, cursor, added, jsonl, tornTail,
                   restarts, glued>>

\* mark_submitted_many: the flush read the entries earlier, the pool took
\* the blocks S (or prepare failed), and the store now removes by id.
MarkSubmittedMany(S) ==
    /\ InService
    /\ S # {} /\ S \subseteq held["flush"]
    /\ LET gone == {e \in pending : e.id \in IdsOf(S)} IN
       /\ pending' = pending \ gone
       /\ hashIndex' = hashIndex \ HashesOf(gone)
    /\ MarkDirtySave
    /\ held' = [held EXCEPT !["flush"] = @ \ S]
    /\ owed' = owed \ HashesOf(S)
    /\ UNCHANGED <<phase, nextId, toLoad, cursor, added, jsonl, tornTail,
                   restarts, glued>>

\* Every entry is replaced by its image: the loops that write into pending_.
Update(g) == pending' = {g[e] : e \in pending}

\* mark_pending_reason(id, reason), id from the copy that the flush holds.
MarkPendingReason(id, r) ==
    /\ InService
    /\ Update([e \in pending |-> IF e.id = id THEN WithReason(e, r) ELSE e])
    /\ MarkDirtyMaybeSave
    /\ UNCHANGED <<phase, hashIndex, nextId, toLoad, cursor, added, held,
                   jsonl, tornTail, restarts, glued, owed>>

\* Mutant: the marks are left for the next operation to save.
MarkForwardedManyClean ==
    /\ InService
    /\ held["forward"] # {}
    /\ Update([e \in pending |-> IF e.id \in IdsOf(held["forward"])
                                 THEN WithForwarded(e) ELSE e])
    /\ held' = [held EXCEPT !["forward"] = {}]
    /\ UNCHANGED <<phase, hashIndex, nextId, dirty, saving, toLoad, cursor,
                   added, db, jsonl, tornTail, restarts, glued, owed>>

\* mark_forwarded_many(ids) after the master took the forwarder's wave.
MarkForwardedMany ==
    /\ InService
    /\ held["forward"] # {}
    /\ Update([e \in pending |-> IF e.id \in IdsOf(held["forward"])
                                 THEN WithForwarded(e) ELSE e])
    /\ MarkDirtySave
    /\ held' = [held EXCEPT !["forward"] = {}]
    /\ UNCHANGED <<phase, hashIndex, nextId, toLoad, cursor, added, jsonl,
                   tornTail, restarts, glued, owed>>

\* defer_all_to_next_start: the new reason depends on the block type and
\* the minute of the hour, so the model allows any choice per entry.
DeferAllToNextStart ==
    /\ InService
    /\ \E r \in [pending -> Reasons] :
         Update([e \in pending |-> WithReason(e, r[e])])
    /\ MarkDirtySave
    /\ UNCHANGED <<phase, hashIndex, nextId, toLoad, cursor, added, held,
                   jsonl, tornTail, restarts, glued, owed>>

\* flush(): save what mark_dirty has only counted so far.
Flush ==
    /\ InService
    /\ dirty > 0
    /\ SaveDb
    /\ UNCHANGED <<phase, memory, jsonl, tornTail, restarts, glued, owed>>

\* ~BlockStore
Destroy ==
    /\ InService
    /\ \/ dirty > 0 /\ SaveDb /\ phase' = "closing" /\ UNCHANGED memory
       \/ dirty = 0 /\ NoSave /\ Forget
    /\ UNCHANGED <<jsonl, tornTail, restarts, glued, owed>>

-----------------------------------------------------------------------------
(* The process dies (kill-miner.sh sends KILL two seconds after TERM).     *)

\* What is in memory is lost; a save in progress leaves the snapshot torn.
Crash ==
    /\ phase # "down"
    /\ Forget
    /\ saving' = FALSE
    /\ UNCHANGED <<disk, restarts, owed>>

\* It dies inside append_queue_jsonl: part of a line is on disk.
CrashInAppend ==
    /\ InService
    /\ Forget
    /\ tornTail' = TRUE
    /\ UNCHANGED <<saving, db, jsonl, restarts, glued, owed>>

-----------------------------------------------------------------------------
\* A first start on an empty data directory.
Init ==
    /\ phase = "down"
    /\ pending = {} /\ hashIndex = {} /\ nextId = 1 /\ dirty = 0
    /\ saving = FALSE
    /\ toLoad = {} /\ cursor = 1 /\ added = FALSE
    /\ held = [c \in Callers |-> {}]
    /\ db = Discarded /\ jsonl = <<>> /\ tornTail = FALSE /\ glued = {}
    /\ restarts = 0
    /\ owed = {}

Next ==
    \/ Load \/ LoadEntry \/ LoadDbDone \/ RecoverLine \/ RecoverDone
    \/ SaveDone
    \/ \E h \in Hashes, r \in Reasons : Enqueue(h, r)
    \/ \E c \in Callers : ListBatch(c) \/ DropBatch(c)
    \/ \E S \in SUBSET held["flush"] : MarkSubmittedMany(S)
    \/ \E e \in held["flush"], r \in Reasons : MarkPendingReason(e.id, r)
    \/ MarkForwardedMany
    \/ DeferAllToNextStart
    \/ Flush
    \/ Destroy
    \/ Crash
    \/ CrashInAppend

Spec == Init /\ [][Next]_vars

-----------------------------------------------------------------------------
(* Properties.                                                             *)

\* Types of the variables.
TypeFlags ==
    /\ phase \in Phases
    /\ saving \in BOOLEAN /\ added \in BOOLEAN /\ tornTail \in BOOLEAN

TypeCounts ==
    /\ nextId \in Nat \ {0} /\ cursor \in Nat \ {0}
    /\ dirty \in Nat /\ restarts \in Nat

TypeBag ==
    /\ pending \in SUBSET Entry /\ toLoad \in SUBSET Entry
    /\ {hashIndex, owed, glued} \subseteq SUBSET Hashes
    /\ held \in [Callers -> SUBSET Handle]

TypeDisk == db \in Snapshot /\ jsonl \in Seq(Line)

TypeOK == TypeFlags /\ TypeCounts /\ TypeBag /\ TypeDisk

\* No two entries of S share an id, nor a digest.
Distinct(S) ==
    \A e, f \in S : (e.id = f.id \/ e.hash = f.hash) => e = f

\* The in-memory structures agree: ids and digests are unique (mark_submitted
\* erases by id, so a shared id would drop a second block), next_id_ is above
\* every id in use, and hash_index_ is exactly the digests of pending_.
StoreConsistent ==
    /\ Distinct(pending)
    /\ \A e \in pending : e.id < nextId
    /\ hashIndex = HashesOf(pending)

\* Whatever crash came before, a store in service holds every block that
\* enqueue() accepted and mark_submitted() did not remove: load() and
\* recover_jsonl() together bring back the whole bag, but for a block whose
\* line was appended to what a crash had left of another.
BagNeverLoses == phase = "run" => owed \ glued \subseteq HashesOf(pending)

\* The ids that a flush wave or a forwarder wave carries across its HTTP calls
\* still name the blocks they named when listed, so that mark_submitted_many
\* and mark_forwarded_many never hit another block.
HeldIdsStable ==
    \A c \in Callers : \A e \in held[c], p \in pending :
        p.id = e.id => p.hash = e.hash

\* dirty_ops_ = 0 means that the snapshot on disk holds the bag, entry by
\* entry (flush() and the destructor skip the save then), and a crash loses at
\* most kSaveEveryOps - 1 updates.
DirtyCountsLag ==
    InService => /\ dirty < KSaveEveryOps
                 /\ dirty = 0 => db.pending = pending

-----------------------------------------------------------------------------
(* The abstract specification.                                             *)

\* In service, or saving for the last time.
Serving == phase \in {"run", "closing"}

\* The bag as its users see it.  Outside service it is what the next start
\* will find.
BagView == IF Serving
           THEN HashesOf(pending)
           ELSE JsonlHashes \cup HashesOf(db.pending)

Abstract == INSTANCE Bag WITH
    up <- Serving, bag <- BagView, wave <- HashesOf(held["flush"]),
    ever <- JsonlHashes, fragile <- glued, torn <- tornTail

\* Through truncated snapshots, crashes and recovery the store behaves as the
\* set Bag describes: in service no step but Enqueue adds a block and no step
\* but MarkSubmittedMany takes one, which the submitter then had listed and
\* reports; a stop or crash anywhere leaves everything that was logged to be
\* found, and load() with recover_jsonl() find exactly that.  A crash inside an
\* append puts one block at risk, the next one.
ImplementsBag == Abstract!Spec

-----------------------------------------------------------------------------
(* The inductive invariants behind the proofs in BlockStoreProofs.         *)

\* What each phase of the process fixes.
PhaseInv ==
    /\ phase = "down" => /\ pending = {} /\ dirty = 0
    /\ phase # "loadDb" => toLoad = {}
    /\ phase # "loadJsonl" => cursor = 1
    /\ cursor <= Len(jsonl) + 1
    /\ phase \in {"down", "loadDb", "loadJsonl"} =>
          /\ ~saving /\ dirty = 0
          /\ \A c \in Callers : held[c] = {}

\* Ids and digests stay unique through load(), because they are unique in the
\* snapshot and next_id on disk is above the ids stored with it.
IdInv ==
    /\ Distinct(db.pending) /\ \A e \in db.pending : e.id < db.next
    /\ Distinct(pending \cup toLoad)
    /\ \A e \in pending \cup toLoad : e.id < nextId
    /\ \A c \in Callers : \A e \in held[c] : e.id < nextId

\* How far the snapshot lags behind memory, also during load().
LagInv ==
    /\ phase = "loadDb" => pending \cup toLoad = db.pending
    /\ phase = "loadJsonl" /\ ~added => pending = db.pending

\* Everything in memory, in the snapshot or owed has a readable line in the
\* log or is glued, and recovery has brought back the lines it has read.
LogCovers ==
    hashIndex \cup HashesOf(db.pending) \cup owed \subseteq JsonlHashes \cup glued

ServesOwed == phase \in {"run", "closing"} => owed \ glued \subseteq hashIndex

RecoveredSoFar == phase = "loadJsonl" =>
    \A i \in 1..(cursor - 1) : jsonl[i].hash \in hashIndex

\* Recovery adds to the snapshot what the log has, and nothing else.
SnapshotLoaded == phase = "loadJsonl" =>
    /\ HashesOf(db.pending) \subseteq hashIndex
    /\ hashIndex \subseteq JsonlHashes \cup HashesOf(db.pending)

LogInv == LogCovers /\ ServesOwed /\ RecoveredSoFar /\ SnapshotLoaded

\* Only the flush takes blocks out, so what it has listed and not reported is
\* still in the bag.
WaveListed ==
    \A k \in held["flush"] : \E p \in pending : p.id = k.id /\ p.hash = k.hash

MemoryInv == TypeOK /\ PhaseInv /\ IdInv /\ LagInv /\ StoreConsistent
             /\ HeldIdsStable /\ DirtyCountsLag

=============================================================================
