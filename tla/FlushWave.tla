------------------------------ MODULE FlushWave ------------------------------
(***************************************************************************)
(* Supervisor::try_flush_pending and BlockStore::list_flush_batch: how the *)
(* submit worker picks waves of pending blocks, sends them to the pool in  *)
(* chunks of parallel requests and rotates past blocks that the pool holds.*)
(*                                                                         *)
(* The mining thread enqueues blocks and moves the match-flush switch      *)
(* meanwhile.  pending_ is kept in id order, so a set of records with      *)
(* distinct ids stands for it.  What the answers do to queue_reason and to *)
(* the disk is the subject of BlockStore; times are a flag: `backoff` is   *)
(* now < submit_backoff_until_.  Listing, filtering and cutting the work   *)
(* list wait for nothing and are one step.  All blocks carry an Argon2     *)
(* string, as handle_hit makes them; dropping entries of older versions    *)
(* that cannot be prepared ("prepare failed") is left out.                 *)
(***************************************************************************)
EXTENDS Integers, FiniteSets

CONSTANTS
    Kinds,      \* block types that occur, of "XNM", "XBLK", "XUNI"
    Pools,      \* what the pool may do: outcomes below, or "mixed"
    Ms,         \* memory costs that blocks are mined at
    NetMs,      \* memory costs that the network asks for
    MaxId,      \* bound: blocks ever enqueued
    Wave,       \* wave: 64, or more while draining
    Parallel    \* parallel: 4, or match_drain_parallel while draining

ASSUME FlushWaveAssumption ==
    /\ Kinds \subseteq {"XNM", "XBLK", "XUNI"}
    /\ Ms \subseteq Nat \ {0} /\ NetMs \subseteq Nat \ {0}
    /\ MaxId \in Nat /\ Wave \in Nat \ {0} /\ Parallel \in Nat \ {0}

Block == [id : 1..MaxId, kind : Kinds, m : Ms]

\* What submit() makes of the answer, in the order the code tests it:
\* submit_accepted; no answer or is_transient_submit_failure; is_pool_hold,
\* is_difficulty_mismatch or is_xuni_window_reject; anything else.
Outcomes == {"accepted", "transient", "hold", "reject"}

VARIABLES
    \* environment
    netM,       \* submit_target_m(); 0 is unknown
    xuniOpen,   \* in_xuni_submit_window()
    pool,       \* what the pool does with a block now: an outcome, or "mixed"
    \* store_ and Supervisor state
    bag, nextId,
    draining,   \* match_drain_active_
    skip,       \* flush_skip_before_id_
    backoff,
    \* try_flush_pending: its place, on_shutdown, the rest of the work list, the
    \* id of the list's last block, the answers still to be read of the chunk in
    \* flight, accepted_ids, and flushed > 0, holds > 0, transport_fail
    pc, closing, work, lastId, chunk, acceptedIds, flushed, holds, failed,
    \* history: ids that the worker saw accepted
    accepted

env == <<netM, xuniOpen, pool>>
wave == <<pc, closing, work, lastId, chunk, acceptedIds, flushed, holds, failed>>
vars == <<env, bag, nextId, draining, skip, backoff, wave, accepted>>

-----------------------------------------------------------------------------
(* list_flush_batch.                                                       *)

\* flush_priority: lower is sooner.
Priority(kind) == CASE kind = "XBLK" -> 0 [] kind = "XNM" -> 1 [] kind = "XUNI" -> 2

\* The pool takes m >= its own; XUNI waits for its window (ready_to_flush).
Eligible == {b \in bag : b.m >= netM /\ (b.kind = "XUNI" => xuniOpen)}

Older(b, c) == b.id < c.id

FlushedBefore(b, c) == \/ Priority(b.kind) < Priority(c.kind)
                       \/ Priority(b.kind) = Priority(c.kind) /\ Older(b, c)

\* The first n blocks of S by age, by flush order.
Oldest(S, n) == {b \in S : Cardinality({c \in S : Older(c, b)}) < n}
FirstToFlush(S, n) == {b \in S : Cardinality({c \in S : FlushedBefore(c, b)}) < n}
LastToFlush(S) == CHOOSE b \in S : \A c \in S \ {b} : FlushedBefore(c, b)

\* Mutant: a short batch is not filled up with the blocks before the skip mark.
ListFlushBatchUnwrapped(limit) ==
    Oldest({b \in Eligible : b.id >= skip}, limit)

\* Up to `limit` blocks from the skip mark on, filled up with older ones.
ListFlushBatch(limit) ==
    LET preferred == Oldest({b \in Eligible : b.id >= skip}, limit)
        wrapped   == Oldest({b \in Eligible : b.id < skip}, limit - Cardinality(preferred))
    IN  preferred \cup wrapped

-----------------------------------------------------------------------------
(* The other threads and the network.                                      *)

\* queue_hit: the mining thread bags a new find.
Enqueue(kind, m) ==
    /\ nextId <= MaxId
    /\ bag' = bag \cup {[id |-> nextId, kind |-> kind, m |-> m]}
    /\ nextId' = nextId + 1
    /\ UNCHANGED <<env, draining, skip, backoff, wave, accepted>>

\* update_match_drain starts or ends a match flush; a start resets the rotation.
MatchDrain ==
    /\ draining' = ~draining
    /\ skip' = IF draining THEN skip ELSE 0
    /\ UNCHANGED <<env, bag, nextId, backoff, wave, accepted>>

EnvironmentChanges ==
    /\ netM' \in NetMs \cup {0} /\ xuniOpen' \in BOOLEAN /\ pool' \in Pools
    /\ env' # env
    /\ UNCHANGED <<bag, nextId, draining, skip, backoff, wave, accepted>>

BackoffEnds ==
    /\ backoff
    /\ backoff' = FALSE
    /\ UNCHANGED <<env, bag, nextId, draining, skip, wave, accepted>>

-----------------------------------------------------------------------------
(* try_flush_pending.                                                      *)

Begin(batch) ==
    /\ batch # {}
    /\ pc' = "send"
    /\ work' = batch /\ lastId' = LastToFlush(batch).id
    /\ flushed' = FALSE /\ holds' = FALSE /\ failed' = FALSE
    /\ UNCHANGED <<env, bag, nextId, draining, skip, backoff, chunk, acceptedIds,
                   accepted>>

\* An ordinary wave: not in backoff, m known, two waves fetched, one kept.
StartWave ==
    /\ pc = "idle" /\ ~backoff /\ netM > 0
    /\ Begin(FirstToFlush(ListFlushBatch(2 * Wave), Wave))
    /\ UNCHANGED closing

\* The flush at close takes the whole matching bag, in backoff or not.
StartClosingWave ==
    /\ pc = "idle" /\ netM > 0
    /\ Begin(ListFlushBatch(Cardinality(bag)))
    /\ closing' = TRUE

\* The next chunk of std::async submits; one at a time on shutdown.
SendChunk ==
    /\ pc = "send" /\ work # {} /\ ~failed
    /\ pc' = "answers"
    /\ chunk' = FirstToFlush(work, IF closing THEN 1 ELSE Parallel)
    /\ work' = work \ chunk'
    /\ UNCHANGED <<env, bag, nextId, draining, skip, backoff, closing, lastId, acceptedIds,
                   flushed, holds, failed, accepted>>

\* Mutant: a held block counts as done, like an accepted one.
AnswerHoldDone(outcome) ==
    /\ pc = "answers"
    /\ pool \in {outcome, "mixed"}
    /\ \E b \in FirstToFlush(chunk, 1) :
          /\ chunk' = chunk \ {b}
          /\ acceptedIds' = IF outcome \in {"accepted", "hold"}
                               THEN acceptedIds \cup {b.id} ELSE acceptedIds
          /\ accepted' = IF outcome = "accepted" THEN accepted \cup {b.id} ELSE accepted
    /\ flushed' = (flushed \/ outcome = "accepted")
    /\ holds' = (holds \/ outcome = "hold")
    /\ failed' = (failed \/ (outcome = "transient" /\ ~closing))
    /\ backoff' = CASE outcome = "accepted" -> FALSE
                    [] outcome = "transient" /\ ~closing -> TRUE
                    [] OTHER -> backoff
    /\ UNCHANGED <<env, bag, nextId, draining, skip, pc, closing, work, lastId>>

\* The answers of a chunk are read in the order of its blocks.  An accepted
\* block ends the backoff, a transport failure starts one and breaks the wave
\* after this chunk - except on shutdown, when it changes nothing.
Answer(outcome) ==
    /\ pc = "answers"
    /\ pool \in {outcome, "mixed"}
    /\ \E b \in FirstToFlush(chunk, 1) :
          /\ chunk' = chunk \ {b}
          /\ acceptedIds' = IF outcome = "accepted" THEN acceptedIds \cup {b.id} ELSE acceptedIds
          /\ accepted' = IF outcome = "accepted" THEN accepted \cup {b.id} ELSE accepted
    /\ flushed' = (flushed \/ outcome = "accepted")
    /\ holds' = (holds \/ outcome = "hold")
    /\ failed' = (failed \/ (outcome = "transient" /\ ~closing))
    /\ backoff' = CASE outcome = "accepted" -> FALSE
                    [] outcome = "transient" /\ ~closing -> TRUE
                    [] OTHER -> backoff
    /\ UNCHANGED <<env, bag, nextId, draining, skip, pc, closing, work, lastId>>

\* Mutant: only the first accepted block of a chunk is taken out of the bag.
MarkSubmittedFirst ==
    /\ pc = "answers" /\ chunk = {}
    /\ pc' = "send"
    /\ bag' = {b \in bag : b.id \notin acceptedIds \/ \E i \in acceptedIds : i < b.id}
    /\ acceptedIds' = {}
    /\ UNCHANGED <<env, nextId, draining, skip, backoff, closing, work, lastId, chunk,
                   flushed, holds, failed, accepted>>

\* mark_submitted_many, once per chunk.
MarkSubmitted ==
    /\ pc = "answers" /\ chunk = {}
    /\ pc' = "send"
    /\ bag' = {b \in bag : b.id \notin acceptedIds}
    /\ acceptedIds' = {}
    /\ UNCHANGED <<env, nextId, draining, skip, backoff, closing, work, lastId, chunk,
                   flushed, holds, failed, accepted>>

\* Mutant: off by one in the skip mark.
EndWaveSkipsTwo ==
    /\ pc = "send" /\ (work = {} \/ failed)
    /\ pc' = IF closing THEN "closed" ELSE "idle"
    /\ work' = {}
    /\ IF ~flushed /\ ~closing /\ holds /\ ~failed
          THEN backoff' = TRUE /\ skip' = lastId + 2
          ELSE UNCHANGED <<backoff, skip>>
    /\ UNCHANGED <<env, bag, nextId, draining, closing, lastId, chunk, acceptedIds,
                   flushed, holds, failed, accepted>>

\* A wave of nothing but holds pauses the queue and moves the skip mark.
EndWave ==
    /\ pc = "send" /\ (work = {} \/ failed)
    /\ pc' = IF closing THEN "closed" ELSE "idle"
    /\ work' = {}
    /\ IF ~flushed /\ ~closing /\ holds /\ ~failed
          THEN backoff' = TRUE /\ skip' = lastId + 1
          ELSE UNCHANGED <<backoff, skip>>
    /\ UNCHANGED <<env, bag, nextId, draining, closing, lastId, chunk, acceptedIds,
                   flushed, holds, failed, accepted>>

-----------------------------------------------------------------------------

Init ==
    /\ netM = 0 /\ xuniOpen \in BOOLEAN /\ pool \in Pools
    /\ bag = {} /\ nextId = 1
    /\ draining = FALSE /\ skip = 0 /\ backoff = FALSE
    /\ pc = "idle" /\ closing = FALSE /\ work = {} /\ lastId = 0 /\ chunk = {}
    /\ acceptedIds = {} /\ flushed = FALSE /\ holds = FALSE /\ failed = FALSE
    /\ accepted = {}

Flush ==
    \/ StartWave \/ SendChunk \/ MarkSubmitted \/ EndWave
    \/ \E outcome \in Outcomes : Answer(outcome)

Next ==
    \/ \E kind \in Kinds, m \in Ms : Enqueue(kind, m)
    \/ MatchDrain \/ EnvironmentChanges \/ BackoffEnds
    \/ StartClosingWave \/ Flush

\* The worker services the queue every turn, every submit has a timeout, and a
\* pause of the queue is a matter of seconds.
Spec == /\ Init /\ [][Next]_vars
        /\ WF_vars(Flush) /\ WF_vars(BackoffEnds)

-----------------------------------------------------------------------------
(* Properties.                                                             *)

TypeOK ==
    /\ netM \in NetMs \cup {0} /\ xuniOpen \in BOOLEAN /\ pool \in Pools
    /\ bag \subseteq Block /\ nextId \in 1..(MaxId + 1)
    /\ draining \in BOOLEAN /\ skip \in 0..(MaxId + 1) /\ backoff \in BOOLEAN
    /\ pc \in {"idle", "send", "answers", "closed"} /\ closing \in BOOLEAN
    /\ work \subseteq Block /\ lastId \in 0..MaxId /\ chunk \subseteq Block
    /\ acceptedIds \subseteq 1..MaxId /\ flushed \in BOOLEAN /\ holds \in BOOLEAN
    /\ failed \in BOOLEAN /\ accepted \subseteq 1..MaxId

\* The ids of a set of blocks.
IdsOf(S) == {b.id : b \in S}

\* A block leaves the bag only after the pool accepted it: a hold, a rejection, a
\* broken wave or an abandoned work list loses nothing.
OnlyAcceptedLeave == \A i \in 1..(nextId - 1) : i \in IdsOf(bag) \/ i \in accepted

\* A block whose acceptance was seen is not sent again: it is not in the work
\* list, not in the chunk in flight, and once the chunk is marked not in the bag.
AcceptedNotResent ==
    /\ accepted \cap IdsOf(work \cup chunk) = {}
    /\ accepted \cap IdsOf(bag) = acceptedIds

\* The work list and the chunk in flight are distinct blocks that are still in
\* the bag, whose ids are distinct and below nextId; an answer waits for
\* mark_submitted_many only while the worker is at the chunk.
WaveInBag ==
    /\ work \subseteq bag /\ chunk \subseteq bag /\ work \cap chunk = {}
    /\ \A b, c \in bag : b.id = c.id => b = c
    /\ \A b \in bag : b.id < nextId
    /\ \A i \in accepted : i < nextId
    /\ pc # "answers" => chunk = {} /\ acceptedIds = {}
    /\ pc \in {"idle", "closed"} => work = {}

\* A wave is never short: it carries `Wave` blocks or all that are eligible,
\* wherever the skip mark is.
WavesAreFull ==
    [][StartWave => Cardinality(work') = (IF Cardinality(Eligible) < Wave
                                             THEN Cardinality(Eligible) ELSE Wave)]_vars

\* When the pool accepts again for good, the eligible bag drains.
PoolBack == pool = "accepted" /\ netM > 0 /\ pc # "closed" /\ ~closing
BagDrains == <>[]PoolBack => []<>(Eligible = {})
=============================================================================
