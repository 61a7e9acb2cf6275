------------------------------ MODULE CudaEngine ------------------------------
(***************************************************************************)
(* CudaEngine (mining/cuda_engine.cpp) and the part of CudaHashBackend that*)
(* keeps results: the mining thread publishes work in mailboxes, one worker*)
(* thread per lane hashes wave after wave into a ring of results, and      *)
(* mine_batch takes one result of every lane.                              *)
(*                                                                         *)
(* Matches are double-buffered: runBatch returns those of the wave before. *)
(* Condition variables are modelled as such: the workers notify after they *)
(* moved an atomic counter without the mutex, so a thread that has found   *)
(* its predicate false and is about to sleep misses the call.              *)
(* A mailbox's seq against the worker's seen is one flag, `fresh`; the     *)
(* ring with its counters produced and consumed is a sequence.  What work  *)
(* is published (salt, difficulty, batch size, XUNI) is left out: it is    *)
(* either unchanged or not.                                                *)
(***************************************************************************)
EXTENDS Integers, Sequences

CONSTANTS
    Hits,       \* valid matches that waves may find
    MaxLanes,   \* config_max_lanes_
    Plans,      \* lane counts that plan_cuda_batch returns, before the cap
    KRing       \* LaneMailbox::kRing

ASSUME CudaEngineAssumption ==
    /\ MaxLanes \in Nat \ {0}
    /\ Plans \subseteq 1..MaxLanes /\ Plans # {}
    /\ KRing \in Nat \ {0}

Lanes == 1..MaxLanes

\* What runBatch returns: the matches of the wave before, or an error.
Result == [ok : BOOLEAN, matches : SUBSET Hits]

VARIABLES
    \* engine
    started,    \* started_
    cap,        \* max_lanes_cap_
    lanes,      \* lanes_
    built,      \* lanes_impl_.size()
    stopping,   \* workers_stop_
    \* mining thread: its place, and the lane that drain_pipeline is at
    mpc, dl,
    \* worker of each lane: its place, and a result that is not in the ring yet
    wpc, hand,
    \* mailbox of each lane: new work, seq > 0, results not consumed
    fresh, published, ring,
    \* CudaHashBackend::pending_ of each lane
    pending,
    \* matches not found yet; history: see HitSource; a wave has failed
    unseen, returned, dropped, excused, failed

engine == <<started, cap, lanes, built, stopping>>
main == <<mpc, dl>>
worker == <<wpc, hand>>
mailbox == <<fresh, published, ring>>
hist == <<returned, dropped, excused>>
vars == <<engine, main, worker, mailbox, pending, unseen, hist, failed>>

MainPlaces == {"idle", "ensure", "joinEnsure", "joinStop", "drain",
               "wait", "blocking", "asleep", "absorb", "crashed"}
WorkerPlaces == {"none", "top", "topAsleep", "space", "spaceBlocking", "spaceAsleep",
                 "hash", "store", "exit"}

-----------------------------------------------------------------------------
(* worker_mu_, worker_cv_, worker_done_cv_.                                *)

\* A thread between a false predicate and its sleep holds the mutex.
MutexFree == mpc # "blocking" /\ \A l \in Lanes : wpc[l] # "spaceBlocking"

\* A notified sleeper looks at its predicate again.
AwakeMain == IF mpc = "asleep" THEN "wait" ELSE mpc
AwakeTop(l) == IF wpc[l] = "topAsleep" THEN "top" ELSE wpc[l]
AwakeSpace(l) == IF wpc[l] = "spaceAsleep" THEN "space" ELSE wpc[l]

\* Matches of lane l that nobody was told of.
RingMatches(l) == UNION {ring[l][i].matches : i \in DOMAIN ring[l]}
LaneHolds(l) == pending[l] \cup hand[l].matches \cup RingMatches(l)
Held == UNION {LaneHolds(l) : l \in Lanes}

NoResult == [ok |-> TRUE, matches |-> {}]

-----------------------------------------------------------------------------
(* Workers: lane_worker_loop.                                              *)

\* At the outer wait: stop, take the published work, or sleep.  A lane that
\* sync_lanes has removed takes it and does nothing.
WorkerTop(l) ==
    /\ wpc[l] = "top" /\ MutexFree
    /\ wpc' = [wpc EXCEPT ![l] = IF stopping THEN "exit"
                                 ELSE IF ~fresh[l] THEN "topAsleep"
                                 ELSE IF l <= built THEN "space" ELSE "top"]
    /\ fresh' = [fresh EXCEPT ![l] = fresh[l] /\ stopping]
    /\ UNCHANGED <<engine, main, hand, published, ring, pending, unseen, hist, failed>>

\* Mutant: the deep ring is a single slot.
HasSpaceForOne(l) == Len(ring[l]) < 1

\* Mutant: off by one.
HasSpaceOffByOne(l) == Len(ring[l]) <= KRing

HasSpace(l) == Len(ring[l]) < KRing

\* At the inner loop: leave it for new work or a stop, hash, or go to sleep.
WorkerSpace(l) ==
    /\ wpc[l] = "space" /\ MutexFree
    /\ wpc' = [wpc EXCEPT ![l] = IF stopping \/ fresh[l] THEN "top"
                                 ELSE IF HasSpace(l) THEN "hash" ELSE "spaceBlocking"]
    /\ UNCHANGED <<engine, main, hand, mailbox, pending, unseen, hist, failed>>

WorkerSleep(l) ==
    /\ wpc[l] = "spaceBlocking"
    /\ wpc' = [wpc EXCEPT ![l] = "spaceAsleep"]
    /\ UNCHANGED <<engine, main, hand, mailbox, pending, unseen, hist, failed>>

\* Mutant: the snapshot of the wave before is overwritten.
RunBatchForgets(l, result) ==
    /\ \/ /\ result = NoResult
          /\ \E found \in SUBSET unseen :
                pending' = [pending EXCEPT ![l] = found] /\ unseen' = unseen \ found
          /\ UNCHANGED <<dropped, excused, failed>>
       \/ /\ result = [ok |-> FALSE, matches |-> {}]
          /\ dropped' = dropped \cup pending[l]
          /\ pending' = [pending EXCEPT ![l] = {}]
          /\ excused' = TRUE /\ failed' = TRUE
          /\ UNCHANGED unseen

\* CudaHashBackend::runBatch: the snapshot of the wave before is finalised, the
\* new one takes its place.  On failure both are dropped.
RunBatch(l, result) ==
    /\ \/ /\ result = [ok |-> TRUE, matches |-> pending[l]]
          /\ \E found \in SUBSET unseen :
                pending' = [pending EXCEPT ![l] = found] /\ unseen' = unseen \ found
          /\ UNCHANGED <<dropped, excused, failed>>
       \/ /\ result = [ok |-> FALSE, matches |-> {}]
          /\ dropped' = dropped \cup pending[l]
          /\ pending' = [pending EXCEPT ![l] = {}]
          /\ excused' = TRUE /\ failed' = TRUE
          /\ UNCHANGED unseen

\* The worker holds Lane::mu while the GPU works.
WorkerHash(l) ==
    /\ wpc[l] = "hash"
    /\ \E result \in Result : RunBatch(l, result) /\ hand' = [hand EXCEPT ![l] = result]
    /\ wpc' = [wpc EXCEPT ![l] = "store"]
    /\ UNCHANGED <<engine, main, mailbox, returned>>

\* produced is incremented without the mutex, then all waiters are notified.
WorkerStore(l) ==
    /\ wpc[l] = "store"
    /\ ring' = [ring EXCEPT ![l] = Append(@, hand[l])]
    /\ hand' = [hand EXCEPT ![l] = NoResult]
    /\ wpc' = [k \in Lanes |-> IF k = l THEN "space" ELSE AwakeSpace(k)]
    /\ mpc' = AwakeMain
    /\ UNCHANGED <<engine, dl, fresh, published, pending, unseen, hist, failed>>

Worker(l) ==
    \/ WorkerTop(l) \/ WorkerSpace(l) \/ WorkerSleep(l) \/ WorkerHash(l) \/ WorkerStore(l)

-----------------------------------------------------------------------------
(* Mining thread: start, set_difficulty, stop, reduce_lane_cap.            *)

\* replan: the plan for this difficulty under the lane cap.
PlannedLanes == {IF n < cap THEN n ELSE cap : n \in Plans}

\* ensure_lane_workers starts a worker per lane with an empty mailbox; a single
\* lane has none.
Spawned(n) == [l \in Lanes |-> IF n > 1 /\ l <= n THEN "top" ELSE "none"]

\* With n lanes built, the snapshots that are there and those that are gone.
Kept(n) == [l \in Lanes |-> IF l <= n THEN pending[l] ELSE {}]
Removed(n) == UNION {pending[l] : l \in (n + 1)..MaxLanes}

Start ==
    /\ mpc = "idle" /\ ~started
    /\ started' = TRUE
    /\ lanes' \in PlannedLanes /\ built' = lanes'
    /\ wpc' = Spawned(lanes')
    /\ UNCHANGED <<cap, stopping, main, hand, mailbox, pending, unseen, hist, failed>>

\* set_difficulty: replan resizes lanes_impl_ (sync_lanes) while the workers are
\* still running; the snapshots of removed lanes go with them.
Replan ==
    /\ mpc = "idle" /\ started
    /\ mpc' = "ensure"
    /\ lanes' \in PlannedLanes /\ built' = lanes'
    /\ pending' = Kept(built')
    /\ dropped' = dropped \cup Removed(built')
    /\ excused' = (excused \/ built' < built)
    /\ UNCHANGED <<started, cap, stopping, dl, worker, mailbox, unseen, returned, failed>>

Workers == {l \in Lanes : wpc[l] # "none"}

\* Mutant: workers that wait for space in their ring are not woken.
StopWorkersWakesTop(place) ==
    /\ MutexFree
    /\ mpc' = place
    /\ stopping' = TRUE
    /\ wpc' = [l \in Lanes |-> AwakeTop(l)]
    /\ UNCHANGED <<started, cap, lanes, built, dl, hand, mailbox, pending, unseen, hist, failed>>

\* stop_lane_workers: set the flag under the mutex and wake everybody.
StopWorkers(place) ==
    /\ MutexFree
    /\ mpc' = place
    /\ stopping' = TRUE
    /\ wpc' = [l \in Lanes |-> IF wpc[l] = "topAsleep" THEN "top" ELSE AwakeSpace(l)]
    /\ UNCHANGED <<started, cap, lanes, built, dl, hand, mailbox, pending, unseen, hist, failed>>

\* ensure_lane_workers: nothing to do, or stop all and start anew.
Ensure ==
    /\ mpc = "ensure"
    /\ IF Workers = (IF lanes > 1 THEN 1..lanes ELSE {})
          THEN /\ mpc' = "idle"
               /\ UNCHANGED <<engine, dl, worker, mailbox, pending, unseen, hist, failed>>
          ELSE StopWorkers("joinEnsure")

Stop ==
    /\ mpc = "idle" /\ started
    /\ StopWorkers("joinStop")

\* Mutant: the mailboxes keep their sequence numbers.
JoinKeepsSeq ==
    /\ mpc \in {"joinEnsure", "joinStop"}
    /\ \A l \in Workers : wpc[l] = "exit"
    /\ mpc' = "idle"
    /\ stopping' = FALSE
    /\ fresh' = [l \in Lanes |-> FALSE]
    /\ ring' = [l \in Lanes |-> <<>>]
    /\ excused' = TRUE
    /\ IF mpc = "joinStop"
          THEN /\ started' = FALSE /\ built' = 0
               /\ wpc' = [l \in Lanes |-> "none"]
               /\ pending' = [l \in Lanes |-> {}]
               /\ dropped' = dropped \cup Held
          ELSE /\ wpc' = Spawned(lanes)
               /\ pending' = Kept(built)
               /\ dropped' = dropped \cup Removed(built) \cup UNION {RingMatches(l) : l \in Lanes}
               /\ UNCHANGED <<started, built>>
    /\ UNCHANGED <<cap, lanes, dl, hand, published, unseen, returned, failed>>

\* All workers are joined.  Results in the rings are never read again, and what a
\* worker wrote to a removed lane is gone; stop() destroys all lanes.
Join ==
    /\ mpc \in {"joinEnsure", "joinStop"}
    /\ \A l \in Workers : wpc[l] = "exit"
    /\ mpc' = "idle"
    /\ stopping' = FALSE
    /\ fresh' = [l \in Lanes |-> FALSE] /\ published' = [l \in Lanes |-> FALSE]
    /\ ring' = [l \in Lanes |-> <<>>]
    /\ excused' = TRUE
    /\ IF mpc = "joinStop"
          THEN /\ started' = FALSE /\ built' = 0
               /\ wpc' = [l \in Lanes |-> "none"]
               /\ pending' = [l \in Lanes |-> {}]
               /\ dropped' = dropped \cup Held
          ELSE /\ wpc' = Spawned(lanes)
               /\ pending' = Kept(built)
               /\ dropped' = dropped \cup Removed(built) \cup UNION {RingMatches(l) : l \in Lanes}
               /\ UNCHANGED <<started, built>>
    /\ UNCHANGED <<cap, lanes, dl, hand, unseen, returned, failed>>

\* After a cooldown the supervisor takes one lane off the stopped engine.
ReduceLaneCap ==
    /\ mpc = "idle" /\ ~started /\ cap > 1
    /\ cap' = cap - 1
    /\ UNCHANGED <<started, lanes, built, stopping, main, worker, mailbox, pending, unseen,
                   hist, failed>>

\* A worker that hashes on a destroyed lane may take the process down; or it
\* goes on as if nothing had happened (WorkerHash).
DanglingLane ==
    /\ \E l \in Lanes : wpc[l] = "hash" /\ l > built
    /\ mpc' = "crashed"
    /\ UNCHANGED <<engine, dl, worker, mailbox, pending, unseen, hist, failed>>

-----------------------------------------------------------------------------
(* Mining thread: drain_pipeline and mine_batch.                           *)

DrainStart ==
    /\ mpc = "idle" /\ started
    /\ mpc' = "drain" /\ dl' = 1
    /\ UNCHANGED <<engine, worker, mailbox, pending, unseen, hist, failed>>

\* Lane by lane under Lane::mu: pending_ is finalised.  The rings stay as they are.
DrainLane ==
    /\ mpc = "drain" /\ dl <= built
    /\ wpc[dl] # "hash"
    /\ returned' = returned \cup pending[dl]
    /\ pending' = [pending EXCEPT ![dl] = {}]
    /\ dl' = dl + 1
    /\ UNCHANGED <<engine, mpc, worker, mailbox, unseen, dropped, excused, failed>>

DrainDone ==
    /\ mpc = "drain" /\ dl > built
    /\ mpc' = "idle" /\ dl' = 1
    /\ UNCHANGED <<engine, worker, mailbox, pending, unseen, hist, failed>>

\* A single lane is hashed by the mining thread itself; an error is thrown.
MineDirect ==
    /\ mpc = "idle" /\ started /\ lanes = 1
    /\ \E result \in Result : RunBatch(1, result) /\ returned' = returned \cup result.matches
    /\ UNCHANGED <<engine, main, worker, mailbox>>

\* Publish work to the lanes that have none yet, or to all when it has changed,
\* and wake the workers at the outer wait.
Publish ==
    /\ mpc = "idle" /\ started /\ lanes > 1 /\ MutexFree
    /\ mpc' = "wait"
    /\ \E changed \in SUBSET (1..lanes) :
          /\ changed \in {1..lanes, {l \in 1..lanes : ~published[l]}}
          /\ fresh' = [l \in Lanes |-> fresh[l] \/ l \in changed]
          /\ published' = [l \in Lanes |-> published[l] \/ l \in changed]
          /\ wpc' = IF changed = {} THEN wpc ELSE [l \in Lanes |-> AwakeTop(l)]
    /\ UNCHANGED <<engine, dl, hand, ring, pending, unseen, hist, failed>>

\* Every lane has a result, or go to sleep on worker_done_cv_.
MineWait ==
    /\ mpc = "wait" /\ MutexFree
    /\ mpc' = IF \A l \in 1..lanes : ring[l] # <<>> THEN "absorb" ELSE "blocking"
    /\ UNCHANGED <<engine, dl, worker, mailbox, pending, unseen, hist, failed>>

MineSleep ==
    /\ mpc = "blocking"
    /\ mpc' = "asleep"
    /\ UNCHANGED <<engine, dl, worker, mailbox, pending, unseen, hist, failed>>

Failing == {l \in 1..lanes : ~Head(ring[l]).ok}
Consumed(S) == [l \in Lanes |-> IF l \in S THEN Tail(ring[l]) ELSE ring[l]]

\* Mutant: the last lane is left out.
MineAbsorbButLast ==
    /\ mpc = "absorb" /\ Failing = {}
    /\ mpc' = "idle"
    /\ ring' = Consumed(1..(lanes - 1))
    /\ returned' = returned \cup UNION {Head(ring[l]).matches : l \in 1..(lanes - 1)}
    /\ wpc' = [l \in Lanes |-> AwakeSpace(l)]
    /\ UNCHANGED <<engine, dl, hand, fresh, published, pending, unseen, dropped, excused, failed>>

\* All heads are good: take them, then notify.
MineAbsorb ==
    /\ mpc = "absorb" /\ Failing = {}
    /\ mpc' = "idle"
    /\ ring' = Consumed(1..lanes)
    /\ returned' = returned \cup UNION {Head(ring[l]).matches : l \in 1..lanes}
    /\ wpc' = [l \in Lanes |-> AwakeSpace(l)]
    /\ UNCHANGED <<engine, dl, hand, fresh, published, pending, unseen, dropped, excused, failed>>

\* The first failed head throws: the lanes before it are consumed and their
\* matches are lost with the local result; nothing is notified and the failed
\* head stays where it is.
MineThrow ==
    /\ mpc = "absorb" /\ Failing # {}
    /\ mpc' = "idle"
    /\ LET before == {l \in 1..lanes : \A f \in Failing : l < f}
       IN  /\ ring' = Consumed(before)
           /\ dropped' = dropped \cup UNION {Head(ring[l]).matches : l \in before}
    /\ UNCHANGED <<engine, dl, worker, fresh, published, pending, unseen, returned, excused, failed>>

\* What the mining thread does once it has called the engine.
Continue ==
    \/ Ensure \/ Join \/ DrainLane \/ DrainDone \/ MineWait \/ MineSleep \/ MineAbsorb \/ MineThrow

Call == Start \/ Replan \/ Stop \/ ReduceLaneCap \/ DrainStart \/ MineDirect \/ Publish

-----------------------------------------------------------------------------

Init ==
    /\ started = FALSE /\ cap = MaxLanes /\ lanes = 1 /\ built = 0 /\ stopping = FALSE
    /\ mpc = "idle" /\ dl = 1
    /\ wpc = [l \in Lanes |-> "none"] /\ hand = [l \in Lanes |-> NoResult]
    /\ fresh = [l \in Lanes |-> FALSE] /\ published = [l \in Lanes |-> FALSE]
    /\ ring = [l \in Lanes |-> <<>>]
    /\ pending = [l \in Lanes |-> {}]
    /\ unseen = Hits
    /\ returned = {} /\ dropped = {} /\ excused = FALSE /\ failed = FALSE

Next ==
    /\ mpc # "crashed"
    /\ Call \/ Continue \/ DanglingLane \/ \E l \in Lanes : Worker(l)

\* The operating system schedules every thread and the GPU finishes its waves.
\* Nothing says how often the supervisor calls the engine.
Spec == /\ Init /\ [][Next]_vars
        /\ WF_vars(mpc # "crashed" /\ Continue)
        /\ \A l \in Lanes : WF_vars(mpc # "crashed" /\ Worker(l))

-----------------------------------------------------------------------------
(* Properties.                                                             *)

TypeOK ==
    /\ started \in BOOLEAN /\ stopping \in BOOLEAN
    /\ cap \in Lanes /\ lanes \in Lanes /\ built \in 0..MaxLanes
    /\ mpc \in MainPlaces /\ dl \in 1..(MaxLanes + 1)
    /\ wpc \in [Lanes -> WorkerPlaces] /\ hand \in [Lanes -> Result]
    /\ fresh \in [Lanes -> BOOLEAN] /\ published \in [Lanes -> BOOLEAN]
    /\ ring \in [Lanes -> Seq(Result)]
    /\ pending \in [Lanes -> SUBSET Hits]
    /\ unseen \subseteq Hits /\ returned \subseteq Hits /\ dropped \subseteq Hits
    /\ excused \in BOOLEAN /\ failed \in BOOLEAN

\* The engine is a HitSource: a match that a wave found is in one place until it
\* is returned, is returned once, and is lost only after a wave has failed or
\* lanes were torn down - whatever the workers do meanwhile.
Source == INSTANCE HitSource WITH held <- Held
ImplementsSource == Source!SourceSpec

\* No worker overwrites a result that was not consumed, and two threads never
\* stand between predicate and sleep with the mutex.
RingsAndMutex ==
    /\ \A l \in Lanes : Len(ring[l]) + (IF wpc[l] \in {"hash", "store"} THEN 1 ELSE 0) <= KRing
    /\ \A k, l \in Lanes : wpc[k] = "spaceBlocking" /\ wpc[l] = "spaceBlocking" => k = l
    /\ mpc = "blocking" => \A l \in Lanes : wpc[l] # "spaceBlocking"

\* When mine_batch reads the rings there is a result in each; the lanes it waits
\* for have a running worker with work.
LanesServed ==
    /\ mpc = "absorb" => \A l \in 1..lanes : ring[l] # <<>>
    /\ mpc \in {"wait", "blocking", "asleep", "absorb"} =>
          /\ Workers = 1..lanes /\ built = lanes /\ ~stopping
          /\ \A l \in 1..lanes : published[l] /\ (wpc[l] \in {"top", "topAsleep"} => fresh[l])

Waiting == mpc \in {"wait", "blocking", "asleep", "absorb"}

\* mine_batch comes back although notifications get lost - as long as no wave
\* has failed.
MineReturns == Waiting ~> ~Waiting \/ failed

\* stop() and set_difficulty() come back: every worker leaves its wait.
StopReturns == mpc \in {"joinStop", "joinEnsure"} ~> mpc \in {"idle", "crashed"}

\* If mine_batch is called again and again, a match that was found does not stay
\* in the double buffer or in a ring for ever.
MatchesComeOut ==
    []<>Waiting => \A h \in Hits : h \in Held ~> (h \notin Held \/ failed)
=============================================================================
