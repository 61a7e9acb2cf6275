--------------------------- MODULE CudaEngineProofs ---------------------------
(***************************************************************************)
(* The lanes of CudaEngine for any number of lanes, any ring and any hits. *)
(* IInv adds to the checked invariants what they need to be inductive: when*)
(* workers exist, when the stop flag is up, and that a worker at its outer *)
(* wait has work.  That the engine implements HitSource needs Custody as   *)
(* well: no hit is in two of the snapshots, workers' hands and ring results*)
(* of all lanes, and whatever loses hits has an excuse.  At the end, what a*)
(* card holds that a match flush parks (MatchDrain).                       *)
(***************************************************************************)
EXTENDS CudaEngine, MatchDrain, TLAPS

\* The mining thread is not in the middle of a resize or a stop.
Calm == mpc \in {"idle", "drain", "wait", "blocking", "asleep", "absorb"}

LanesInv ==
    /\ stopping => mpc \in {"joinEnsure", "joinStop", "crashed"}
    /\ mpc \in {"joinEnsure", "joinStop"} => stopping
    /\ mpc \in {"ensure", "joinEnsure", "drain", "wait", "blocking", "asleep", "absorb"} => started
    /\ started => built = lanes
    /\ ~started => built = 0 /\ \A l \in Lanes : ~published[l]
    /\ \A l \in Lanes : wpc[l] = "exit" => stopping
    /\ Calm => \A l \in Lanes : wpc[l] # "none" <=> (started /\ lanes > 1 /\ l <= lanes)
    /\ \A l \in Lanes : l <= built /\ published[l] /\ wpc[l] \in {"top", "topAsleep"}
                           /\ ~stopping => fresh[l]
    /\ mpc \in {"wait", "blocking", "asleep", "absorb"} =>
          lanes > 1 /\ \A l \in Lanes : l <= lanes => published[l]
    /\ mpc = "absorb" => \A l \in Lanes : l <= lanes => ring[l] # <<>>

IInv == TypeOK /\ RingsAndMutex /\ LanesInv

-----------------------------------------------------------------------------
(* Lemmas about the helpers.                                               *)

LEMMA PlannedInLanes == TypeOK => PlannedLanes \subseteq Lanes
  BY CudaEngineAssumption DEF TypeOK, PlannedLanes, Lanes

LEMMA RingMatchesInHits ==
    ASSUME TypeOK, NEW l \in Lanes PROVE RingMatches(l) \subseteq Hits
<1>1. \A i \in DOMAIN ring[l] : ring[l][i] \in Result
  BY DEF TypeOK
<1> QED
  BY <1>1 DEF RingMatches, Result

LEMMA LaneHoldsInHits ==
    ASSUME TypeOK, NEW l \in Lanes PROVE LaneHolds(l) \subseteq Hits
<1>1. hand[l] \in Result /\ pending[l] \subseteq Hits
  BY DEF TypeOK
<1> QED
  BY <1>1, RingMatchesInHits DEF LaneHolds, Result

\* No lane holds anything but hits.
LEMMA HeldInHits == TypeOK => Held \subseteq Hits
  BY LaneHoldsInHits DEF Held

LEMMA RemovedInHits ==
    ASSUME TypeOK, NEW n \in 0..MaxLanes PROVE Removed(n) \subseteq Hits
<1>1. \A l \in (n + 1)..MaxLanes : pending[l] \subseteq Hits
  BY CudaEngineAssumption DEF TypeOK, Lanes
<1> QED
  BY <1>1 DEF Removed

\* The heads of non-empty rings can be taken, and no ring grows by it.
LEMMA ConsumedRings ==
    ASSUME TypeOK, NEW S \in SUBSET Lanes, \A l \in S : ring[l] # <<>>
    PROVE  /\ Consumed(S) \in [Lanes -> Seq(Result)]
           /\ \A l \in Lanes : Len(Consumed(S)[l]) <= Len(ring[l])
           /\ \A l \in S : Head(ring[l]) \in Result
<1>1. \A l \in Lanes : ring[l] \in Seq(Result)
  BY DEF TypeOK
<1>2. \A l \in S : /\ Tail(ring[l]) \in Seq(Result)
                   /\ Len(Tail(ring[l])) <= Len(ring[l])
                   /\ Head(ring[l]) \in Result
  BY <1>1
<1> QED
  BY <1>1, <1>2 DEF Consumed

-----------------------------------------------------------------------------
(* Every step keeps the invariant.                                         *)

LEMMA WorkerTopKeeps ==
    ASSUME IInv, NEW l \in Lanes, WorkerTop(l) PROVE IInv'
<1> USE CudaEngineAssumption DEF IInv, Lanes, engine, main, worker, mailbox, hist
<1>1. TypeOK'
  BY DEF TypeOK, MainPlaces, WorkerPlaces, LanesInv, WorkerTop, AwakeTop
<1>2. RingsAndMutex'
  BY DEF TypeOK, RingsAndMutex, MutexFree, LanesInv, WorkerTop, AwakeTop
<1>3. LanesInv'
  BY DEF TypeOK, LanesInv, Calm, WorkerTop, AwakeTop
<1> QED
  BY <1>1, <1>2, <1>3

LEMMA WorkerSpaceKeeps ==
    ASSUME IInv, NEW l \in Lanes, WorkerSpace(l) PROVE IInv'
<1> USE CudaEngineAssumption DEF IInv, Lanes, engine, main, worker, mailbox, hist
<1>1. TypeOK'
  BY DEF TypeOK, MainPlaces, WorkerPlaces, LanesInv, WorkerSpace, HasSpace
<1>2. RingsAndMutex'
  BY DEF TypeOK, RingsAndMutex, MutexFree, LanesInv, WorkerSpace, HasSpace
<1>3. LanesInv'
  BY DEF TypeOK, LanesInv, Calm, WorkerSpace, HasSpace
<1> QED
  BY <1>1, <1>2, <1>3

LEMMA WorkerSleepKeeps ==
    ASSUME IInv, NEW l \in Lanes, WorkerSleep(l) PROVE IInv'
<1> USE CudaEngineAssumption DEF IInv, Lanes, engine, main, worker, mailbox, hist
<1>1. TypeOK'
  BY DEF TypeOK, MainPlaces, WorkerPlaces, LanesInv, WorkerSleep
<1>2. RingsAndMutex'
  BY DEF TypeOK, RingsAndMutex, MutexFree, LanesInv, WorkerSleep
<1>3. LanesInv'
  BY DEF TypeOK, LanesInv, Calm, WorkerSleep
<1> QED
  BY <1>1, <1>2, <1>3

\* Either way runBatch ends, what it touches keeps its type.
LEMMA RunBatchTypes ==
    ASSUME TypeOK, NEW l \in Lanes, NEW result \in Result, RunBatch(l, result)
    PROVE  /\ pending' \in [Lanes -> SUBSET Hits]
           /\ unseen' \subseteq Hits /\ dropped' \subseteq Hits
           /\ excused' \in BOOLEAN /\ failed' \in BOOLEAN
<1>1. /\ pending \in [Lanes -> SUBSET Hits] /\ unseen \subseteq Hits /\ dropped \subseteq Hits
      /\ excused \in BOOLEAN /\ failed \in BOOLEAN
  BY DEF TypeOK
<1>2. ASSUME NEW found \in SUBSET unseen, pending' = [pending EXCEPT ![l] = found],
             unseen' = unseen \ found, UNCHANGED <<dropped, excused, failed>>
      PROVE  /\ pending' \in [Lanes -> SUBSET Hits]
             /\ unseen' \subseteq Hits /\ dropped' \subseteq Hits
             /\ excused' \in BOOLEAN /\ failed' \in BOOLEAN
  BY <1>1, <1>2
<1>3. ASSUME dropped' = dropped \cup pending[l], pending' = [pending EXCEPT ![l] = {}],
             excused' = TRUE, failed' = TRUE, UNCHANGED unseen
      PROVE  /\ pending' \in [Lanes -> SUBSET Hits]
             /\ unseen' \subseteq Hits /\ dropped' \subseteq Hits
             /\ excused' \in BOOLEAN /\ failed' \in BOOLEAN
  BY <1>1, <1>3
<1> QED
  BY <1>2, <1>3 DEF RunBatch

LEMMA WorkerHashKeeps ==
    ASSUME IInv, NEW l \in Lanes, WorkerHash(l) PROVE IInv'
<1> USE CudaEngineAssumption DEF IInv, Lanes, engine, main, worker, mailbox, hist
<1>1. TypeOK'
  <2>1. PICK result \in Result : RunBatch(l, result) /\ hand' = [hand EXCEPT ![l] = result]
    BY DEF WorkerHash
  <2>2. hand' \in [Lanes -> Result] /\ wpc' \in [Lanes -> WorkerPlaces]
    BY <2>1 DEF TypeOK, WorkerHash, WorkerPlaces
  <2>3. /\ pending' \in [Lanes -> SUBSET Hits]
        /\ unseen' \subseteq Hits /\ dropped' \subseteq Hits
        /\ excused' \in BOOLEAN /\ failed' \in BOOLEAN
    BY <2>1, RunBatchTypes
  <2> QED
    BY <2>2, <2>3 DEF TypeOK, WorkerHash
<1>2. RingsAndMutex'
  BY DEF TypeOK, RingsAndMutex, MutexFree, LanesInv, WorkerHash, RunBatch, NoResult, Result
<1>3. LanesInv'
  BY DEF TypeOK, LanesInv, Calm, WorkerHash, RunBatch, NoResult, Result
<1> QED
  BY <1>1, <1>2, <1>3

LEMMA WorkerStoreKeeps ==
    ASSUME IInv, NEW l \in Lanes, WorkerStore(l) PROVE IInv'
<1> USE CudaEngineAssumption DEF IInv, Lanes, engine, main, worker, mailbox, hist
<1>0. /\ ring' \in [Lanes -> Seq(Result)]
      /\ Len(ring'[l]) = Len(ring[l]) + 1 /\ ring'[l] # <<>>
      /\ \A k \in Lanes \ {l} : ring'[k] = ring[k]
      /\ \A k \in Lanes : wpc'[k] = IF k = l THEN "space" ELSE AwakeSpace(k)
  <2>1. ring[l] \in Seq(Result) /\ hand[l] \in Result /\ ring \in [Lanes -> Seq(Result)]
    BY DEF TypeOK
  <2>2. Append(ring[l], hand[l]) \in Seq(Result)
        /\ Len(Append(ring[l], hand[l])) = Len(ring[l]) + 1
    BY <2>1
  <2> QED
    BY <2>1, <2>2 DEF WorkerStore
<1>1. TypeOK'
  <2>1. wpc' \in [Lanes -> WorkerPlaces] /\ mpc' \in MainPlaces
    BY DEF TypeOK, WorkerStore, AwakeSpace, AwakeMain, WorkerPlaces, MainPlaces
  <2>2. hand' \in [Lanes -> Result]
    BY DEF TypeOK, WorkerStore, NoResult, Result
  <2> QED
    BY <1>0, <2>1, <2>2 DEF TypeOK, WorkerStore
<1>2. RingsAndMutex'
  <2> HIDE DEF Lanes
  <2>1. \A k \in Lanes : wpc'[k] \in {"hash", "store", "spaceBlocking"} => wpc[k] = wpc'[k] /\ k # l
    BY <1>0 DEF AwakeSpace
  <2>2. mpc' = "blocking" => mpc = "blocking"
    BY DEF WorkerStore, AwakeMain
  <2>a. \A k \in Lanes : Len(ring'[k]) + (IF wpc'[k] \in {"hash", "store"} THEN 1 ELSE 0) <= KRing
    <3> SUFFICES ASSUME NEW k \in Lanes
                 PROVE  Len(ring'[k]) + (IF wpc'[k] \in {"hash", "store"} THEN 1 ELSE 0) <= KRing
      OBVIOUS
    <3>1. Len(ring[k]) \in Nat /\ Len(ring[k]) + (IF wpc[k] \in {"hash", "store"} THEN 1 ELSE 0) <= KRing
      BY DEF TypeOK, RingsAndMutex
    <3>2. CASE k = l
      <4>1. wpc[l] = "store" /\ wpc'[l] = "space"
        BY <1>0 DEF WorkerStore
      <4> QED
        BY <1>0, <3>1, <3>2, <4>1
    <3>3. CASE k # l
      <4>1. Len(ring'[k]) = Len(ring[k])
        BY <1>0, <3>3
      <4>2. CASE wpc'[k] \in {"hash", "store"}
        <5>1. wpc[k] \in {"hash", "store"}
          BY <2>1, <4>2
        <5>2. Len(ring[k]) + 1 <= KRing
          BY <3>1, <5>1
        <5> QED
          BY <4>1, <4>2, <5>2
      <4>3. CASE wpc'[k] \notin {"hash", "store"}
        <5>1. Len(ring[k]) + 0 <= KRing
          <6>1. CASE wpc[k] \in {"hash", "store"}
            BY <3>1, <6>1
          <6>2. CASE wpc[k] \notin {"hash", "store"}
            BY <3>1, <6>2
          <6> QED
            BY <6>1, <6>2
        <5> QED
          BY <4>1, <4>3, <5>1
      <4> QED
        BY <4>2, <4>3
    <3> QED
      BY <3>2, <3>3
  <2>b. \A i, j \in Lanes : wpc'[i] = "spaceBlocking" /\ wpc'[j] = "spaceBlocking" => i = j
    BY <2>1 DEF RingsAndMutex
  <2>c. mpc' = "blocking" => \A k \in Lanes : wpc'[k] # "spaceBlocking"
    BY <2>1, <2>2 DEF RingsAndMutex
  <2> QED
    BY <2>a, <2>b, <2>c DEF RingsAndMutex
<1>3. LanesInv'
  <2> HIDE DEF Lanes
  <2>1. UNCHANGED <<started, cap, lanes, built, stopping, fresh, published>>
    BY DEF WorkerStore
  <2>2. \A k \in Lanes : /\ wpc'[k] \in {"exit", "top", "topAsleep", "none"} => wpc'[k] = wpc[k]
                         /\ wpc[k] = "none" => wpc'[k] = "none"
    BY <1>0 DEF WorkerStore, AwakeSpace
  <2>3. mpc' = mpc \/ (mpc = "asleep" /\ mpc' = "wait")
    BY DEF WorkerStore, AwakeMain
  <2>4. \A k \in Lanes : ring[k] # <<>> => ring'[k] # <<>>
    BY <1>0
  <2> QED
    BY <2>1, <2>2, <2>3, <2>4 DEF LanesInv, Calm
<1> QED
  BY <1>1, <1>2, <1>3

LEMMA StartKeeps ==
    ASSUME IInv, Start PROVE IInv'
<1> USE CudaEngineAssumption DEF IInv, Lanes, engine, main, worker, mailbox, hist
<1>1. TypeOK'
  BY DEF TypeOK, MainPlaces, WorkerPlaces, LanesInv, Start, PlannedLanes, Spawned
<1>2. RingsAndMutex'
  BY DEF TypeOK, RingsAndMutex, MutexFree, LanesInv, Start, PlannedLanes, Spawned
<1>3. LanesInv'
  <2>1. lanes' \in Lanes /\ built' = lanes'
    BY PlannedInLanes DEF Start
  <2>2. /\ \A l \in Lanes : wpc'[l] = (IF lanes' > 1 /\ l <= lanes' THEN "top" ELSE "none")
        /\ mpc' = "idle" /\ started' /\ stopping' = stopping /\ UNCHANGED <<fresh, published>>
    BY DEF Start, Spawned
  <2>3. ~stopping /\ \A l \in Lanes : ~published[l]
    BY DEF LanesInv, Start
  <2> QED
    BY <2>1, <2>2, <2>3 DEF LanesInv, Calm
<1> QED
  BY <1>1, <1>2, <1>3

LEMMA ReplanKeeps ==
    ASSUME IInv, Replan PROVE IInv'
<1> USE CudaEngineAssumption DEF IInv, Lanes, engine, main, worker, mailbox, hist
<1>1. TypeOK'
  <2>1. lanes' \in Lanes /\ built' = lanes' /\ built' \in 0..MaxLanes
    BY PlannedInLanes DEF Replan
  <2>2. pending' \in [Lanes -> SUBSET Hits]
    BY DEF TypeOK, Replan, Kept
  <2>3. dropped' \subseteq Hits
    BY <2>1, RemovedInHits DEF TypeOK, Replan
  <2>4. excused' \in BOOLEAN
    BY DEF TypeOK, Replan
  <2> QED
    BY <2>1, <2>2, <2>3, <2>4 DEF TypeOK, Replan, MainPlaces
<1>2. RingsAndMutex'
  BY DEF TypeOK, RingsAndMutex, MutexFree, LanesInv, Replan, PlannedLanes, Kept
<1>3. LanesInv'
  BY DEF TypeOK, LanesInv, Calm, Replan, PlannedLanes, Kept
<1> QED
  BY <1>1, <1>2, <1>3

LEMMA EnsureKeeps ==
    ASSUME IInv, Ensure PROVE IInv'
<1> USE CudaEngineAssumption DEF IInv, Lanes, engine, main, worker, mailbox, hist
<1>0. CASE UNCHANGED <<engine, dl, worker, mailbox, pending, unseen, hist, failed>>
           /\ mpc = "ensure" /\ mpc' = "idle"
           /\ Workers = (IF lanes > 1 THEN 1..lanes ELSE {})
  <2>1. TypeOK'
    BY <1>0 DEF TypeOK, MainPlaces
  <2>2. RingsAndMutex'
    BY <1>0 DEF RingsAndMutex
  <2>3. \A l \in Lanes : wpc[l] # "none" <=> (lanes > 1 /\ l <= lanes)
    <3>1. \A l \in Lanes : wpc[l] # "none" <=> l \in (IF lanes > 1 THEN 1..lanes ELSE {})
      BY <1>0 DEF Workers
    <3>2. \A l \in Lanes : l \in 1..lanes <=> l <= lanes
      BY DEF TypeOK
    <3> QED
      BY <3>1, <3>2
  <2>4. LanesInv'
    BY <1>0, <2>3 DEF LanesInv, Calm
  <2> QED
    BY <2>1, <2>2, <2>4
<1>a. CASE StopWorkers("joinEnsure") /\ mpc = "ensure"
  <2>1. TypeOK'
    BY <1>a DEF TypeOK, MainPlaces, WorkerPlaces, StopWorkers, AwakeSpace
  <2>2. RingsAndMutex'
    BY <1>a DEF TypeOK, RingsAndMutex, MutexFree, StopWorkers, AwakeSpace
  <2>3. LanesInv'
    BY <1>a DEF TypeOK, LanesInv, Calm, StopWorkers, AwakeSpace
  <2> QED
    BY <2>1, <2>2, <2>3
<1> QED
  BY <1>0, <1>a DEF Ensure

LEMMA StopKeeps ==
    ASSUME IInv, Stop PROVE IInv'
<1> USE CudaEngineAssumption DEF IInv, Lanes, engine, main, worker, mailbox, hist
<1>1. TypeOK'
  BY DEF TypeOK, MainPlaces, WorkerPlaces, LanesInv, Stop, StopWorkers, AwakeSpace
<1>2. RingsAndMutex'
  BY DEF TypeOK, RingsAndMutex, MutexFree, LanesInv, Stop, StopWorkers, AwakeSpace
<1>3. LanesInv'
  BY DEF TypeOK, LanesInv, Calm, Stop, StopWorkers, AwakeSpace
<1> QED
  BY <1>1, <1>2, <1>3

LEMMA JoinKeeps ==
    ASSUME IInv, Join PROVE IInv'
<1> USE CudaEngineAssumption DEF IInv, Lanes, engine, main, worker, mailbox, hist
<1>1. TypeOK'
  <2>1. \A l \in Lanes : RingMatches(l) \subseteq Hits
    BY RingMatchesInHits
  <2>2. Removed(built) \subseteq Hits
    BY RemovedInHits DEF TypeOK
  <2>3. dropped' \subseteq Hits
    BY <2>1, <2>2, HeldInHits DEF TypeOK, Join
  <2>4. pending' \in [Lanes -> SUBSET Hits]
    BY DEF TypeOK, Join, Kept
  <2>5. ring' \in [Lanes -> Seq(Result)]
    BY DEF Join
  <2>6. wpc' \in [Lanes -> WorkerPlaces]
    BY DEF Join, Spawned, WorkerPlaces
  <2>7. started' \in BOOLEAN /\ built' \in 0..MaxLanes
    <3>1. CASE mpc = "joinStop"
      <4>1. started' = FALSE /\ built' = 0
        BY <3>1 DEF Join
      <4>2. built' \in 0..MaxLanes
        BY <4>1
      <4> QED
        BY <4>1, <4>2
    <3>2. CASE mpc = "joinEnsure"
      BY <3>2 DEF TypeOK, Join
    <3> QED
      BY <3>1, <3>2 DEF Join
  <2> QED
    BY <2>3, <2>4, <2>5, <2>6, <2>7 DEF TypeOK, Join, MainPlaces
<1>2. RingsAndMutex'
  BY DEF TypeOK, RingsAndMutex, MutexFree, LanesInv, Join, Spawned, Kept, Workers
<1>3. LanesInv'
  BY DEF TypeOK, LanesInv, Calm, Join, Spawned, Kept, Workers
<1> QED
  BY <1>1, <1>2, <1>3

LEMMA ReduceLaneCapKeeps ==
    ASSUME IInv, ReduceLaneCap PROVE IInv'
<1> USE CudaEngineAssumption DEF IInv, Lanes, engine, main, worker, mailbox, hist
<1>1. TypeOK'
  BY DEF TypeOK, MainPlaces, WorkerPlaces, LanesInv, ReduceLaneCap
<1>2. RingsAndMutex'
  BY DEF TypeOK, RingsAndMutex, MutexFree, LanesInv, ReduceLaneCap
<1>3. LanesInv'
  BY DEF TypeOK, LanesInv, Calm, ReduceLaneCap
<1> QED
  BY <1>1, <1>2, <1>3

LEMMA DanglingLaneKeeps ==
    ASSUME IInv, DanglingLane PROVE IInv'
<1> USE CudaEngineAssumption DEF IInv, Lanes, engine, main, worker, mailbox, hist
<1>1. TypeOK'
  BY DEF TypeOK, MainPlaces, WorkerPlaces, LanesInv, DanglingLane
<1>2. RingsAndMutex'
  BY DEF TypeOK, RingsAndMutex, MutexFree, LanesInv, DanglingLane
<1>3. LanesInv'
  BY DEF TypeOK, LanesInv, Calm, DanglingLane
<1> QED
  BY <1>1, <1>2, <1>3

LEMMA DrainStartKeeps ==
    ASSUME IInv, DrainStart PROVE IInv'
<1> USE CudaEngineAssumption DEF IInv, Lanes, engine, main, worker, mailbox, hist
<1>1. TypeOK'
  BY DEF TypeOK, MainPlaces, WorkerPlaces, LanesInv, DrainStart
<1>2. RingsAndMutex'
  BY DEF TypeOK, RingsAndMutex, MutexFree, LanesInv, DrainStart
<1>3. LanesInv'
  BY DEF TypeOK, LanesInv, Calm, DrainStart
<1> QED
  BY <1>1, <1>2, <1>3

LEMMA DrainLaneKeeps ==
    ASSUME IInv, DrainLane PROVE IInv'
<1> USE CudaEngineAssumption DEF IInv, Lanes, engine, main, worker, mailbox, hist
<1>1. TypeOK'
  BY DEF TypeOK, MainPlaces, WorkerPlaces, LanesInv, DrainLane
<1>2. RingsAndMutex'
  BY DEF TypeOK, RingsAndMutex, MutexFree, LanesInv, DrainLane
<1>3. LanesInv'
  BY DEF TypeOK, LanesInv, Calm, DrainLane
<1> QED
  BY <1>1, <1>2, <1>3

LEMMA DrainDoneKeeps ==
    ASSUME IInv, DrainDone PROVE IInv'
<1> USE CudaEngineAssumption DEF IInv, Lanes, engine, main, worker, mailbox, hist
<1>1. TypeOK'
  BY DEF TypeOK, MainPlaces, WorkerPlaces, LanesInv, DrainDone
<1>2. RingsAndMutex'
  BY DEF TypeOK, RingsAndMutex, MutexFree, LanesInv, DrainDone
<1>3. LanesInv'
  BY DEF TypeOK, LanesInv, Calm, DrainDone
<1> QED
  BY <1>1, <1>2, <1>3

LEMMA MineDirectKeeps ==
    ASSUME IInv, MineDirect PROVE IInv'
<1> USE CudaEngineAssumption DEF IInv, Lanes, engine, main, worker, mailbox, hist
<1>1. TypeOK'
  <2>1. PICK result \in Result : RunBatch(1, result) /\ returned' = returned \cup result.matches
    BY DEF MineDirect
  <2>2. returned' \subseteq Hits
    BY <2>1 DEF TypeOK, Result
  <2>3. 1 \in Lanes
    OBVIOUS
  <2>4. /\ pending' \in [Lanes -> SUBSET Hits]
        /\ unseen' \subseteq Hits /\ dropped' \subseteq Hits
        /\ excused' \in BOOLEAN /\ failed' \in BOOLEAN
    BY <2>1, <2>3, RunBatchTypes
  <2> QED
    BY <2>2, <2>4 DEF TypeOK, MineDirect
<1>2. RingsAndMutex'
  BY DEF TypeOK, RingsAndMutex, MutexFree, LanesInv, MineDirect, RunBatch, Result
<1>3. LanesInv'
  BY DEF TypeOK, LanesInv, Calm, MineDirect, RunBatch, Result
<1> QED
  BY <1>1, <1>2, <1>3

LEMMA PublishKeeps ==
    ASSUME IInv, Publish PROVE IInv'
<1> USE CudaEngineAssumption DEF IInv, Lanes, engine, main, worker, mailbox, hist
<1>w. \A l \in Lanes : wpc'[l] = wpc[l] \/ (wpc[l] = "topAsleep" /\ wpc'[l] = "top")
  BY DEF Publish, AwakeTop, TypeOK
<1>0. /\ fresh' \in [Lanes -> BOOLEAN] /\ published' \in [Lanes -> BOOLEAN]
      /\ \A l \in Lanes : /\ fresh[l] => fresh'[l]
                          /\ published[l] => published'[l]
                          /\ l <= lanes => published'[l]
                          /\ published'[l] => published[l] \/ fresh'[l]
  <2>1. PICK changed \in SUBSET (1..lanes) :
           /\ changed \in {1..lanes, {l \in 1..lanes : ~published[l]}}
           /\ fresh' = [l \in Lanes |-> fresh[l] \/ l \in changed]
           /\ published' = [l \in Lanes |-> published[l] \/ l \in changed]
           /\ wpc' = IF changed = {} THEN wpc ELSE [l \in Lanes |-> AwakeTop(l)]
    BY DEF Publish
  <2>2. \A l \in Lanes : l <= lanes => l \in 1..lanes
    BY DEF TypeOK
  <2>3. \A l \in Lanes : l <= lanes => published[l] \/ l \in changed
    BY <2>1, <2>2
  <2>5. \A l \in Lanes : /\ fresh'[l] <=> fresh[l] \/ l \in changed
                         /\ published'[l] <=> published[l] \/ l \in changed
    BY <2>1
  <2>6. fresh' \in [Lanes -> BOOLEAN] /\ published' \in [Lanes -> BOOLEAN]
    BY <2>1
  <2> QED
    BY <2>3, <2>5, <2>6
<1>1. TypeOK'
  <2>1. wpc' \in [Lanes -> WorkerPlaces]
    BY DEF TypeOK, Publish, AwakeTop, WorkerPlaces
  <2> QED
    BY <1>0, <2>1 DEF TypeOK, Publish, MainPlaces
<1>2. RingsAndMutex'
  <2>1. \A l \in Lanes : /\ wpc'[l] \in {"hash", "store"} <=> wpc[l] \in {"hash", "store"}
                         /\ wpc'[l] = "spaceBlocking" <=> wpc[l] = "spaceBlocking"
    <3> SUFFICES ASSUME NEW l \in Lanes
                 PROVE  /\ wpc'[l] \in {"hash", "store"} <=> wpc[l] \in {"hash", "store"}
                        /\ wpc'[l] = "spaceBlocking" <=> wpc[l] = "spaceBlocking"
      OBVIOUS
    <3> QED
      BY <1>w
  <2>3. mpc' = "wait" /\ ring' = ring
    BY DEF Publish
  <2> QED
    BY <2>1, <2>3 DEF RingsAndMutex
<1>3. LanesInv'
  <2>1. /\ mpc = "idle" /\ mpc' = "wait" /\ started /\ lanes > 1
        /\ UNCHANGED <<started, cap, lanes, built, stopping, ring>>
    BY DEF Publish
  <2>2. \A l \in Lanes : /\ wpc'[l] = "exit" <=> wpc[l] = "exit"
                         /\ wpc'[l] = "none" <=> wpc[l] = "none"
                         /\ wpc'[l] \in {"top", "topAsleep"} => wpc[l] \in {"top", "topAsleep"}
    <3> SUFFICES ASSUME NEW l \in Lanes
                 PROVE  /\ wpc'[l] = "exit" <=> wpc[l] = "exit"
                        /\ wpc'[l] = "none" <=> wpc[l] = "none"
                        /\ wpc'[l] \in {"top", "topAsleep"} => wpc[l] \in {"top", "topAsleep"}
      OBVIOUS
    <3> QED
      BY <1>w
  <2>3. \A l \in Lanes : l <= built' /\ published'[l] /\ wpc'[l] \in {"top", "topAsleep"}
                         /\ ~stopping' => fresh'[l]
    <3> SUFFICES ASSUME NEW l \in Lanes, l <= built, published'[l],
                        wpc'[l] \in {"top", "topAsleep"}, ~stopping
                 PROVE  fresh'[l]
      BY <2>1
    <3>1. wpc[l] \in {"top", "topAsleep"}
      BY <2>2
    <3>2. published[l] => fresh[l]
      BY <3>1 DEF LanesInv
    <3>3. (fresh[l] => fresh'[l]) /\ (published'[l] => published[l] \/ fresh'[l])
      BY <1>0
    <3> QED
      BY <3>2, <3>3
  <2>4. \A l \in Lanes : wpc'[l] # "none" <=> (started' /\ lanes' > 1 /\ l <= lanes')
    <3> SUFFICES ASSUME NEW l \in Lanes
                 PROVE  wpc'[l] # "none" <=> (started /\ lanes > 1 /\ l <= lanes)
      BY <2>1
    <3>1. wpc[l] # "none" <=> (started /\ lanes > 1 /\ l <= lanes)
      BY <2>1 DEF LanesInv, Calm
    <3> QED
      BY <2>2, <3>1
  <2>5. \A l \in Lanes : l <= lanes' => published'[l]
    BY <1>0, <2>1
  <2>6. \A l \in Lanes : wpc'[l] = "exit" => stopping'
    BY <2>1, <2>2 DEF LanesInv
  <2>7. ~stopping' /\ built' = lanes'
    BY <2>1 DEF LanesInv
  <2> QED
    BY <2>1, <2>3, <2>4, <2>5, <2>6, <2>7 DEF LanesInv
<1> QED
  BY <1>1, <1>2, <1>3

LEMMA MineWaitKeeps ==
    ASSUME IInv, MineWait PROVE IInv'
<1> USE CudaEngineAssumption DEF IInv, Lanes, engine, main, worker, mailbox, hist
<1>1. TypeOK'
  BY DEF TypeOK, MainPlaces, WorkerPlaces, LanesInv, MineWait
<1>2. RingsAndMutex'
  BY DEF TypeOK, RingsAndMutex, MutexFree, LanesInv, MineWait
<1>3. LanesInv'
  BY DEF TypeOK, LanesInv, Calm, MineWait
<1> QED
  BY <1>1, <1>2, <1>3

LEMMA MineSleepKeeps ==
    ASSUME IInv, MineSleep PROVE IInv'
<1> USE CudaEngineAssumption DEF IInv, Lanes, engine, main, worker, mailbox, hist
<1>1. TypeOK'
  BY DEF TypeOK, MainPlaces, WorkerPlaces, LanesInv, MineSleep
<1>2. RingsAndMutex'
  BY DEF TypeOK, RingsAndMutex, MutexFree, LanesInv, MineSleep
<1>3. LanesInv'
  BY DEF TypeOK, LanesInv, Calm, MineSleep
<1> QED
  BY <1>1, <1>2, <1>3

LEMMA MineAbsorbKeeps ==
    ASSUME IInv, MineAbsorb PROVE IInv'
<1> USE CudaEngineAssumption DEF IInv, Lanes, engine, main, worker, mailbox, hist
<1>0. /\ 1..lanes \in SUBSET Lanes
      /\ \A l \in 1..lanes : ring[l] # <<>>
  BY DEF TypeOK, LanesInv, MineAbsorb
<1>a. /\ ring' \in [Lanes -> Seq(Result)]
      /\ \A l \in Lanes : Len(ring'[l]) <= Len(ring[l])
      /\ \A l \in 1..lanes : Head(ring[l]) \in Result
  BY <1>0, ConsumedRings DEF MineAbsorb
<1>1. TypeOK'
  <2>1. returned' \subseteq Hits
    BY <1>a DEF TypeOK, MineAbsorb, Result
  <2>2. wpc' \in [Lanes -> WorkerPlaces]
    BY DEF TypeOK, MineAbsorb, AwakeSpace, WorkerPlaces
  <2> QED
    BY <1>a, <2>1, <2>2 DEF TypeOK, MineAbsorb, MainPlaces
<1>2. RingsAndMutex'
  <2> HIDE DEF Lanes
  <2>1. \A l \in Lanes : Len(ring[l]) \in Nat /\ Len(ring'[l]) \in Nat
    BY <1>a DEF TypeOK
  <2>2. \A l \in Lanes : wpc'[l] \in {"hash", "store", "spaceBlocking"} => wpc'[l] = wpc[l]
    BY DEF MineAbsorb, AwakeSpace
  <2>3. mpc' = "idle"
    BY DEF MineAbsorb
  <2>a. \A k \in Lanes : Len(ring'[k]) + (IF wpc'[k] \in {"hash", "store"} THEN 1 ELSE 0) <= KRing
    <3> SUFFICES ASSUME NEW k \in Lanes
                 PROVE  Len(ring'[k]) + (IF wpc'[k] \in {"hash", "store"} THEN 1 ELSE 0) <= KRing
      OBVIOUS
    <3>1. Len(ring[k]) + (IF wpc[k] \in {"hash", "store"} THEN 1 ELSE 0) <= KRing
      BY DEF RingsAndMutex
    <3>2. Len(ring'[k]) <= Len(ring[k]) /\ Len(ring[k]) \in Nat /\ Len(ring'[k]) \in Nat
      BY <1>a, <2>1
    <3>3. CASE wpc'[k] \in {"hash", "store"}
      <4>1. wpc[k] \in {"hash", "store"}
        BY <2>2, <3>3
      <4>2. Len(ring[k]) + 1 <= KRing
        BY <3>1, <4>1
      <4>3. Len(ring'[k]) + 1 <= KRing
        BY <3>2, <4>2
      <4> QED
        BY <3>3, <4>3
    <3>4. CASE wpc'[k] \notin {"hash", "store"}
      <4>1. Len(ring[k]) <= KRing
        <5>1. CASE wpc[k] \in {"hash", "store"}
          BY <3>1, <3>2, <5>1
        <5>2. CASE wpc[k] \notin {"hash", "store"}
          BY <3>1, <3>2, <5>2
        <5> QED
          BY <5>1, <5>2
      <4>2. Len(ring'[k]) + 0 <= KRing
        BY <3>2, <4>1
      <4> QED
        BY <3>4, <4>2
    <3> QED
      BY <3>3, <3>4
  <2>b. \A i, j \in Lanes : wpc'[i] = "spaceBlocking" /\ wpc'[j] = "spaceBlocking" => i = j
    BY <2>2 DEF RingsAndMutex
  <2>c. mpc' = "blocking" => \A k \in Lanes : wpc'[k] # "spaceBlocking"
    BY <2>3 DEF RingsAndMutex
  <2> QED
    BY <2>a, <2>b, <2>c DEF RingsAndMutex
<1>3. LanesInv'
  BY DEF TypeOK, LanesInv, Calm, MineAbsorb, Consumed, AwakeSpace
<1> QED
  BY <1>1, <1>2, <1>3

LEMMA MineThrowKeeps ==
    ASSUME IInv, MineThrow PROVE IInv'
<1> USE CudaEngineAssumption DEF IInv, Lanes, engine, main, worker, mailbox, hist
<1> DEFINE before == {l \in 1..lanes : \A f \in Failing : l < f}
<1>b. /\ before \in SUBSET Lanes
      /\ ring' = Consumed(before)
      /\ dropped' = dropped \cup UNION {Head(ring[l]).matches : l \in before}
  BY DEF TypeOK, MineThrow
<1>0. \A l \in before : ring[l] # <<>>
  BY DEF TypeOK, LanesInv, MineThrow
<1> HIDE DEF before
<1>a. /\ ring' \in [Lanes -> Seq(Result)]
      /\ \A l \in Lanes : Len(ring'[l]) <= Len(ring[l])
      /\ \A l \in before : Head(ring[l]) \in Result
  BY <1>0, <1>b, ConsumedRings
<1>1. TypeOK'
  <2>1. dropped' \subseteq Hits
    BY <1>a, <1>b DEF TypeOK, Result
  <2> QED
    BY <1>a, <2>1 DEF TypeOK, MineThrow, MainPlaces
<1>2. RingsAndMutex'
  <2> HIDE DEF Lanes
  <2>1. \A l \in Lanes : Len(ring[l]) \in Nat /\ Len(ring'[l]) \in Nat
    BY <1>a DEF TypeOK
  <2>2. wpc' = wpc /\ mpc' = "idle"
    BY DEF MineThrow
  <2>a. \A k \in Lanes : Len(ring'[k]) + (IF wpc'[k] \in {"hash", "store"} THEN 1 ELSE 0) <= KRing
    <3> SUFFICES ASSUME NEW k \in Lanes
                 PROVE  Len(ring'[k]) + (IF wpc'[k] \in {"hash", "store"} THEN 1 ELSE 0) <= KRing
      OBVIOUS
    <3>1. Len(ring[k]) + (IF wpc[k] \in {"hash", "store"} THEN 1 ELSE 0) <= KRing
      BY DEF RingsAndMutex
    <3>2. Len(ring'[k]) <= Len(ring[k]) /\ Len(ring[k]) \in Nat /\ Len(ring'[k]) \in Nat
      BY <1>a, <2>1
    <3>3. CASE wpc'[k] \in {"hash", "store"}
      <4>1. wpc[k] \in {"hash", "store"}
        BY <2>2, <3>3
      <4>2. Len(ring[k]) + 1 <= KRing
        BY <3>1, <4>1
      <4>3. Len(ring'[k]) + 1 <= KRing
        BY <3>2, <4>2
      <4> QED
        BY <3>3, <4>3
    <3>4. CASE wpc'[k] \notin {"hash", "store"}
      <4>1. Len(ring[k]) <= KRing
        <5>1. CASE wpc[k] \in {"hash", "store"}
          BY <3>1, <3>2, <5>1
        <5>2. CASE wpc[k] \notin {"hash", "store"}
          BY <3>1, <3>2, <5>2
        <5> QED
          BY <5>1, <5>2
      <4>2. Len(ring'[k]) + 0 <= KRing
        BY <3>2, <4>1
      <4> QED
        BY <3>4, <4>2
    <3> QED
      BY <3>3, <3>4
  <2>b. \A i, j \in Lanes : wpc'[i] = "spaceBlocking" /\ wpc'[j] = "spaceBlocking" => i = j
    BY <2>2 DEF RingsAndMutex
  <2>c. mpc' = "blocking" => \A k \in Lanes : wpc'[k] # "spaceBlocking"
    BY <2>2 DEF RingsAndMutex
  <2> QED
    BY <2>a, <2>b, <2>c DEF RingsAndMutex
<1>3. LanesInv'
  BY DEF TypeOK, LanesInv, Calm, MineThrow, Consumed, Failing
<1> QED
  BY <1>1, <1>2, <1>3

LEMMA InitInv == Init => IInv
<1> SUFFICES ASSUME Init PROVE IInv
  OBVIOUS
<1> USE CudaEngineAssumption DEF Init, Lanes
<1>1. /\ \A l \in Lanes : wpc[l] = "none" /\ hand[l] = NoResult /\ ring[l] = <<>>
      /\ mpc = "idle" /\ built = 0 /\ dl = 1 /\ cap = MaxLanes /\ lanes = 1
  OBVIOUS
<1>2. /\ \A l \in Lanes : ~fresh[l] /\ ~published[l]
      /\ ~started /\ ~stopping
  OBVIOUS
<1>3. TypeOK
  <2>1. cap \in Lanes /\ lanes \in Lanes /\ built \in 0..MaxLanes /\ dl \in 1..(MaxLanes + 1)
    BY <1>1
  <2>2. /\ wpc \in [Lanes -> WorkerPlaces] /\ hand \in [Lanes -> Result]
        /\ ring \in [Lanes -> Seq(Result)] /\ mpc \in MainPlaces
        /\ pending \in [Lanes -> SUBSET Hits]
    BY DEF WorkerPlaces, MainPlaces, NoResult, Result
  <2>3. fresh \in [Lanes -> BOOLEAN] /\ published \in [Lanes -> BOOLEAN]
    OBVIOUS
  <2> QED
    BY <2>1, <2>2, <2>3 DEF TypeOK
<1>4. RingsAndMutex
  <2>1. \A l \in Lanes : Len(ring[l]) = 0 /\ wpc[l] = "none"
    BY <1>1
  <2> QED
    BY <1>1, <2>1 DEF RingsAndMutex
<1>5. LanesInv
  BY <1>1, <1>2 DEF LanesInv, Calm
<1> QED
  BY <1>3, <1>4, <1>5 DEF IInv

LEMMA NextInv == IInv /\ [Next]_vars => IInv'
<1> SUFFICES ASSUME IInv, [Next]_vars PROVE IInv'
  OBVIOUS
<1>1. CASE Call
  BY <1>1, StartKeeps, ReplanKeeps, StopKeeps, ReduceLaneCapKeeps, DrainStartKeeps,
     MineDirectKeeps, PublishKeeps DEF Call
<1>2. CASE Continue
  BY <1>2, EnsureKeeps, JoinKeeps, DrainLaneKeeps, DrainDoneKeeps, MineWaitKeeps,
     MineSleepKeeps, MineAbsorbKeeps, MineThrowKeeps DEF Continue
<1>3. CASE DanglingLane
  BY <1>3, DanglingLaneKeeps
<1>4. ASSUME NEW l \in Lanes, Worker(l) PROVE IInv'
  BY <1>4, WorkerTopKeeps, WorkerSpaceKeeps, WorkerSleepKeeps, WorkerHashKeeps,
     WorkerStoreKeeps DEF Worker
<1>5. CASE UNCHANGED vars
  BY <1>5 DEF IInv, TypeOK, RingsAndMutex, LanesInv, Calm, vars, engine, main, worker,
     mailbox, hist
<1> QED
  BY <1>1, <1>2, <1>3, <1>4, <1>5 DEF Next

-----------------------------------------------------------------------------
(* Theorems.                                                               *)

LEMMA Invariance == Spec => []IInv
  BY InitInv, NextInv, PTL DEF Spec

\* Type correctness of the engine.
THEOREM TypeCorrect == Spec => []TypeOK
<1>1. IInv => TypeOK
  BY DEF IInv
<1> QED
  BY <1>1, Invariance, PTL

\* No worker ever overwrites a result that mine_batch has not consumed, and the
\* mutex is held by one thread at most: lane_worker_loop and mine_batch.
THEOREM RingsSafe == Spec => []RingsAndMutex
<1>1. IInv => RingsAndMutex
  BY DEF IInv
<1> QED
  BY <1>1, Invariance, PTL

LEMMA InvServesLanes == IInv => LanesServed
<1> SUFFICES ASSUME IInv PROVE LanesServed
  OBVIOUS
<1> USE CudaEngineAssumption DEF IInv, Lanes
<1>1. \A l \in Lanes : l \in 1..lanes <=> l <= lanes
  BY DEF TypeOK
<1>2. 1..lanes \subseteq Lanes
  BY DEF TypeOK
<1>3. mpc = "absorb" => \A l \in 1..lanes : ring[l] # <<>>
  BY <1>1, <1>2 DEF LanesInv
<1>4. ASSUME Waiting
      PROVE  /\ Workers = 1..lanes /\ built = lanes /\ ~stopping
             /\ \A l \in 1..lanes : published[l] /\ (wpc[l] \in {"top", "topAsleep"} => fresh[l])
  <2>1. started /\ built = lanes /\ ~stopping /\ lanes > 1
    BY <1>4 DEF LanesInv, Waiting
  <2>2. \A l \in Lanes : wpc[l] # "none" <=> l <= lanes
    BY <1>4, <2>1 DEF LanesInv, Waiting, Calm
  <2>3. Workers = 1..lanes
    BY <1>1, <1>2, <2>2 DEF Workers
  <2>4. \A l \in 1..lanes : published[l]
    BY <1>1, <1>2, <1>4 DEF LanesInv, Waiting
  <2>5. ASSUME NEW l \in 1..lanes, wpc[l] \in {"top", "topAsleep"} PROVE fresh[l]
    BY <1>1, <1>2, <2>1, <2>4, <2>5 DEF LanesInv
  <2> QED
    BY <2>1, <2>3, <2>4, <2>5
<1> QED
  BY <1>3, <1>4 DEF LanesServed, Waiting

\* When mine_batch reads the rings every lane has a result in its ring, and the
\* lanes it waits for have a running worker with published work.
THEOREM EveryLaneServed == Spec => []LanesServed
  BY Invariance, InvServesLanes, PTL

-----------------------------------------------------------------------------
(* The engine implements HitSource.  Custody says where a hit can be: unseen,*)
(* returned or dropped, or in one spot of one lane - the snapshot, the       *)
(* worker's hand or one result of the ring.                                  *)

Apart(S, T) == S \cap T = {}

\* The matches of a sequence of results, each of them in one result only.
MatchesOf(results) == UNION {results[i].matches : i \in DOMAIN results}
Once(results) ==
    \A i, j \in DOMAIN results : i # j => Apart(results[i].matches, results[j].matches)

LaneOnce(l) ==
    /\ Apart(pending[l], hand[l].matches)
    /\ Apart(pending[l], RingMatches(l))
    /\ Apart(hand[l].matches, RingMatches(l))
    /\ Once(ring[l])

LanesApart == \A k, l \in Lanes : k # l => Apart(LaneHolds(k), LaneHolds(l))

UnseenApart == Apart(unseen, Held) /\ Apart(unseen, returned) /\ Apart(unseen, dropped)

\* An error that still has to come out, and what excuses the loss it causes.
FailuresExcused ==
    \A l \in Lanes : /\ ~hand[l].ok => excused
                     /\ \A i \in DOMAIN ring[l] : ~ring[l][i].ok => excused

\* A lane that sync_lanes removed has a snapshot again only while the worker that
\* still hashes on it has not been joined.
RemovedLanes ==
    \A l \in Lanes : l > built /\ pending[l] # {} =>
        wpc[l] # "none" /\ mpc \in {"ensure", "joinEnsure", "joinStop", "crashed"}

Custody ==
    /\ \A l \in Lanes : wpc[l] # "store" => hand[l] = NoResult
    /\ \A l \in Lanes : LaneOnce(l)
    /\ LanesApart /\ UnseenApart /\ FailuresExcused /\ RemovedLanes

LEMMA AppendedMatches ==
    ASSUME NEW s \in Seq(Result), NEW r \in Result, Once(s), Apart(r.matches, MatchesOf(s))
    PROVE  /\ MatchesOf(Append(s, r)) = MatchesOf(s) \cup r.matches
           /\ Once(Append(s, r))
<1>1. /\ DOMAIN Append(s, r) = 1..(Len(s) + 1) /\ DOMAIN s = 1..Len(s) /\ Len(s) \in Nat
      /\ \A i \in 1..Len(s) : Append(s, r)[i] = s[i]
      /\ Append(s, r)[Len(s) + 1] = r
  OBVIOUS
<1>2. \A i \in DOMAIN Append(s, r) : i \in DOMAIN s \/ i = Len(s) + 1
  BY <1>1
<1>3. \A i \in DOMAIN s : i \in DOMAIN Append(s, r) /\ i # Len(s) + 1
  BY <1>1
<1>4. Len(s) + 1 \in DOMAIN Append(s, r)
  BY <1>1
<1> DEFINE t == Append(s, r)
           last == Len(s) + 1
<1>5. /\ \A i \in DOMAIN t : i \in DOMAIN s \/ i = last
      /\ \A i \in DOMAIN s : i \in DOMAIN t /\ i # last /\ t[i] = s[i]
      /\ last \in DOMAIN t /\ t[last] = r
  BY <1>1, <1>2, <1>3, <1>4
<1> HIDE DEF t, last
<1>6. MatchesOf(t) = MatchesOf(s) \cup r.matches
  BY <1>5, Zenon DEF MatchesOf
<1>7. \A i \in DOMAIN s : Apart(s[i].matches, r.matches)
  BY DEF MatchesOf, Apart
<1>8. Once(t)
  <2> SUFFICES ASSUME NEW i \in DOMAIN t, NEW j \in DOMAIN t, i # j
               PROVE  Apart(t[i].matches, t[j].matches)
    BY DEF Once
  <2>1. CASE i \in DOMAIN s /\ j \in DOMAIN s
    BY <1>5, <2>1 DEF Once
  <2>2. CASE i \in DOMAIN s /\ j = last
    BY <1>5, <1>7, <2>2
  <2>3. CASE i = last /\ j \in DOMAIN s
    BY <1>5, <1>7, <2>3 DEF Apart
  <2> QED
    BY <1>5, <2>1, <2>2, <2>3
<1> QED
  BY <1>6, <1>8 DEF t

\* Taking the head of a ring takes its matches and nothing else.
LEMMA TailMatches ==
    ASSUME NEW s \in Seq(Result), s # <<>>, Once(s)
    PROVE  /\ MatchesOf(Tail(s)) = MatchesOf(s) \ Head(s).matches
           /\ Head(s).matches \subseteq MatchesOf(s)
           /\ Once(Tail(s))
           /\ \A i \in DOMAIN Tail(s) : \E j \in DOMAIN s : Tail(s)[i] = s[j]
<1>1. /\ DOMAIN s = 1..Len(s) /\ Len(s) \in Nat \ {0} /\ Head(s) = s[1] /\ 1 \in DOMAIN s
      /\ DOMAIN Tail(s) = 1..(Len(s) - 1)
      /\ \A i \in 1..(Len(s) - 1) : Tail(s)[i] = s[i + 1]
  OBVIOUS
<1>2. \A i \in DOMAIN Tail(s) : i + 1 \in DOMAIN s /\ i + 1 # 1 /\ Tail(s)[i] = s[i + 1]
  BY <1>1
<1>3. ASSUME NEW j \in DOMAIN s, j # 1
      PROVE  \E i \in DOMAIN Tail(s) : i + 1 = j /\ Tail(s)[i] = s[j]
  <2>1. j - 1 \in DOMAIN Tail(s) /\ (j - 1) + 1 = j
    BY <1>1, <1>3
  <2> QED
    BY <1>2, <2>1
<1>4. MatchesOf(Tail(s)) \subseteq MatchesOf(s) \ Head(s).matches
  <2> SUFFICES ASSUME NEW h \in MatchesOf(Tail(s)) PROVE h \in MatchesOf(s) /\ h \notin s[1].matches
    BY <1>1
  <2>1. PICK i \in DOMAIN Tail(s) : h \in Tail(s)[i].matches
    BY DEF MatchesOf
  <2>2. PICK j \in DOMAIN s : j # 1 /\ h \in s[j].matches
    BY <1>2, <2>1
  <2>3. Apart(s[j].matches, s[1].matches)
    BY <1>1, <2>2 DEF Once
  <2> QED
    BY <2>2, <2>3 DEF MatchesOf, Apart
<1>5. MatchesOf(s) \ Head(s).matches \subseteq MatchesOf(Tail(s))
  <2> SUFFICES ASSUME NEW h \in MatchesOf(s), h \notin s[1].matches PROVE h \in MatchesOf(Tail(s))
    BY <1>1
  <2>1. PICK j \in DOMAIN s : h \in s[j].matches
    BY DEF MatchesOf
  <2>2. j # 1
    BY <2>1
  <2>3. PICK i \in DOMAIN Tail(s) : Tail(s)[i] = s[j]
    BY <1>3, <2>2
  <2> QED
    BY <2>1, <2>3 DEF MatchesOf
<1>6. Head(s).matches \subseteq MatchesOf(s)
  BY <1>1 DEF MatchesOf
<1>7. Once(Tail(s))
  <2> SUFFICES ASSUME NEW i \in DOMAIN Tail(s), NEW j \in DOMAIN Tail(s), i # j
               PROVE  Apart(Tail(s)[i].matches, Tail(s)[j].matches)
    BY DEF Once
  <2>1. i + 1 # j + 1
    BY <1>1
  <2> QED
    BY <1>2, <2>1 DEF Once
<1> QED
  BY <1>2, <1>4, <1>5, <1>6, <1>7

-----------------------------------------------------------------------------
(* How a step moves hits.                                                  *)

Moves(new, out, lost) ==
    /\ new \subseteq unseen /\ unseen' = unseen \ new
    /\ out \subseteq Held /\ lost \subseteq Held /\ Apart(out, lost)
    /\ Held' = (Held \cup new) \ (out \cup lost)
    /\ returned' = returned \cup out /\ dropped' = dropped \cup lost
    /\ excused' \in {excused, TRUE} /\ (lost # {} => excused')

\* A step that moves hits so is a step of the source, and hits not found yet are
\* nowhere else.
LEMMA MovesAreSteps ==
    ASSUME TypeOK, UnseenApart, NEW new, NEW out, NEW lost, Moves(new, out, lost)
    PROVE  Source!Step /\ UnseenApart'
<1>1. new \in SUBSET (Hits \ (Held \cup returned \cup dropped))
  BY DEF TypeOK, UnseenApart, Apart, Moves
<1>2. out \in SUBSET Held /\ lost \in SUBSET Held /\ out \cap lost = {}
  BY DEF Moves, Apart
<1>3. Source!Step
  BY <1>1, <1>2 DEF Moves, Source!Step
<1>4. UnseenApart'
  BY DEF Moves, UnseenApart, Apart
<1> QED
  BY <1>3, <1>4

\* A lane that a step leaves alone.
LEMMA SameLane ==
    ASSUME NEW k \in Lanes, pending'[k] = pending[k], hand'[k] = hand[k], ring'[k] = ring[k]
    PROVE  LaneHolds(k)' = LaneHolds(k) /\ (LaneOnce(k) => LaneOnce(k)')
  BY DEF LaneHolds, LaneOnce, RingMatches, Once

\* All that Custody says of hits in lanes, when no lane changes.
LEMMA SameLanes ==
    ASSUME UNCHANGED <<pending, hand, ring>>
    PROVE  /\ Held' = Held
           /\ LanesApart => LanesApart'
           /\ (\A l \in Lanes : LaneOnce(l)) => \A l \in Lanes : LaneOnce(l)'
<1>1. \A k \in Lanes : LaneHolds(k)' = LaneHolds(k) /\ (LaneOnce(k) => LaneOnce(k)')
  BY SameLane
<1>2. Held' = Held
  BY <1>1 DEF Held
<1>3. LanesApart => LanesApart'
  BY <1>1 DEF LanesApart
<1> QED
  BY <1>1, <1>2, <1>3

\* One lane finds new hits and lets some go.
LEMMA OneLaneMoves ==
    ASSUME LanesApart, UnseenApart, NEW l \in Lanes,
           NEW new \in SUBSET unseen, NEW gone \in SUBSET LaneHolds(l),
           LaneHolds(l)' = (LaneHolds(l) \cup new) \ gone,
           \A k \in Lanes \ {l} : LaneHolds(k)' = LaneHolds(k)
    PROVE  /\ gone \subseteq Held
           /\ Held' = (Held \cup new) \ gone
           /\ LanesApart'
<1>1. gone \subseteq Held
  BY DEF Held
<1>2. Apart(new, Held)
  BY DEF UnseenApart, Apart
<1>3. \A k \in Lanes \ {l} : Apart(LaneHolds(k), gone) /\ Apart(LaneHolds(k), new)
  BY <1>2 DEF LanesApart, Apart, Held
<1>4. Held' = (Held \cup new) \ gone
  <2>1. Held' \subseteq (Held \cup new) \ gone
    <3> SUFFICES ASSUME NEW h \in Held' PROVE h \in (Held \cup new) \ gone
      OBVIOUS
    <3>1. PICK k \in Lanes : h \in LaneHolds(k)'
      BY DEF Held
    <3>2. CASE k = l
      BY <3>1, <3>2 DEF Held
    <3>3. CASE k # l
      BY <1>3, <3>1, <3>3 DEF Held, Apart
    <3> QED
      BY <3>2, <3>3
  <2>2. (Held \cup new) \ gone \subseteq Held'
    <3> SUFFICES ASSUME NEW h \in Held \cup new, h \notin gone PROVE h \in Held'
      OBVIOUS
    <3>1. CASE h \in new
      BY <3>1 DEF Held
    <3>2. CASE h \in Held
      <4>1. PICK k \in Lanes : h \in LaneHolds(k)
        BY <3>2 DEF Held
      <4>2. h \in LaneHolds(k)'
        BY <4>1
      <4> QED
        BY <4>2 DEF Held
    <3> QED
      BY <3>1, <3>2
  <2> QED
    BY <2>1, <2>2
<1>5. LanesApart'
  <2> SUFFICES ASSUME NEW j \in Lanes, NEW k \in Lanes, j # k
               PROVE  Apart(LaneHolds(j)', LaneHolds(k)')
    BY DEF LanesApart, Apart
  <2>1. Apart(LaneHolds(j), LaneHolds(k))
    BY DEF LanesApart
  <2>2. CASE j = l
    BY <1>3, <2>1, <2>2 DEF Apart
  <2>3. CASE k = l
    BY <1>3, <2>1, <2>3 DEF Apart
  <2>4. CASE j # l /\ k # l
    BY <2>1, <2>4
  <2> QED
    BY <2>2, <2>3, <2>4
<1> QED
  BY <1>1, <1>4, <1>5

\* Every lane lets go of its share of some hits.
LEMMA LanesLetGo ==
    ASSUME LanesApart, NEW gone, \A k \in Lanes : LaneHolds(k)' = LaneHolds(k) \ gone
    PROVE  Held' = Held \ gone /\ LanesApart'
<1>1. Held' = Held \ gone
  BY DEF Held
<1>2. LanesApart'
  BY DEF LanesApart, Apart
<1> QED
  BY <1>1, <1>2

-----------------------------------------------------------------------------
(* Every step is a step of the source and keeps Custody.                   *)

\* Steps that move no hit.
LEMMA QuietSteps ==
    ASSUME IInv, Custody, UNCHANGED <<pending, hand, ring, unseen, returned, dropped, excused>>,
           \A l \in Lanes : wpc[l] = "store" => wpc'[l] = "store",
           RemovedLanes'
    PROVE  Source!Step /\ Custody'
<1>1. /\ Held' = Held /\ LanesApart' /\ \A l \in Lanes : LaneOnce(l)'
  BY SameLanes DEF Custody
<1>2. Moves({}, {}, {})
  BY <1>1 DEF Moves, Apart, IInv, TypeOK
<1>3. Source!Step /\ UnseenApart'
  BY <1>2, MovesAreSteps DEF Custody, IInv
<1>4. FailuresExcused'
  BY DEF Custody, FailuresExcused
<1>5. \A l \in Lanes : wpc'[l] # "store" => hand'[l] = NoResult
  BY DEF Custody
<1>6. Custody'
  BY <1>1, <1>3, <1>4, <1>5 DEF Custody, NoResult
<1> QED
  BY <1>3, <1>6

LEMMA WorkerMovesQuietly ==
    ASSUME IInv, Custody, NEW l \in Lanes, WorkerTop(l) \/ WorkerSpace(l) \/ WorkerSleep(l)
    PROVE  Source!Step /\ Custody'
<1>1. UNCHANGED <<pending, hand, ring, unseen, returned, dropped, excused, built, mpc>>
  BY DEF WorkerTop, WorkerSpace, WorkerSleep, engine, main, mailbox, hist
<1>2. /\ \A k \in Lanes : wpc[k] = "store" => wpc'[k] = "store"
      /\ \A k \in Lanes : wpc[k] # "none" => wpc'[k] # "none"
  BY DEF IInv, TypeOK, WorkerTop, WorkerSpace, WorkerSleep
<1>3. RemovedLanes'
  BY <1>1, <1>2 DEF Custody, RemovedLanes
<1> QED
  BY <1>1, <1>2, <1>3, QuietSteps

LEMMA MainMovesQuietly ==
    ASSUME IInv, Custody,
           DrainStart \/ DrainDone \/ MineWait \/ MineSleep \/ Publish \/ ReduceLaneCap
    PROVE  Source!Step /\ Custody'
<1>1. UNCHANGED <<pending, hand, ring, unseen, returned, dropped, excused, built>>
  BY DEF DrainStart, DrainDone, MineWait, MineSleep, Publish, ReduceLaneCap, engine, main, worker,
         mailbox, hist
<1>2. mpc \notin {"ensure", "joinEnsure", "joinStop", "crashed"}
  BY DEF DrainStart, DrainDone, MineWait, MineSleep, Publish, ReduceLaneCap
<1>3. \A k \in Lanes : wpc[k] = "store" => wpc'[k] = "store"
  BY DEF IInv, TypeOK, DrainStart, DrainDone, MineWait, MineSleep, Publish, ReduceLaneCap, AwakeTop,
         worker
<1>4. RemovedLanes'
  BY <1>1, <1>2 DEF Custody, RemovedLanes
<1> QED
  BY <1>1, <1>3, <1>4, QuietSteps

LEMMA StartMovesQuietly ==
    ASSUME IInv, Custody, Start PROVE Source!Step /\ Custody'
<1>1. UNCHANGED <<pending, hand, ring, unseen, returned, dropped, excused>>
  BY DEF Start, mailbox, hist
<1>2. \A k \in Lanes : wpc[k] # "store"
  BY DEF IInv, LanesInv, Calm, Start
<1>3. \A k \in Lanes : k > built
  BY DEF IInv, LanesInv, Start, Lanes
<1>4. RemovedLanes'
  BY <1>1, <1>3 DEF Custody, RemovedLanes, Start
<1> QED
  BY <1>1, <1>2, <1>4, QuietSteps

LEMMA StopMovesQuietly ==
    ASSUME IInv, Custody, Stop \/ (Ensure /\ mpc' = "joinEnsure") \/ DanglingLane
    PROVE  Source!Step /\ Custody'
<1>1. UNCHANGED <<pending, hand, ring, unseen, returned, dropped, excused, built>>
  BY DEF Stop, Ensure, StopWorkers, DanglingLane, engine, worker, mailbox, hist
<1>2. /\ \A k \in Lanes : wpc[k] = "store" => wpc'[k] = "store"
      /\ \A k \in Lanes : wpc[k] # "none" => wpc'[k] # "none"
  BY DEF IInv, TypeOK, Stop, Ensure, StopWorkers, DanglingLane, AwakeSpace, worker
<1>3. mpc' \in {"joinEnsure", "joinStop", "crashed"}
  BY DEF Stop, Ensure, StopWorkers, DanglingLane
<1>4. RemovedLanes'
  BY <1>1, <1>2, <1>3 DEF Custody, RemovedLanes
<1> QED
  BY <1>1, <1>2, <1>4, QuietSteps

\* The workers of set_difficulty's plan are there already.
LEMMA EnsureMovesQuietly ==
    ASSUME IInv, Custody, Ensure PROVE Source!Step /\ Custody'
<1>1. CASE mpc' = "joinEnsure"
  BY <1>1, StopMovesQuietly
<1>2. CASE mpc' # "joinEnsure"
  <2>1. /\ mpc = "ensure" /\ Workers = (IF lanes > 1 THEN 1..lanes ELSE {})
        /\ UNCHANGED <<engine, dl, worker, mailbox, pending, unseen, hist, failed>>
    BY <1>2 DEF Ensure, StopWorkers
  <2>2. UNCHANGED <<pending, hand, ring, unseen, returned, dropped, excused, built, wpc>>
    BY <2>1 DEF engine, worker, mailbox, hist
  <2>3. built = lanes
    BY <2>1 DEF IInv, LanesInv
  <2>4. \A l \in Lanes : l > built => wpc[l] = "none"
    BY <2>1, <2>3 DEF IInv, TypeOK, Workers, Lanes
  <2>5. RemovedLanes'
    BY <2>2, <2>4 DEF Custody, RemovedLanes
  <2> QED
    BY <2>2, <2>5, QuietSteps
<1> QED
  BY <1>1, <1>2

\* runBatch on lane l: what goes from the snapshot to the result, and what is found.
LEMMA RunBatchCases ==
    ASSUME TypeOK, NEW l \in Lanes, NEW result \in Result, RunBatch(l, result)
    PROVE  \E found \in SUBSET unseen :
              /\ pending' = [pending EXCEPT ![l] = found] /\ unseen' = unseen \ found
              /\ \/ /\ result.ok /\ result.matches = pending[l]
                    /\ dropped' = dropped /\ excused' = excused
                 \/ /\ ~result.ok /\ result.matches = {} /\ found = {}
                    /\ dropped' = dropped \cup pending[l] /\ excused'
<1>1. CASE result = [ok |-> TRUE, matches |-> pending[l]]
  <2>1. result.ok /\ result.matches = pending[l]
    BY <1>1
  <2> QED
    BY <1>1, <2>1 DEF RunBatch
<1>2. CASE result = [ok |-> FALSE, matches |-> {}]
  <2>1. ~result.ok /\ result.matches = {}
    BY <1>2
  <2>2. /\ dropped' = dropped \cup pending[l] /\ pending' = [pending EXCEPT ![l] = {}]
        /\ excused' /\ unseen' = unseen
    BY <1>2, <2>1 DEF RunBatch
  <2>3. {} \in SUBSET unseen /\ unseen' = unseen \ {}
    BY <2>2
  <2> QED
    BY <2>1, <2>2, <2>3
<1> QED
  BY <1>1, <1>2 DEF RunBatch

LEMMA WorkerHashMoves ==
    ASSUME IInv, Custody, NEW l \in Lanes, WorkerHash(l) PROVE Source!Step /\ Custody'
<1>1. PICK result \in Result : RunBatch(l, result) /\ hand' = [hand EXCEPT ![l] = result]
  BY DEF WorkerHash
<1>2. PICK found \in SUBSET unseen :
              /\ pending' = [pending EXCEPT ![l] = found] /\ unseen' = unseen \ found
              /\ \/ /\ result.ok /\ result.matches = pending[l]
                    /\ dropped' = dropped /\ excused' = excused
                 \/ /\ ~result.ok /\ result.matches = {} /\ found = {}
                    /\ dropped' = dropped \cup pending[l] /\ excused'
  BY <1>1, RunBatchCases DEF IInv
<1>3. /\ wpc[l] = "hash" /\ wpc' = [wpc EXCEPT ![l] = "store"]
      /\ UNCHANGED <<ring, returned, built, mpc>>
  BY DEF WorkerHash, engine, main, mailbox
<1>4. /\ pending'[l] = found /\ hand'[l] = result /\ wpc'[l] = "store"
      /\ \A k \in Lanes \ {l} :
            pending'[k] = pending[k] /\ hand'[k] = hand[k] /\ wpc'[k] = wpc[k]
  BY <1>1, <1>2, <1>3 DEF IInv, TypeOK
<1>5. hand[l] = NoResult /\ hand[l].matches = {}
  BY <1>3 DEF Custody, NoResult
<1>6. RingMatches(l)' = RingMatches(l)
  BY <1>3 DEF RingMatches
<1>7. \A k \in Lanes \ {l} : LaneHolds(k)' = LaneHolds(k) /\ LaneOnce(k)'
  BY <1>3, <1>4, SameLane DEF Custody
<1>8. Apart(found, LaneHolds(l))
  BY DEF Custody, UnseenApart, Apart, Held
<1>9. LaneOnce(l)
  BY DEF Custody
<1>a. LaneOnce(l)'
  <2>1. Once(ring[l])'
    BY <1>3, <1>9 DEF LaneOnce, Once
  <2>2. Apart(found, result.matches) /\ Apart(found, RingMatches(l)) /\ Apart(result.matches, RingMatches(l))
    BY <1>2, <1>8, <1>9 DEF LaneOnce, LaneHolds, Apart
  <2> QED
    BY <1>4, <1>6, <2>1, <2>2 DEF LaneOnce
<1> DEFINE gone == IF result.ok THEN {} ELSE pending[l]
<1>b. gone \subseteq LaneHolds(l) /\ LaneHolds(l)' = (LaneHolds(l) \cup found) \ gone
  <2>1. LaneHolds(l)' = found \cup result.matches \cup RingMatches(l)
    BY <1>4, <1>6 DEF LaneHolds
  <2>2. LaneHolds(l) = pending[l] \cup RingMatches(l)
    BY <1>5 DEF LaneHolds
  <2>3. CASE result.ok
    BY <1>2, <2>1, <2>2, <2>3
  <2>4. CASE ~result.ok
    <3>1. Apart(pending[l], RingMatches(l))
      BY <1>9 DEF LaneOnce
    <3> QED
      BY <1>2, <2>1, <2>2, <2>4, <3>1 DEF Apart
  <2> QED
    BY <2>3, <2>4
<1> HIDE DEF gone
<1>c. gone \subseteq Held /\ Held' = (Held \cup found) \ gone /\ LanesApart'
  BY <1>7, <1>b, OneLaneMoves DEF Custody
<1>d. Moves(found, {}, gone)
  <2>1. dropped' = dropped \cup gone /\ excused' \in {excused, TRUE} /\ (gone # {} => excused')
    BY <1>2 DEF gone, IInv, TypeOK
  <2> QED
    BY <1>2, <1>3, <1>c, <2>1 DEF Moves, Apart
<1>e. Source!Step /\ UnseenApart'
  BY <1>d, MovesAreSteps DEF Custody, IInv
<1>f. FailuresExcused'
  BY <1>2, <1>3, <1>4 DEF Custody, FailuresExcused, IInv, TypeOK
<1>g. RemovedLanes'
  <2> SUFFICES ASSUME NEW k \in Lanes, k > built, pending'[k] # {}
               PROVE  wpc'[k] # "none" /\ mpc \in {"ensure", "joinEnsure", "joinStop", "crashed"}
    BY <1>3 DEF RemovedLanes
  <2>1. CASE k = l
    <3>1. ~Calm
      BY <1>3, <2>1 DEF IInv, LanesInv, Lanes, TypeOK
    <3>2. mpc \in {"ensure", "joinEnsure", "joinStop", "crashed"}
      BY <3>1 DEF IInv, TypeOK, MainPlaces, Calm
    <3> QED
      BY <1>4, <2>1, <3>2
  <2>2. CASE k # l
    BY <1>4, <2>2 DEF Custody, RemovedLanes
  <2> QED
    BY <2>1, <2>2
<1>h. \A k \in Lanes : wpc'[k] # "store" => hand'[k] = NoResult
  BY <1>4 DEF Custody
<1>i. \A k \in Lanes : LaneOnce(k)'
  BY <1>7, <1>a
<1> QED
  BY <1>c, <1>e, <1>f, <1>g, <1>h, <1>i DEF Custody, NoResult

LEMMA MineDirectMoves ==
    ASSUME IInv, Custody, MineDirect PROVE Source!Step /\ Custody'
<1>0. 1 \in Lanes
  BY CudaEngineAssumption DEF Lanes
<1>1. PICK result \in Result : RunBatch(1, result) /\ returned' = returned \cup result.matches
  BY DEF MineDirect
<1>2. PICK found \in SUBSET unseen :
              /\ pending' = [pending EXCEPT ![1] = found] /\ unseen' = unseen \ found
              /\ \/ /\ result.ok /\ result.matches = pending[1]
                    /\ dropped' = dropped /\ excused' = excused
                 \/ /\ ~result.ok /\ result.matches = {} /\ found = {}
                    /\ dropped' = dropped \cup pending[1] /\ excused'
  BY <1>0, <1>1, RunBatchCases DEF IInv
<1>3. UNCHANGED <<hand, wpc, ring, built, mpc>> /\ mpc = "idle" /\ built = 1
  BY DEF MineDirect, engine, main, worker, mailbox, IInv, LanesInv
<1>4. /\ pending'[1] = found
      /\ \A k \in Lanes \ {1} : pending'[k] = pending[k]
  BY <1>0, <1>2 DEF IInv, TypeOK
<1>6. RingMatches(1)' = RingMatches(1)
  BY <1>3 DEF RingMatches
<1>7. \A k \in Lanes \ {1} : LaneHolds(k)' = LaneHolds(k) /\ LaneOnce(k)'
  BY <1>3, <1>4, SameLane DEF Custody
<1>8. Apart(found, LaneHolds(1))
  BY <1>0 DEF Custody, UnseenApart, Apart, Held
<1>9. LaneOnce(1)
  BY <1>0 DEF Custody
<1>a. LaneOnce(1)'
  <2>1. Once(ring[1])'
    BY <1>3, <1>9 DEF LaneOnce, Once
  <2>2. /\ Apart(found, hand[1].matches) /\ Apart(found, RingMatches(1))
        /\ Apart(hand[1].matches, RingMatches(1))
    BY <1>8, <1>9 DEF LaneOnce, LaneHolds, Apart
  <2> QED
    BY <1>3, <1>4, <1>6, <2>1, <2>2 DEF LaneOnce
<1>b. /\ pending[1] \subseteq LaneHolds(1)
      /\ LaneHolds(1)' = (LaneHolds(1) \cup found) \ pending[1]
  <2>1. LaneHolds(1)' = found \cup hand[1].matches \cup RingMatches(1)
    BY <1>3, <1>4, <1>6 DEF LaneHolds
  <2>2. Apart(pending[1], hand[1].matches) /\ Apart(pending[1], RingMatches(1))
    BY <1>9 DEF LaneOnce
  <2> QED
    BY <1>8, <2>1, <2>2 DEF LaneHolds, Apart
<1>c. pending[1] \subseteq Held /\ Held' = (Held \cup found) \ pending[1] /\ LanesApart'
  BY <1>0, <1>7, <1>b, OneLaneMoves DEF Custody
<1>d. Moves(found, result.matches, IF result.ok THEN {} ELSE pending[1])
  <2>1. CASE result.ok
    BY <1>1, <1>2, <1>c, <2>1 DEF Moves, Apart, IInv, TypeOK
  <2>2. CASE ~result.ok
    BY <1>1, <1>2, <1>c, <2>2 DEF Moves, Apart, IInv, TypeOK
  <2> QED
    BY <2>1, <2>2
<1>e. Source!Step /\ UnseenApart'
  BY <1>d, MovesAreSteps DEF Custody, IInv
<1>f. FailuresExcused'
  BY <1>2, <1>3 DEF Custody, FailuresExcused, IInv, TypeOK
<1>g. RemovedLanes'
  BY <1>3, <1>4 DEF Custody, RemovedLanes, Lanes
<1>h. \A k \in Lanes : wpc'[k] # "store" => hand'[k] = NoResult
  BY <1>3 DEF Custody
<1>i. \A k \in Lanes : LaneOnce(k)'
  BY <1>7, <1>a
<1> QED
  BY <1>c, <1>e, <1>f, <1>g, <1>h, <1>i DEF Custody, NoResult

LEMMA WorkerStoreMoves ==
    ASSUME IInv, Custody, NEW l \in Lanes, WorkerStore(l) PROVE Source!Step /\ Custody'
<1>1. /\ wpc[l] = "store" /\ UNCHANGED <<pending, unseen, returned, dropped, excused, built>>
      /\ ring[l] \in Seq(Result) /\ hand[l] \in Result
      /\ ring'[l] = Append(ring[l], hand[l]) /\ hand'[l] = NoResult
      /\ \A k \in Lanes \ {l} : ring'[k] = ring[k] /\ hand'[k] = hand[k]
      /\ wpc' = [k \in Lanes |-> IF k = l THEN "space" ELSE AwakeSpace(k)]
  BY DEF WorkerStore, IInv, TypeOK, engine, hist
<1>2. \A k \in Lanes \ {l} : LaneHolds(k)' = LaneHolds(k) /\ LaneOnce(k)'
  BY <1>1, SameLane DEF Custody
<1>3. LaneOnce(l) /\ RingMatches(l) = MatchesOf(ring[l]) /\ RingMatches(l)' = MatchesOf(ring'[l])
  BY DEF Custody, RingMatches, MatchesOf
<1>4. /\ RingMatches(l)' = RingMatches(l) \cup hand[l].matches
      /\ Once(ring'[l])
  BY <1>1, <1>3, AppendedMatches DEF LaneOnce
<1>5. LaneOnce(l)'
  <2>1. Apart(pending[l], RingMatches(l)')
    BY <1>3, <1>4 DEF LaneOnce, Apart
  <2>2. Once(ring[l])'
    BY <1>4 DEF Once
  <2> QED
    BY <1>1, <2>1, <2>2 DEF LaneOnce, NoResult, Apart
<1>6. LaneHolds(l)' = (LaneHolds(l) \cup {}) \ {}
  BY <1>1, <1>4 DEF LaneHolds, NoResult
<1>7. Held' = (Held \cup {}) \ {} /\ LanesApart'
  <2>1. {} \in SUBSET unseen /\ {} \in SUBSET LaneHolds(l)
    OBVIOUS
  <2> QED
    BY <1>2, <1>6, <2>1, OneLaneMoves DEF Custody
<1>8. Moves({}, {}, {})
  BY <1>1, <1>7 DEF Moves, Apart
<1>9. Source!Step /\ UnseenApart'
  BY <1>8, MovesAreSteps DEF Custody, IInv
<1>a. FailuresExcused'
  <2>1. \A i \in DOMAIN ring'[l] : ring'[l][i] = hand[l] \/ \E j \in DOMAIN ring[l] : ring'[l][i] = ring[l][j]
    BY <1>1
  <2>2. \A i \in DOMAIN ring'[l] : ~ring'[l][i].ok => excused
    BY <2>1 DEF Custody, FailuresExcused
  <2> QED
    <3> SUFFICES ASSUME NEW k \in Lanes
                 PROVE  /\ ~hand'[k].ok => excused
                        /\ \A i \in DOMAIN ring'[k] : ~ring'[k][i].ok => excused
      BY <1>1 DEF FailuresExcused
    <3>1. CASE k = l
      <4>1. hand'[l].ok
        BY <1>1 DEF NoResult
      <4> QED
        BY <2>2, <3>1, <4>1
    <3>2. CASE k # l
      BY <1>1, <3>2 DEF Custody, FailuresExcused
    <3> QED
      BY <3>1, <3>2
<1>b. RemovedLanes'
  <2>1. \A k \in Lanes : wpc[k] # "none" => wpc'[k] # "none"
    BY <1>1 DEF AwakeSpace
  <2>2. mpc \in {"ensure", "joinEnsure", "joinStop", "crashed"} => mpc' = mpc
    BY DEF WorkerStore, AwakeMain
  <2> QED
    BY <1>1, <2>1, <2>2 DEF Custody, RemovedLanes
<1>c. \A k \in Lanes : wpc'[k] # "store" => hand'[k] = NoResult
  BY <1>1 DEF Custody, AwakeSpace
<1>d. \A k \in Lanes : LaneOnce(k)'
  BY <1>2, <1>5
<1> QED
  BY <1>7, <1>9, <1>a, <1>b, <1>c, <1>d DEF Custody, NoResult

LEMMA DrainOfLaneMoves ==
    ASSUME IInv, Custody, NEW l \in Lanes, dl = l, DrainLane PROVE Source!Step /\ Custody'
<1>1. /\ returned' = returned \cup pending[l] /\ pending'[l] = {}
      /\ \A k \in Lanes \ {l} : pending'[k] = pending[k]
      /\ UNCHANGED <<hand, wpc, ring, unseen, dropped, excused, built, mpc>>
  BY DEF DrainLane, IInv, TypeOK, engine, worker, mailbox
<1>2. \A k \in Lanes \ {l} : LaneHolds(k)' = LaneHolds(k) /\ LaneOnce(k)'
  BY <1>1, SameLane DEF Custody
<1>3. LaneOnce(l) /\ RingMatches(l)' = RingMatches(l)
  BY <1>1 DEF Custody, RingMatches
<1>4. LaneOnce(l)'
  BY <1>1, <1>3 DEF LaneOnce, Once, Apart
<1>5. /\ pending[l] \subseteq LaneHolds(l)
      /\ LaneHolds(l)' = (LaneHolds(l) \cup {}) \ pending[l]
  BY <1>1, <1>3 DEF LaneHolds, LaneOnce, Apart
<1> DEFINE gone == pending[l]
<1>h. LaneHolds(l)' = (LaneHolds(l) \cup {}) \ gone
  BY <1>5
<1>g. {} \in SUBSET unseen /\ gone \in SUBSET LaneHolds(l)
  BY <1>5
<1> HIDE DEF gone
<1>m. gone \subseteq Held /\ Held' = (Held \cup {}) \ gone /\ LanesApart'
  BY <1>2, <1>h, <1>g, OneLaneMoves DEF Custody
<1>6. pending[l] \subseteq Held /\ Held' = (Held \cup {}) \ pending[l] /\ LanesApart'
  BY <1>m DEF gone
<1>7. Moves({}, pending[l], {})
  BY <1>1, <1>6 DEF Moves, Apart
<1>8. Source!Step /\ UnseenApart'
  BY <1>7, MovesAreSteps DEF Custody, IInv
<1>9. FailuresExcused' /\ RemovedLanes'
  BY <1>1 DEF Custody, FailuresExcused, RemovedLanes
<1>a. \A k \in Lanes : (wpc'[k] # "store" => hand'[k] = NoResult) /\ LaneOnce(k)'
  BY <1>1, <1>2, <1>4 DEF Custody
<1> QED
  BY <1>6, <1>8, <1>9, <1>a DEF Custody, NoResult

LEMMA DrainLaneMoves ==
    ASSUME IInv, Custody, DrainLane PROVE Source!Step /\ Custody'
<1>1. dl \in Lanes
  BY CudaEngineAssumption DEF IInv, TypeOK, DrainLane, Lanes
<1>2. PICK l \in Lanes : dl = l
  BY <1>1
<1> QED
  BY <1>2, DrainOfLaneMoves

\* sync_lanes takes snapshots away only when it removes lanes.
LEMMA ReplanMoves ==
    ASSUME IInv, Custody, Replan PROVE Source!Step /\ Custody'
<1>1. built' \in Lanes
  BY PlannedInLanes DEF Replan, IInv
<1>2. PICK n \in Lanes : built' = n
  BY <1>1
<1>3. /\ mpc = "idle" /\ mpc' = "ensure" /\ built \in 0..MaxLanes
      /\ UNCHANGED <<hand, wpc, ring, unseen, returned>>
      /\ dropped' = dropped \cup Removed(n) /\ excused' = (excused \/ n < built)
      /\ \A k \in Lanes : pending'[k] = IF k <= n THEN pending[k] ELSE {}
  BY <1>2 DEF Replan, Kept, worker, mailbox, IInv, TypeOK
<1>4. \A k \in Lanes : RingMatches(k)' = RingMatches(k)
  BY <1>3 DEF RingMatches
<1>5. Removed(n) \subseteq Held
  BY <1>2 DEF Removed, Held, LaneHolds, Lanes
<1>6. \A k \in Lanes : k <= n \/ k \in (n + 1)..MaxLanes
  BY <1>2 DEF Lanes
<1>7. \A k \in (n + 1)..MaxLanes : k \in Lanes /\ ~(k <= n)
  BY <1>2 DEF Lanes
<1>8. \A k \in Lanes : LaneHolds(k)' = LaneHolds(k) \ Removed(n)
  <2> SUFFICES ASSUME NEW k \in Lanes PROVE LaneHolds(k)' = LaneHolds(k) \ Removed(n)
    OBVIOUS
  <2>1. \A j \in Lanes : j # k => Apart(LaneHolds(k), pending[j])
    BY DEF Custody, LanesApart, Apart, LaneHolds
  <2>2. LaneHolds(k)' = pending'[k] \cup hand[k].matches \cup RingMatches(k)
    BY <1>3, <1>4 DEF LaneHolds
  <2>3. CASE k <= n
    <3>1. Apart(LaneHolds(k), Removed(n))
      BY <1>7, <2>1, <2>3 DEF Removed, Apart
    <3>2. LaneHolds(k)' = LaneHolds(k)
      BY <1>3, <2>2, <2>3 DEF LaneHolds
    <3> QED
      BY <3>1, <3>2 DEF Apart
  <2>4. CASE ~(k <= n)
    <3>1. pending[k] \subseteq Removed(n) /\ pending'[k] = {}
      BY <1>3, <1>6, <2>4 DEF Removed
    <3>2. Apart(hand[k].matches \cup RingMatches(k), pending[k])
      BY DEF Custody, LaneOnce, Apart
    <3>3. Apart(hand[k].matches \cup RingMatches(k), Removed(n))
      BY <1>7, <2>1, <3>2 DEF Removed, Apart, LaneHolds
    <3> QED
      BY <2>2, <3>1, <3>3 DEF LaneHolds, Apart
  <2> QED
    BY <2>3, <2>4
<1>9. Held' = Held \ Removed(n) /\ LanesApart'
  BY <1>8, LanesLetGo DEF Custody
<1>a. Removed(n) # {} => n < built
  <2> SUFFICES ASSUME Removed(n) # {} PROVE n < built
    OBVIOUS
  <2>1. PICK k \in (n + 1)..MaxLanes : pending[k] # {}
    BY DEF Removed
  <2>2. k \in Lanes /\ ~(k > built)
    BY <1>3, <1>7, <2>1 DEF Custody, RemovedLanes
  <2> QED
    BY <1>2, <1>3, <1>7, <2>2 DEF Lanes
<1>b. Moves({}, {}, Removed(n))
  <2>1. excused' \in {excused, TRUE}
    BY <1>3 DEF IInv, TypeOK
  <2> QED
    BY <1>3, <1>5, <1>9, <1>a, <2>1 DEF Moves, Apart
<1>c. Source!Step /\ UnseenApart'
  BY <1>b, MovesAreSteps DEF Custody, IInv
<1>d. FailuresExcused'
  BY <1>3 DEF Custody, FailuresExcused
<1>e. RemovedLanes'
  BY <1>2, <1>3, <1>6, <1>7 DEF RemovedLanes, Lanes
<1>f. \A k \in Lanes : (wpc'[k] # "store" => hand'[k] = NoResult) /\ LaneOnce(k)'
  <2> SUFFICES ASSUME NEW k \in Lanes
               PROVE  (wpc'[k] # "store" => hand'[k] = NoResult) /\ LaneOnce(k)'
    OBVIOUS
  <2>1. LaneOnce(k) /\ pending'[k] \subseteq pending[k]
    BY <1>3 DEF Custody
  <2>2. LaneOnce(k)'
    BY <1>3, <1>4, <2>1 DEF LaneOnce, Once, Apart
  <2> QED
    BY <1>3, <2>2 DEF Custody
<1> QED
  BY <1>9, <1>c, <1>d, <1>e, <1>f DEF Custody, NoResult

\* The rings are emptied and lanes are destroyed: what they held is gone.
LEMMA JoinMoves ==
    ASSUME IInv, Custody, Join PROVE Source!Step /\ Custody'
<1>1. /\ UNCHANGED <<hand, unseen, returned>> /\ excused' /\ mpc' = "idle"
      /\ \A l \in Lanes : ring'[l] = <<>>
      /\ \A l \in Lanes : wpc[l] = "none" \/ wpc[l] = "exit"
  BY DEF Join, Workers
<1>2. \A l \in Lanes : hand[l] = NoResult /\ hand[l].matches = {} /\ hand[l].ok
  BY <1>1 DEF Custody, NoResult
<1>3. \A l \in Lanes : RingMatches(l)' = {}
  BY <1>1 DEF RingMatches
<1>4. \A l \in Lanes : LaneHolds(l)' = pending'[l] /\ LaneHolds(l) = pending[l] \cup RingMatches(l)
  BY <1>1, <1>2, <1>3 DEF LaneHolds
<1> DEFINE gone == IF mpc = "joinStop" THEN Held
                   ELSE Removed(built) \cup UNION {RingMatches(l) : l \in Lanes}
<1>5. dropped' = dropped \cup gone
  BY DEF Join
<1>6. gone \subseteq Held
  <2>1. Removed(built) \subseteq Held
    BY DEF Removed, Held, LaneHolds, Lanes, IInv, TypeOK
  <2>2. UNION {RingMatches(l) : l \in Lanes} \subseteq Held
    BY DEF Held, LaneHolds
  <2> QED
    BY <2>1, <2>2
<1>7. \A k \in Lanes : LaneHolds(k)' = LaneHolds(k) \ gone
  <2> SUFFICES ASSUME NEW k \in Lanes PROVE pending'[k] = LaneHolds(k) \ gone
    BY <1>4
  <2>1. CASE mpc = "joinStop"
    <3>1. pending'[k] = {}
      BY <2>1 DEF Join
    <3> QED
      BY <2>1, <3>1 DEF Held
  <2>2. CASE mpc # "joinStop"
    <3>1. pending'[k] = (IF k <= built THEN pending[k] ELSE {})
      BY <2>2 DEF Join, Kept
    <3>2. \A j \in Lanes : Apart(pending[k], RingMatches(j))
      BY DEF Custody, LanesApart, LaneOnce, LaneHolds, Apart
    <3>3. /\ built \in Int /\ MaxLanes \in Int
          /\ \A j \in (built + 1)..MaxLanes : j \in Lanes /\ ~(j <= built)
      BY CudaEngineAssumption DEF IInv, TypeOK, Lanes
    <3>4. CASE k <= built
      <4>1. Apart(pending[k], Removed(built))
        BY <3>3, <3>4 DEF Removed, Apart, Custody, LanesApart, LaneHolds
      <4> QED
        BY <1>4, <2>2, <3>1, <3>2, <3>4, <4>1 DEF Apart
    <3>5. CASE ~(k <= built)
      <4>1. k \in (built + 1)..MaxLanes
        BY <3>3, <3>5 DEF Lanes
      <4>2. pending[k] \subseteq Removed(built)
        BY <4>1 DEF Removed
      <4> QED
        BY <1>4, <2>2, <3>1, <3>5, <4>2
    <3> QED
      BY <3>4, <3>5
  <2> QED
    BY <2>1, <2>2
<1> HIDE DEF gone
<1>8. Held' = Held \ gone /\ LanesApart'
  BY <1>7, LanesLetGo DEF Custody
<1>9. Moves({}, {}, gone)
  BY <1>1, <1>5, <1>6, <1>8 DEF Moves, Apart, Join
<1>a. Source!Step /\ UnseenApart'
  BY <1>9, MovesAreSteps DEF Custody, IInv
<1>b. FailuresExcused'
  BY <1>1 DEF FailuresExcused
<1>c. RemovedLanes'
  <2>1. CASE mpc = "joinStop"
    BY <2>1 DEF Join, RemovedLanes
  <2>2. CASE mpc # "joinStop"
    BY <2>2 DEF Join, Kept, RemovedLanes, IInv, TypeOK, Lanes
  <2> QED
    BY <2>1, <2>2
<1>d. \A k \in Lanes : hand'[k] = NoResult /\ LaneOnce(k)'
  <2> SUFFICES ASSUME NEW k \in Lanes PROVE hand'[k] = NoResult /\ LaneOnce(k)'
    OBVIOUS
  <2>1. hand'[k] = NoResult /\ hand'[k].matches = {} /\ ring'[k] = <<>>
    BY <1>1, <1>2
  <2>2. Once(ring'[k])
    BY <2>1 DEF Once
  <2> QED
    BY <1>3, <2>1, <2>2 DEF LaneOnce, Once, Apart
<1> QED
  BY <1>8, <1>a, <1>b, <1>c, <1>d DEF Custody, NoResult

Taken(S) == UNION {Head(ring[l]).matches : l \in S}

\* mine_batch takes the heads of some lanes: exactly their matches leave the engine.
LEMMA HeadsTaken ==
    ASSUME IInv, Custody, NEW S \in SUBSET Lanes, \A l \in S : ring[l] # <<>>,
           ring' = Consumed(S), UNCHANGED <<pending, hand>>
    PROVE  /\ Taken(S) \subseteq Held
           /\ Held' = Held \ Taken(S)
           /\ LanesApart'
           /\ \A l \in Lanes : LaneOnce(l)'
           /\ \A l \in Lanes : \A i \in DOMAIN ring'[l] : \E j \in DOMAIN ring[l] : ring'[l][i] = ring[l][j]
<1>1. \A l \in Lanes : /\ ring[l] \in Seq(Result) /\ LaneOnce(l)
                       /\ RingMatches(l) = MatchesOf(ring[l]) /\ RingMatches(l)' = MatchesOf(ring'[l])
                       /\ ring'[l] = IF l \in S THEN Tail(ring[l]) ELSE ring[l]
  BY DEF IInv, TypeOK, Custody, RingMatches, MatchesOf, Consumed
<1>2. ASSUME NEW l \in S
      PROVE  /\ RingMatches(l)' = RingMatches(l) \ Head(ring[l]).matches
             /\ Head(ring[l]).matches \subseteq RingMatches(l)
             /\ Once(ring'[l])
             /\ \A i \in DOMAIN ring'[l] : \E j \in DOMAIN ring[l] : ring'[l][i] = ring[l][j]
  <2>1. Once(ring[l]) /\ ring[l] \in Seq(Result) /\ ring[l] # <<>> /\ ring'[l] = Tail(ring[l])
    BY <1>1, <1>2 DEF LaneOnce
  <2> QED
    BY <1>1, <2>1, TailMatches
<1>3. \A l \in Lanes \ S : ring'[l] = ring[l] /\ RingMatches(l)' = RingMatches(l)
  BY <1>1
<1>4. Taken(S) \subseteq Held
  BY <1>2 DEF Taken, Held, LaneHolds
<1>5. ASSUME NEW k \in Lanes, NEW l \in S, k # l
      PROVE  Apart(LaneHolds(k), Head(ring[l]).matches)
  BY <1>2, <1>5 DEF Custody, LanesApart, LaneHolds, Apart
<1>6. \A k \in Lanes : LaneHolds(k)' = LaneHolds(k) \ Taken(S)
  <2> SUFFICES ASSUME NEW k \in Lanes PROVE LaneHolds(k)' = LaneHolds(k) \ Taken(S)
    OBVIOUS
  <2>1. LaneHolds(k)' = pending[k] \cup hand[k].matches \cup RingMatches(k)'
    BY DEF LaneHolds
  <2>2. CASE k \in S
    <3>1. LaneHolds(k)' = LaneHolds(k) \ Head(ring[k]).matches
      <4>1. Apart(pending[k], Head(ring[k]).matches) /\ Apart(hand[k].matches, Head(ring[k]).matches)
        BY <1>1, <1>2, <2>2 DEF LaneOnce, Apart
      <4> QED
        BY <1>2, <2>1, <2>2, <4>1 DEF LaneHolds, Apart
    <3>2. ASSUME NEW h \in LaneHolds(k) PROVE h \in Taken(S) <=> h \in Head(ring[k]).matches
      BY <1>5, <2>2 DEF Taken, Apart
    <3> QED
      BY <3>1, <3>2
  <2>3. CASE k \notin S
    <3>1. LaneHolds(k)' = LaneHolds(k)
      BY <1>3, <2>1, <2>3 DEF LaneHolds
    <3>2. Apart(LaneHolds(k), Taken(S))
      BY <1>5, <2>3 DEF Taken, Apart
    <3> QED
      BY <3>1, <3>2 DEF Apart
  <2> QED
    BY <2>2, <2>3
<1>7. Held' = Held \ Taken(S) /\ LanesApart'
  BY <1>6, LanesLetGo DEF Custody
<1>8. \A l \in Lanes : LaneOnce(l)'
  <2> SUFFICES ASSUME NEW l \in Lanes PROVE LaneOnce(l)'
    OBVIOUS
  <2>1. Once(ring'[l])
    BY <1>1, <1>2, <1>3 DEF LaneOnce
  <2>2. RingMatches(l)' \subseteq RingMatches(l)
    BY <1>2, <1>3
  <2> QED
    BY <1>1, <2>1, <2>2 DEF LaneOnce, Once, Apart
<1>9. \A l \in Lanes : \A i \in DOMAIN ring'[l] : \E j \in DOMAIN ring[l] : ring'[l][i] = ring[l][j]
  BY <1>2, <1>3
<1> QED
  BY <1>4, <1>7, <1>8, <1>9

LEMMA MineAbsorbMoves ==
    ASSUME IInv, Custody, MineAbsorb PROVE Source!Step /\ Custody'
<1>1. PICK n \in Lanes : lanes = n
  BY DEF IInv, TypeOK
<1>2. 1..n \in SUBSET Lanes /\ \A l \in 1..n : ring[l] # <<>>
  <2>1. \A l \in 1..n : l \in Lanes /\ l <= lanes
    BY <1>1, CudaEngineAssumption DEF Lanes
  <2> QED
    BY <2>1 DEF IInv, LanesInv, MineAbsorb
<1>3. /\ ring' = Consumed(1..n) /\ returned' = returned \cup Taken(1..n)
      /\ UNCHANGED <<pending, hand, unseen, dropped, excused, built>>
  BY <1>1 DEF MineAbsorb, Taken, engine
<1>4. /\ Taken(1..n) \subseteq Held /\ Held' = Held \ Taken(1..n) /\ LanesApart'
      /\ \A l \in Lanes : LaneOnce(l)'
      /\ \A l \in Lanes : \A i \in DOMAIN ring'[l] : \E j \in DOMAIN ring[l] : ring'[l][i] = ring[l][j]
  BY <1>2, <1>3, HeadsTaken
<1>5. Moves({}, Taken(1..n), {})
  BY <1>3, <1>4 DEF Moves, Apart
<1>6. Source!Step /\ UnseenApart'
  BY <1>5, MovesAreSteps DEF Custody, IInv
<1>7. FailuresExcused'
  BY <1>3, <1>4 DEF Custody, FailuresExcused
<1>8. RemovedLanes'
  BY <1>3 DEF Custody, RemovedLanes, MineAbsorb
<1>9. \A k \in Lanes : wpc'[k] # "store" => hand'[k] = NoResult
  BY <1>3 DEF Custody, MineAbsorb, AwakeSpace
<1> QED
  BY <1>4, <1>6, <1>7, <1>8, <1>9 DEF Custody, NoResult

\* The heads in front of the first failed one are lost, and the failure excuses it.
LEMMA MineThrowMoves ==
    ASSUME IInv, Custody, MineThrow PROVE Source!Step /\ Custody'
<1>1. PICK n \in Lanes : lanes = n
  BY DEF IInv, TypeOK
<1>a. \A l \in 1..lanes : l \in Lanes /\ l <= lanes
  BY <1>1, CudaEngineAssumption DEF Lanes
<1>b. {l \in 1..lanes : \A f \in Failing : l < f} \in SUBSET Lanes
  BY <1>a
<1>2. PICK S \in SUBSET Lanes : S = {l \in 1..lanes : \A f \in Failing : l < f}
  BY <1>b
<1>3. /\ \A l \in 1..lanes : ring[l] # <<>> /\ l \in Lanes
      /\ S \subseteq 1..lanes
  BY <1>2, <1>a DEF IInv, LanesInv, MineThrow
<1>4. /\ ring' = Consumed(S) /\ dropped' = dropped \cup Taken(S)
      /\ UNCHANGED <<pending, hand, unseen, returned, excused, built, wpc>>
  BY <1>2 DEF MineThrow, Taken, engine, worker
<1>5. /\ Taken(S) \subseteq Held /\ Held' = Held \ Taken(S) /\ LanesApart'
      /\ \A l \in Lanes : LaneOnce(l)'
      /\ \A l \in Lanes : \A i \in DOMAIN ring'[l] : \E j \in DOMAIN ring[l] : ring'[l][i] = ring[l][j]
  BY <1>3, <1>4, HeadsTaken
<1>6. excused
  <2>1. PICK f \in 1..lanes : ~Head(ring[f]).ok
    BY DEF MineThrow, Failing
  <2>2. ring[f] \in Seq(Result) /\ ring[f] # <<>> /\ f \in Lanes
    BY <1>3 DEF IInv, TypeOK
  <2>3. 1 \in DOMAIN ring[f] /\ Head(ring[f]) = ring[f][1]
    BY <2>2
  <2> QED
    BY <2>1, <2>2, <2>3 DEF Custody, FailuresExcused
<1>7. Moves({}, {}, Taken(S))
  BY <1>4, <1>5, <1>6 DEF Moves, Apart
<1>8. Source!Step /\ UnseenApart'
  BY <1>7, MovesAreSteps DEF Custody, IInv
<1>9. FailuresExcused'
  BY <1>4, <1>5 DEF Custody, FailuresExcused
<1>c. RemovedLanes' /\ \A k \in Lanes : wpc'[k] # "store" => hand'[k] = NoResult
  BY <1>4 DEF Custody, RemovedLanes, MineThrow
<1> QED
  BY <1>5, <1>8, <1>9, <1>c DEF Custody, NoResult

LEMMA InitCustody == Init => Source!SourceInit /\ Custody
<1> SUFFICES ASSUME Init PROVE Source!SourceInit /\ Custody
  OBVIOUS
<1>1. \A l \in Lanes : hand[l] = NoResult /\ ring[l] = <<>> /\ pending[l] = {}
  BY DEF Init
<1>2. \A l \in Lanes : hand[l].ok /\ hand[l].matches = {} /\ RingMatches(l) = {}
  BY <1>1 DEF NoResult, RingMatches
<1>3. \A l \in Lanes : LaneHolds(l) = {} /\ LaneOnce(l)
  BY <1>1, <1>2 DEF LaneHolds, LaneOnce, Once, Apart
<1>4. Held = {}
  BY <1>3 DEF Held
<1>5. LanesApart /\ UnseenApart /\ FailuresExcused /\ RemovedLanes
  BY <1>1, <1>2, <1>3, <1>4 DEF LanesApart, UnseenApart, FailuresExcused, RemovedLanes, Apart, Init
<1> QED
  BY <1>1, <1>3, <1>4, <1>5 DEF Custody, Source!SourceInit, Init

LEMMA NextCustody ==
    IInv /\ Custody /\ [Next]_vars => [Source!Step]_(Source!sourceVars) /\ Custody'
<1> SUFFICES ASSUME IInv, Custody, [Next]_vars
             PROVE  [Source!Step]_(Source!sourceVars) /\ Custody'
  OBVIOUS
<1>1. CASE Call
  BY <1>1, StartMovesQuietly, ReplanMoves, StopMovesQuietly, MainMovesQuietly, MineDirectMoves DEF Call
<1>2. CASE Continue
  BY <1>2, EnsureMovesQuietly, JoinMoves, DrainLaneMoves, MainMovesQuietly, MineAbsorbMoves,
     MineThrowMoves DEF Continue
<1>3. CASE DanglingLane
  BY <1>3, StopMovesQuietly
<1>4. ASSUME NEW l \in Lanes, Worker(l) PROVE Source!Step /\ Custody'
  BY <1>4, WorkerMovesQuietly, WorkerHashMoves, WorkerStoreMoves DEF Worker
<1>5. CASE UNCHANGED vars
  <2>1. /\ UNCHANGED <<pending, hand, ring, unseen, returned, dropped, excused>>
        /\ UNCHANGED <<wpc, mpc, built>>
    BY <1>5 DEF vars, engine, main, worker, mailbox, hist
  <2>2. RemovedLanes'
    BY <2>1 DEF Custody, RemovedLanes
  <2> QED
    BY <2>1, <2>2, QuietSteps
<1> QED
  BY <1>1, <1>2, <1>3, <1>4, <1>5 DEF Next

\* The engine keeps the promise its callers build on: every match of a wave comes
\* out of runBatch, the rings and mine_batch or drain_pipeline once, and is lost
\* only after a wave failed or lanes were torn down - for any number of lanes.
THEOREM EngineIsHitSource == Spec => ImplementsSource
<1>1. Spec => [](IInv /\ Custody) /\ [][Source!Step]_(Source!sourceVars)
  BY InitInv, NextInv, InitCustody, NextCustody, PTL DEF Spec
<1>2. Spec => Source!SourceInit
  BY InitCustody, PTL DEF Spec
<1> QED
  BY <1>1, <1>2, PTL DEF ImplementsSource, Source!SourceSpec

\* A hit that was returned is not in the engine any more and is not counted as
\* lost, so mine_batch and drain_pipeline never return it a second time.
OnePlace == Apart(Held, returned) /\ Apart(Held, dropped) /\ Apart(returned, dropped)

LEMMA StepKeepsOnePlace == OnePlace /\ [Source!Step]_(Source!sourceVars) => OnePlace'
<1> SUFFICES ASSUME OnePlace, [Source!Step]_(Source!sourceVars) PROVE OnePlace'
  OBVIOUS
<1>1. CASE Source!Step
  BY <1>1 DEF OnePlace, Apart, Source!Step
<1>2. CASE UNCHANGED Source!sourceVars
  BY <1>2 DEF OnePlace, Apart, Source!sourceVars
<1> QED
  BY <1>1, <1>2

\* A hit is in the engine, with the mining thread or gone, never two of these: what
\* mine_batch or drain_pipeline returned does not come out again.
THEOREM HitsInOnePlace == Spec => []OnePlace
<1>1. Source!SourceInit => OnePlace
  BY DEF Source!SourceInit, OnePlace, Apart
<1> QED
  BY <1>1, StepKeepsOnePlace, EngineIsHitSource, PTL DEF ImplementsSource, Source!SourceSpec

-----------------------------------------------------------------------------
(* The mining thread parks the engine for a match flush.                   *)

\* Without workers of several lanes only a snapshot can hold matches, and workers
\* never begin on a parked card.
SnapshotsOnly ==
    /\ pack # "hashing" => held \subseteq {"snapshots"}
    /\ parked /\ pack = "hashing" => hashedOn

\* A parked card holds no match, unless several lanes were hashing by themselves
\* when it was parked, for any memory costs, beliefs, bags and budgets.
THEOREM ParkedHoldsNone == DrainSpec => []HitsHandedOver
<1> DEFINE ParkInv == HitsHandedOver /\ SnapshotsOnly
<1> USE DEF HitsHandedOver, SnapshotsOnly
<1>1. DrainInit => ParkInv
  BY DEF DrainInit
<1>2. ASSUME ParkInv, [DrainNext]_drainVars PROVE ParkInv'
  <2>1. CASE UpdateMatchDrain
    BY <1>2, <2>1 DEF UpdateMatchDrain, StartDrain, EndDrain, drain, card
  <2>2. CASE Park
    BY <1>2, <2>2 DEF Park
  <2>3. CASE Mine
    BY <2>3 DEF Mine, MineWave
  <2>4. CASE LaneHashes
    BY <1>2, <2>4 DEF LaneHashes, drain
  <2>5. CASE LanesReplanned \/ EngineRestarts
    BY <1>2, <2>5 DEF LanesReplanned, EngineRestarts, drain
  <2>6. CASE Surroundings
    BY <1>2, <2>6 DEF Surroundings, PoolAccepts, NetChanges, PaperChanges, WindowTurns,
                      BudgetRunsOut, drain, card
  <2>7. CASE UNCHANGED drainVars
    BY <1>2, <2>7 DEF drainVars, drain, card
  <2> QED
    BY <1>2, <2>1, <2>2, <2>3, <2>4, <2>5, <2>6, <2>7 DEF DrainNext, MiningLoop, Engine
<1>3. ParkInv => HitsHandedOver
  OBVIOUS
<1> QED
  BY <1>1, <1>2, <1>3, PTL DEF DrainSpec
=============================================================================
