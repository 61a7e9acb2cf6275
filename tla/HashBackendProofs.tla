-------------------------- MODULE HashBackendProofs --------------------------
(***************************************************************************)
(* KeygenPool and HashBackend for any lanes, threads, batches and          *)
(* difficulties.  A digest is matched with its key because nobody writes   *)
(* into the arena between the launch and the snapshot (ArenaInv).  That    *)
(* rests on fill() not returning too early, hence on an exact count of the *)
(* jobs not done yet (FillCovers), and the count on the jobs being         *)
(* distinct (JobsInv).  That no key is used twice rests on UseInv: a key   *)
(* that is in a snapshot may still lie in a buffer, but only where a job of*)
(* the running fill will overwrite it, and these jobs reach every key of a *)
(* batch (JobsCover).                                                      *)
(***************************************************************************)
EXTENDS HashBackend, TLAPS, FiniteSetTheorems

\* A job is in one place, and the fill it belongs to is the last of its lane, or
\* an earlier one when nothing but the notification is left.
JobsInv ==
    /\ IsFiniteSet(q) /\ IsFiniteSet(taken)
    /\ \A v \in taken : v.job \notin q
    /\ \A v, w \in taken : v.job = w.job => v = w
    /\ \A v \in taken : v.job.fill <= fill[v.job.lane]

\* From the launch to the snapshot the arena belongs to the GPU.
ArenaSafe(l) ==
    /\ gpu[l] # "off" => pc[l] \in {"next", "finish"}
    /\ pc[l] \in {"next", "finish"} => \A j \in Outstanding(l) : j.buffer # "arena"
    /\ pc[l] = "next" => fpc[l] = "out"
    /\ gpu[l] = "hashed" => digests[l] = FirstKeys(buffer[l]["arena"], size[l])

ArenaInv == \A l \in Lanes : ArenaSafe(l)

IInv == TypeOK /\ JobsInv /\ FillCovers /\ ArenaInv /\ Paired

-----------------------------------------------------------------------------
(* Jobs and batches of keys.                                               *)

LEMMA JobsAreJobs ==
    ASSUME NEW l \in Lanes, NEW b \in Buffers, NEW n \in 1..MaxKeys, NEW f \in Nat,
           NEW j \in JobsOf(l, b, n, f)
    PROVE  j \in Job /\ j.lane = l /\ j.buffer = b /\ j.fill = f
<1> DEFINE use == Smaller(Threads, n)
           chunk == (n + use - 1) \div use
<1>1. use \in Nat \ {0} /\ n \in Nat \ {0} /\ n <= MaxKeys /\ MaxKeys \in Nat
  BY KeygenPoolAssumption DEF Smaller
<1>2. chunk \in Nat
  BY <1>1
<1> HIDE DEF use, chunk
<1>3. PICK t \in {u \in 0..(use - 1) : u * chunk < n} :
           j = [lane |-> l, fill |-> f, buffer |-> b,
                first |-> t * chunk + 1, last |-> Smaller(n, (t + 1) * chunk)]
  BY DEF JobsOf, use, chunk
<1>4. t \in Nat /\ t * chunk < n
  BY <1>1, <1>3
<1>5. t * chunk \in Nat /\ (t + 1) * chunk \in Nat
  BY <1>2, <1>4
<1>6. t * chunk + 1 \in 1..MaxKeys
  BY <1>1, <1>4, <1>5
<1>7. Smaller(n, (t + 1) * chunk) \in 0..MaxKeys
  BY <1>1, <1>5 DEF Smaller
<1> QED
  BY <1>3, <1>6, <1>7 DEF Job

LEMMA JobsFinite ==
    ASSUME NEW l \in Lanes, NEW b \in Buffers, NEW n \in 1..MaxKeys, NEW f \in Nat
    PROVE  IsFiniteSet(JobsOf(l, b, n, f))
<1> DEFINE use == Smaller(Threads, n)
           chunk == (n + use - 1) \div use
           T == {u \in 0..(use - 1) : u * chunk < n}
           J(t) == [lane |-> l, fill |-> f, buffer |-> b,
                    first |-> t * chunk + 1, last |-> Smaller(n, (t + 1) * chunk)]
           F == [t \in T |-> J(t)]
<1>1. use \in Int
  BY KeygenPoolAssumption DEF Smaller
<1>2. IsFiniteSet(T)
  <2> HIDE DEF use, chunk
  <2>1. IsFiniteSet(0..(use - 1))
    BY <1>1, FS_Interval
  <2> QED
    BY <2>1, FS_Subset
<1>3. JobsOf(l, b, n, f) = {J(t) : t \in T}
  BY DEF JobsOf
<1> HIDE DEF T, J
<1>4. F \in Surjection(T, {J(t) : t \in T})
  BY DEF Surjection
<1> QED
  BY <1>2, <1>3, <1>4, FS_Surjection

LEMMA FirstKeysType ==
    ASSUME NEW k \in Keys, NEW n \in Nat PROVE FirstKeys(k, n) \in Keys
  BY DEF FirstKeys, Keys

LEMMA NoKeysType == NoKeys \in Keys
  BY DEF NoKeys, Keys

\* The jobs not done yet are finitely many.
LEMMA OutstandingFinite ==
    ASSUME IsFiniteSet(q), IsFiniteSet(taken), NEW l \in Lanes
    PROVE  IsFiniteSet(Outstanding(l)) /\ Cardinality(Outstanding(l)) \in Nat
<1> DEFINE A == {v \in taken : v.at # "notify"}
           J == {w.job : w \in A}
           F == [w \in A |-> w.job]
<1>1. IsFiniteSet(A)
  BY FS_Subset
<1>2. F \in Surjection(A, J)
  <2> HIDE DEF A
  <2> QED BY DEF Surjection
<1>3. IsFiniteSet(J)
  <2> HIDE DEF A, J, F
  <2> QED BY <1>1, <1>2, FS_Surjection
<1>4. IsFiniteSet(q \cup J)
  <2> HIDE DEF J
  <2> QED BY <1>3, FS_Union
<1>5. Outstanding(l) \subseteq q \cup J
  BY DEF Outstanding
<1> HIDE DEF J
<1> QED
  BY <1>4, <1>5, FS_Subset, FS_CardinalityType

-----------------------------------------------------------------------------
(* Types.                                                                  *)

LEMMA StartFillTypes ==
    ASSUME PoolTypeOK, NEW l \in Lanes, NEW b \in Buffers, NEW n \in 1..MaxKeys,
           StartFill(l, b, n)
    PROVE  /\ q' \subseteq Job /\ fpc' \in [Lanes -> FillPlaces]
           /\ remaining' \in [Lanes -> Int] /\ fill' \in [Lanes -> Nat]
<1> DEFINE jobs == JobsOf(l, b, n, fill[l] + 1)
<1>1. fill[l] + 1 \in Nat
  BY DEF PoolTypeOK
<1>2. jobs \subseteq Job
  BY <1>1, JobsAreJobs
<1>3. Cardinality(jobs) \in Int
  BY <1>1, JobsFinite, FS_CardinalityType
<1>4. /\ q' = q \cup jobs
      /\ remaining' = [remaining EXCEPT ![l] = Cardinality(jobs)]
      /\ fill' = [fill EXCEPT ![l] = @ + 1]
      /\ fpc' = [fpc EXCEPT ![l] = "test"]
  BY DEF StartFill
<1> HIDE DEF jobs
<1> QED
  BY <1>1, <1>2, <1>3, <1>4 DEF PoolTypeOK, FillPlaces

LEMMA PoolTypes ==
    ASSUME PoolTypeOK, PoolWorker PROVE PoolTypeOK'
<1>1. CASE TakeJob
  BY <1>1 DEF TakeJob, PoolTypeOK, frames, WorkerPlaces
<1> SUFFICES ASSUME NEW w \in taken, FillMany(w) \/ CountDown(w) \/ Notify(w)
             PROVE  PoolTypeOK'
  BY <1>1 DEF PoolWorker
<1>2. w \in [job : Job, at : WorkerPlaces] /\ w.job.lane \in Lanes /\ w.job.buffer \in Buffers
      /\ w.job.fill \in Nat
  BY DEF PoolTypeOK, Job
<1>3. \A p \in WorkerPlaces : Moved(w, p) \subseteq [job : Job, at : WorkerPlaces]
  BY <1>2 DEF PoolTypeOK, Moved
<1>4. CASE FillMany(w)
  <2> DEFINE j == w.job
             filled == [i \in 1..MaxKeys |-> IF i \in j.first..j.last THEN j.fill
                                             ELSE buffer[j.lane][j.buffer][i]]
  <2> HIDE DEF j
  <2>0. buffer[j.lane][j.buffer] \in [1..MaxKeys -> Nat] /\ j.fill \in Nat
    BY <1>2 DEF j, PoolTypeOK, Keys
  <2>1. filled \in Keys
    BY <2>0 DEF Keys
  <2> USE DEF j
  <2>2. buffer' = [buffer EXCEPT ![j.lane] = [@ EXCEPT ![j.buffer] = filled]]
    BY <1>4 DEF FillMany
  <2> HIDE DEF filled
  <2>3. buffer' \in [Lanes -> [Buffers -> Keys]]
    BY <1>2, <2>1, <2>2 DEF PoolTypeOK
  <2>4. taken' \subseteq [job : Job, at : WorkerPlaces]
    BY <1>3, <1>4 DEF FillMany, WorkerPlaces
  <2> QED
    BY <1>4, <2>3, <2>4 DEF FillMany, PoolTypeOK, frames
<1>5. CASE CountDown(w)
  <2>1. taken' \subseteq [job : Job, at : WorkerPlaces]
    BY <1>3, <1>5 DEF CountDown, WorkerPlaces, PoolTypeOK
  <2> QED
    BY <1>2, <1>5, <2>1 DEF CountDown, PoolTypeOK
<1>6. CASE Notify(w)
  <2>1. fpc' \in [Lanes -> FillPlaces] /\ crashed' \in BOOLEAN
    BY <1>2, <1>6 DEF Notify, PoolTypeOK, FillPlaces
  <2> QED
    BY <1>6, <2>1 DEF Notify, PoolTypeOK
<1> QED
  BY <1>4, <1>5, <1>6

LEMMA CallerTypes ==
    ASSUME PoolTypeOK, NEW l \in Lanes, Caller(l) PROVE PoolTypeOK'
  BY DEF Caller, TestRemaining, FallAsleep, PoolTypeOK, pool, FillPlaces

\* What the lane's own thread does to its buffers.
LEMMA ResizeTypes ==
    ASSUME TypeOK, NEW l \in Lanes, ResizeNext(l)
    PROVE  /\ nextSize' \in [Lanes -> 0..MaxKeys]
           /\ buffer' \in [Lanes -> [Buffers -> Keys]]
           /\ \A k \in Lanes : buffer'[k]["arena"] = buffer[k]["arena"]
<1> DEFINE kept == FirstKeys(buffer[l]["next"], Smaller(nextSize[l], size[l]))
<1>1. buffer[l]["next"] \in Keys /\ Smaller(nextSize[l], size[l]) \in Nat
  BY KeygenPoolAssumption DEF TypeOK, PoolTypeOK, Buffers, Smaller
<1>2. kept \in Keys
  BY <1>1, FirstKeysType
<1>3. buffer' = [buffer EXCEPT ![l]["next"] = kept]
  BY DEF ResizeNext, TypeOK, PoolTypeOK, Buffers
<1> HIDE DEF kept
<1>4. nextSize' \in [Lanes -> 0..MaxKeys]
  BY DEF ResizeNext, TypeOK
<1>5. buffer' \in [Lanes -> [Buffers -> Keys]]
  BY <1>2, <1>3 DEF TypeOK, PoolTypeOK, Buffers
<1>6. \A k \in Lanes : buffer'[k]["arena"] = buffer[k]["arena"]
  BY <1>3 DEF TypeOK, PoolTypeOK, Buffers
<1> QED
  BY <1>4, <1>5, <1>6

LEMMA SnapshotType ==
    ASSUME TypeOK, NEW l \in Lanes PROVE Snapshot(l) \in SUBSET Slot
<1>1. FirstKeys(buffer[l]["arena"], size[l]) \in Keys
  BY FirstKeysType, KeygenPoolAssumption DEF TypeOK, PoolTypeOK, Buffers
<1> QED
  BY <1>1 DEF Snapshot, Slot, TypeOK

LEMMA ReportTypes ==
    ASSUME TypeOK, NEW l \in Lanes, NEW slot \in SUBSET Slot, Report(l, slot)
    PROVE  last' \in [Lanes -> SUBSET Slot]
<1>1. CASE slot = {}
  BY <1>1 DEF Report, TypeOK
<1>2. CASE slot # {}
  <2>1. last' = [last EXCEPT ![l] = slot]
    BY <1>2 DEF Report
  <2> QED
    BY <2>1 DEF TypeOK
<1> QED
  BY <1>1, <1>2

LEMMA TypeInit == Init => TypeOK
<1> SUFFICES ASSUME Init PROVE TypeOK
  OBVIOUS
<1>1. buffer \in [Lanes -> [Buffers -> Keys]] /\ digests \in [Lanes -> Keys]
  BY DEF Init, PoolInit, Keys, NoKeys
<1>2. crashed \in BOOLEAN
  BY DEF Init, PoolInit
<1>3. /\ q \subseteq Job /\ taken \subseteq [job : Job, at : WorkerPlaces]
      /\ fpc \in [Lanes -> FillPlaces] /\ remaining \in [Lanes -> Int]
      /\ fill \in [Lanes -> Nat]
  BY DEF Init, PoolInit, FillPlaces
<1>4. PoolTypeOK
  BY <1>1, <1>2, <1>3 DEF PoolTypeOK
<1> QED
  BY <1>1, <1>4, KeygenPoolAssumption DEF Init, TypeOK, LanePlaces

LEMMA TakeKeysTypes ==
    ASSUME TypeOK, NEW l \in Lanes, TakeKeys(l) PROVE TypeOK'
<1>0. pc' \in [Lanes -> LanePlaces]
  BY DEF TakeKeys, TypeOK, LanePlaces
<1>1. CASE nextSize[l] = size[l]
  <2> DEFINE kept == FirstKeys(buffer[l]["next"], size[l])
  <2>1. kept \in Keys
    BY FirstKeysType, KeygenPoolAssumption DEF TypeOK, PoolTypeOK, Buffers
  <2>2. buffer' = [buffer EXCEPT ![l]["arena"] = kept]
    BY <1>1 DEF TakeKeys
  <2> HIDE DEF kept
  <2>3. buffer' \in [Lanes -> [Buffers -> Keys]]
    BY <2>1, <2>2 DEF TypeOK, PoolTypeOK, Buffers
  <2>4. PoolTypeOK'
    BY <1>1, <2>3 DEF TakeKeys, TypeOK, PoolTypeOK, frames
  <2> QED
    BY <1>0, <2>4 DEF TakeKeys, TypeOK, device, slots
<1>2. CASE nextSize[l] # size[l]
  <2>1. StartFill(l, "arena", size[l]) /\ size[l] \in 1..MaxKeys /\ PoolTypeOK /\ "arena" \in Buffers
    BY <1>2 DEF TakeKeys, TypeOK, Buffers
  <2>2. /\ q' \subseteq Job /\ fpc' \in [Lanes -> FillPlaces]
        /\ remaining' \in [Lanes -> Int] /\ fill' \in [Lanes -> Nat]
    BY <2>1, StartFillTypes
  <2>3. PoolTypeOK'
    BY <1>2, <2>2 DEF TakeKeys, TypeOK, PoolTypeOK
  <2> QED
    BY <1>0, <2>3 DEF TakeKeys, TypeOK, device, slots
<1> QED
  BY <1>1, <1>2

LEMMA NextKeysTypes ==
    ASSUME TypeOK, NEW l \in Lanes, NextKeys(l) PROVE TypeOK'
<1>0. pc' \in [Lanes -> LanePlaces]
  BY DEF NextKeys, TypeOK, LanePlaces
<1>1. CASE size[l] > 1
  <2>1. /\ ResizeNext(l) /\ StartFill(l, "next", size[l]) /\ size[l] \in 1..MaxKeys
        /\ PoolTypeOK /\ "next" \in Buffers
    BY <1>1 DEF NextKeys, TypeOK, Buffers
  <2>2. /\ q' \subseteq Job /\ fpc' \in [Lanes -> FillPlaces]
        /\ remaining' \in [Lanes -> Int] /\ fill' \in [Lanes -> Nat]
    BY <2>1, StartFillTypes
  <2>3. nextSize' \in [Lanes -> 0..MaxKeys] /\ buffer' \in [Lanes -> [Buffers -> Keys]]
    BY <2>1, ResizeTypes
  <2>4. PoolTypeOK'
    BY <2>2, <2>3 DEF NextKeys, TypeOK, PoolTypeOK
  <2> QED
    BY <1>0, <2>3, <2>4 DEF NextKeys, TypeOK, device, slots
<1>2. CASE ~(size[l] > 1)
  <2>1. PoolTypeOK' /\ nextSize' = nextSize
    BY <1>2 DEF NextKeys, TypeOK, PoolTypeOK, frames
  <2> QED
    BY <1>0, <2>1 DEF NextKeys, TypeOK, device, slots
<1> QED
  BY <1>1, <1>2

LEMMA FinishTypes ==
    ASSUME TypeOK, NEW l \in Lanes, Finish(l) PROVE TypeOK'
<1>1. Snapshot(l) \in SUBSET Slot
  BY SnapshotType
<1>2. Report(l, prev[l]) /\ prev[l] \in SUBSET Slot
  BY DEF Finish, TypeOK
<1>3. last' \in [Lanes -> SUBSET Slot]
  BY <1>2, ReportTypes
<1>4. pending' \in [Lanes -> SUBSET Slot] /\ prev' \in [Lanes -> SUBSET Slot]
  BY <1>1 DEF Finish, TypeOK
<1>5. digests' \in [Lanes -> Keys]
  BY NoKeysType DEF Finish, TypeOK
<1>6. pc' \in [Lanes -> LanePlaces] /\ gpu' \in [Lanes -> {"off", "copying", "hashed"}]
  BY DEF Finish, TypeOK, LanePlaces
<1>7. PoolTypeOK'
  BY DEF Finish, TypeOK, PoolTypeOK, poolVars, pool, frames
<1> QED
  BY <1>3, <1>4, <1>5, <1>6, <1>7 DEF Finish, TypeOK

LEMMA ThrowTypes ==
    ASSUME TypeOK, NEW l \in Lanes, Throw(l) PROVE TypeOK'
<1>1. nextSize' \in [Lanes -> 0..MaxKeys] /\ buffer' \in [Lanes -> [Buffers -> Keys]]
  <2>1. CASE UNCHANGED <<nextSize, buffer>>
    BY <2>1 DEF TypeOK, PoolTypeOK
  <2>2. CASE ResizeNext(l)
    BY <2>2, ResizeTypes
  <2> QED
    BY <2>1, <2>2 DEF Throw
<1>2. digests' \in [Lanes -> Keys]
  BY NoKeysType DEF Throw, TypeOK
<1>3. /\ pc' \in [Lanes -> LanePlaces] /\ gpu' \in [Lanes -> {"off", "copying", "hashed"}]
      /\ pending' \in [Lanes -> SUBSET Slot] /\ prev' \in [Lanes -> SUBSET Slot]
  BY DEF Throw, TypeOK, LanePlaces
<1>4. PoolTypeOK'
  BY <1>1 DEF Throw, TypeOK, PoolTypeOK, pool, frames
<1> QED
  BY <1>1, <1>2, <1>3, <1>4 DEF Throw, TypeOK

\* The other steps of a lane.
LEMMA LaneTypes ==
    ASSUME TypeOK, NEW l \in Lanes,
           RunBatch(l) \/ DrainPipeline(l) \/ Destroy(l) \/ Launch(l) \/ GpuCopies(l)
           \/ Destroyed(l)
    PROVE  TypeOK'
<1>1. CASE RunBatch(l)
  <2>1. size' \in [Lanes -> 1..MaxKeys]
    BY <1>1, HashBackendAssumption DEF RunBatch, TypeOK
  <2>2. /\ pc' \in [Lanes -> LanePlaces] /\ m' \in [Lanes -> Ms]
        /\ pending' \in [Lanes -> SUBSET Slot] /\ prev' \in [Lanes -> SUBSET Slot]
    BY <1>1 DEF RunBatch, TypeOK, LanePlaces
  <2>3. PoolTypeOK'
    BY <1>1 DEF RunBatch, TypeOK, PoolTypeOK, poolVars, pool, frames
  <2> QED
    BY <1>1, <2>1, <2>2, <2>3 DEF RunBatch, TypeOK, device
<1>2. CASE DrainPipeline(l)
  <2>1. Report(l, pending[l]) /\ pending[l] \in SUBSET Slot
    BY <1>2 DEF DrainPipeline, TypeOK
  <2>2. last' \in [Lanes -> SUBSET Slot]
    BY <2>1, ReportTypes
  <2>3. PoolTypeOK' /\ pending' \in [Lanes -> SUBSET Slot]
    BY <1>2 DEF DrainPipeline, TypeOK, PoolTypeOK, poolVars, pool, frames
  <2> QED
    BY <1>2, <2>2, <2>3 DEF DrainPipeline, TypeOK, lane, device
<1>3. CASE Destroy(l)
  <2>1. PoolTypeOK' /\ pc' \in [Lanes -> LanePlaces]
    BY <1>3 DEF Destroy, TypeOK, PoolTypeOK, poolVars, pool, frames, LanePlaces
  <2> QED
    BY <1>3, <2>1 DEF Destroy, TypeOK, device, slots
<1>4. CASE Launch(l)
  <2>1. /\ PoolTypeOK' /\ pc' \in [Lanes -> LanePlaces]
        /\ gpu' \in [Lanes -> {"off", "copying", "hashed"}]
    BY <1>4 DEF Launch, TypeOK, PoolTypeOK, poolVars, pool, frames, LanePlaces
  <2> QED
    BY <1>4, <2>1 DEF Launch, TypeOK, slots
<1>5. CASE GpuCopies(l)
  <2>1. FirstKeys(buffer[l]["arena"], size[l]) \in Keys
    BY FirstKeysType, KeygenPoolAssumption DEF TypeOK, PoolTypeOK, Buffers
  <2>2. /\ digests' \in [Lanes -> Keys]
        /\ gpu' \in [Lanes -> {"off", "copying", "hashed"}]
    BY <1>5, <2>1 DEF GpuCopies, TypeOK
  <2>3. PoolTypeOK'
    BY <1>5 DEF GpuCopies, TypeOK, PoolTypeOK, poolVars, pool, frames
  <2> QED
    BY <1>5, <2>2, <2>3 DEF GpuCopies, TypeOK, lane, slots
<1>6. CASE Destroyed(l)
  <2>1. buffer' \in [Lanes -> [Buffers -> Keys]]
    BY <1>6, NoKeysType DEF Destroyed, TypeOK, PoolTypeOK
  <2>2. /\ pc' \in [Lanes -> LanePlaces] /\ nextSize' \in [Lanes -> 0..MaxKeys]
        /\ pending' \in [Lanes -> SUBSET Slot]
    BY <1>6, KeygenPoolAssumption DEF Destroyed, TypeOK, LanePlaces
  <2>3. PoolTypeOK'
    BY <1>6, <2>1 DEF Destroyed, TypeOK, PoolTypeOK, pool, frames
  <2> QED
    BY <1>6, <2>2, <2>3 DEF Destroyed, TypeOK, device
<1> QED
  BY <1>1, <1>2, <1>3, <1>4, <1>5, <1>6

LEMMA TypeNext == TypeOK /\ [Next]_vars => TypeOK'
<1> SUFFICES ASSUME TypeOK, [Next]_vars PROVE TypeOK'
  OBVIOUS
<1>1. CASE SetDifficulty \/ PublishWork
  BY <1>1 DEF SetDifficulty, PublishWork, TypeOK, PoolTypeOK, poolVars, pool, frames, lane,
              device, slots
<1>2. ASSUME NEW l \in Lanes, KeyFill(l) PROVE TypeOK'
  <2>1. PoolTypeOK'
    BY <1>2, CallerTypes DEF KeyFill, TypeOK
  <2> QED
    BY <1>2, <2>1 DEF KeyFill, TypeOK, lane, device, slots
<1>3. CASE KeyWork
  <2>1. PoolTypeOK'
    BY <1>3, PoolTypes DEF KeyWork, TypeOK
  <2> QED
    BY <1>3, <2>1 DEF KeyWork, TypeOK, lane, device, slots
<1>4. CASE UNCHANGED vars
  BY <1>4 DEF vars, TypeOK, PoolTypeOK, poolVars, pool, frames, lane, device, slots
<1> QED
  BY <1>1, <1>2, <1>3, <1>4, LaneTypes, TakeKeysTypes, NextKeysTypes, FinishTypes, ThrowTypes
     DEF Next, Continue

-----------------------------------------------------------------------------
(* The count of the jobs not done yet.                                     *)

FramesInv == JobsInv /\ FillCovers

\* In a step, Outstanding is a matter of queue and workers.
LEMMA OutstandingMembers ==
    ASSUME NEW l \in Lanes
    PROVE  /\ \A j : j \in Outstanding(l) <=>
                  /\ j.lane = l
                  /\ j \in q \/ \E v \in taken : v.at # "notify" /\ v.job = j
           /\ \A j : j \in Outstanding(l)' <=>
                  /\ j.lane = l
                  /\ j \in q' \/ \E v \in taken' : v.at # "notify" /\ v.job = j
  BY DEF Outstanding

LEMMA StartFillFrames ==
    ASSUME TypeOK, FramesInv, NEW l \in Lanes, NEW b \in Buffers, NEW n \in 1..MaxKeys,
           fpc[l] = "out", StartFill(l, b, n), taken' = taken
    PROVE  /\ FramesInv'
           /\ \A j \in Outstanding(l)' : j.buffer = b
           /\ \A k \in Lanes \ {l} : Outstanding(k)' = Outstanding(k) /\ fpc'[k] = fpc[k]
<1> DEFINE jobs == JobsOf(l, b, n, fill[l] + 1)
<1>1. fill[l] + 1 \in Nat
  BY DEF TypeOK, PoolTypeOK
<1>2. /\ \A j \in jobs : j.lane = l /\ j.buffer = b /\ j.fill = fill[l] + 1
      /\ IsFiniteSet(jobs)
  BY <1>1, JobsAreJobs, JobsFinite
<1>3. /\ q' = q \cup jobs
      /\ remaining' = [remaining EXCEPT ![l] = Cardinality(jobs)]
      /\ fill' = [fill EXCEPT ![l] = @ + 1]
      /\ fpc' = [fpc EXCEPT ![l] = "test"]
  BY DEF StartFill
<1> HIDE DEF jobs
<1>4. Outstanding(l) = {}
  BY DEF FramesInv, FillCovers
<1>5. \A v \in taken : v.job \in Job /\ v.job \notin jobs
  <2> SUFFICES ASSUME NEW v \in taken PROVE v.job \in Job /\ v.job \notin jobs
    OBVIOUS
  <2>1. v.job \in Job
    BY DEF TypeOK, PoolTypeOK
  <2>2. v.job.fill <= fill[v.job.lane] /\ v.job.fill \in Nat /\ fill[l] \in Nat
    BY <2>1 DEF FramesInv, JobsInv, TypeOK, PoolTypeOK, Job
  <2> QED
    BY <1>2, <2>1, <2>2
<1>6. Outstanding(l)' = jobs
  <2>1. \A j : j \notin q \/ j.lane # l
    BY <1>4, OutstandingMembers
  <2>2. \A j : j.lane = l => ~\E v \in taken : v.at # "notify" /\ v.job = j
    BY <1>4, OutstandingMembers
  <2>3. \A j : j \in Outstanding(l)' <=> j \in jobs
    BY <1>2, <1>3, <2>1, <2>2, OutstandingMembers
  <2> QED
    BY <2>3
<1>7. ASSUME NEW k \in Lanes, k # l PROVE Outstanding(k)' = Outstanding(k)
  <2>1. \A j : j \in Outstanding(k)' <=> j \in Outstanding(k)
    BY <1>2, <1>3, <1>7, OutstandingMembers
  <2> QED
    BY <2>1
<1>8. JobsInv'
  <2>1. IsFiniteSet(q')
    BY <1>2, <1>3, FS_Union DEF FramesInv, JobsInv
  <2>2. \A v \in taken : v.job.fill <= fill'[v.job.lane]
    <3> SUFFICES ASSUME NEW v \in taken PROVE v.job.fill <= fill'[v.job.lane]
      OBVIOUS
    <3>1. v.job.lane \in Lanes /\ v.job.fill \in Nat
      BY <1>5 DEF Job
    <3>2. fill[v.job.lane] \in Nat /\ v.job.fill <= fill[v.job.lane]
      BY <3>1 DEF FramesInv, JobsInv, TypeOK, PoolTypeOK
    <3>3. fill'[v.job.lane] >= fill[v.job.lane] /\ fill'[v.job.lane] \in Nat
      BY <1>3, <3>1, <3>2 DEF TypeOK, PoolTypeOK
    <3> QED
      BY <3>1, <3>2, <3>3
  <2> QED
    BY <1>3, <1>5, <2>1, <2>2 DEF FramesInv, JobsInv
<1>9. FillCovers'
  <2>1. ASSUME NEW k \in Lanes
        PROVE  /\ remaining'[k] = Cardinality(Outstanding(k)')
               /\ fpc'[k] = "out" => Outstanding(k)' = {}
               /\ \A j \in Outstanding(k)' : j.fill = fill'[k]
    <3>1. CASE k = l
      BY <1>2, <1>3, <1>6, <3>1 DEF TypeOK, PoolTypeOK
    <3>2. CASE k # l
      <4>1. Outstanding(k)' = Outstanding(k)
        BY <1>7, <3>2
      <4>2. remaining'[k] = remaining[k] /\ fpc'[k] = fpc[k] /\ fill'[k] = fill[k]
        BY <1>3, <3>2 DEF TypeOK, PoolTypeOK
      <4> QED
        BY <4>1, <4>2 DEF FramesInv, FillCovers
    <3> QED
      BY <3>1, <3>2
  <2> QED
    BY <2>1 DEF FillCovers
<1>10. \A k \in Lanes \ {l} : fpc'[k] = fpc[k]
  BY <1>3 DEF TypeOK, PoolTypeOK
<1> QED
  BY <1>2, <1>6, <1>7, <1>8, <1>9, <1>10 DEF FramesInv

\* Steps that leave the set of jobs not done alone.
LEMMA SameOutstanding ==
    ASSUME FramesInv, JobsInv', UNCHANGED <<remaining, fill>>,
           \A l \in Lanes : Outstanding(l)' = Outstanding(l),
           \A l \in Lanes : fpc'[l] = "out" => fpc[l] = "out" \/ remaining[l] <= 0
    PROVE  FramesInv'
<1>1. ASSUME NEW l \in Lanes, fpc'[l] = "out" PROVE Outstanding(l)' = {}
  <2>1. CASE fpc[l] = "out"
    BY <1>1, <2>1 DEF FramesInv, FillCovers
  <2>2. CASE remaining[l] <= 0
    <3>1. IsFiniteSet(Outstanding(l)) /\ Cardinality(Outstanding(l)) \in Nat
      BY OutstandingFinite DEF FramesInv, JobsInv
    <3>2. Cardinality(Outstanding(l)) = 0
      BY <2>2, <3>1 DEF FramesInv, FillCovers
    <3> QED
      BY <3>1, <3>2, FS_EmptySet
  <2> QED
    BY <1>1, <2>1, <2>2
<1>2. FillCovers'
  BY <1>1 DEF FramesInv, FillCovers
<1> QED
  BY <1>2 DEF FramesInv

LEMMA TakeJobFrames ==
    ASSUME TypeOK, FramesInv, TakeJob
    PROVE  FramesInv' /\ \A l \in Lanes : Outstanding(l)' = Outstanding(l)
<1>1. PICK j \in q : q' = q \ {j} /\ taken' = taken \cup {[job |-> j, at |-> "fill"]}
  BY DEF TakeJob
<1> DEFINE t == [job |-> j, at |-> "fill"]
<1>2. t.job = j /\ t.at = "fill" /\ taken' = taken \cup {t}
  BY <1>1
<1> HIDE DEF t
<1>3. ASSUME NEW l \in Lanes PROVE Outstanding(l)' = Outstanding(l)
  <2>1. \A i : i \in Outstanding(l)' <=> i \in Outstanding(l)
    BY <1>1, <1>2, OutstandingMembers
  <2> QED
    BY <2>1
<1>4. j.fill <= fill[j.lane]
  <2>1. j \in Job /\ j.lane \in Lanes /\ j.fill \in Nat
    BY DEF TypeOK, PoolTypeOK, Job
  <2>2. j \in Outstanding(j.lane)
    BY <2>1, OutstandingMembers
  <2> QED
    BY <2>1, <2>2 DEF FramesInv, FillCovers
<1>5. IsFiniteSet(q') /\ IsFiniteSet(taken')
  BY <1>1, <1>2, FS_RemoveElement, FS_AddElement DEF FramesInv, JobsInv
<1>6. JobsInv'
  <2>1. \A v \in taken : v.job # j
    BY DEF FramesInv, JobsInv
  <2>2. fill' = fill
    BY DEF TakeJob, frames
  <2> QED
    BY <1>1, <1>2, <1>4, <1>5, <2>1, <2>2 DEF FramesInv, JobsInv
<1>7. UNCHANGED <<remaining, fill, fpc>>
  BY DEF TakeJob, frames
<1> QED
  BY <1>3, <1>6, <1>7, SameOutstanding

\* A worker moves on with its job.
LEMMA MovedJobs ==
    ASSUME TypeOK, FramesInv, NEW w \in taken, NEW p, taken' = Moved(w, p),
           UNCHANGED <<q, fill>>
    PROVE  /\ JobsInv'
           /\ p # "notify" /\ w.at # "notify" =>
                 \A l \in Lanes : Outstanding(l)' = Outstanding(l)
           /\ p = "notify" =>
                 \A l \in Lanes : Outstanding(l)' = Outstanding(l) \ {w.job}
<1> DEFINE t == [w EXCEPT !.at = p]
<1>1. w \in [job : Job, at : WorkerPlaces]
  BY DEF TypeOK, PoolTypeOK
<1>2. t.job = w.job /\ t.at = p /\ taken' = (taken \ {w}) \cup {t}
  BY <1>1 DEF Moved
<1> HIDE DEF t
<1>3. IsFiniteSet(taken')
  <2>1. IsFiniteSet(taken \ {w})
    BY FS_RemoveElement DEF FramesInv, JobsInv
  <2> QED
    BY <1>2, <2>1, FS_AddElement
<1>4. JobsInv'
  BY <1>2, <1>3 DEF FramesInv, JobsInv
<1>5. ASSUME p # "notify", w.at # "notify", NEW l \in Lanes
      PROVE  Outstanding(l)' = Outstanding(l)
  <2>1. \A i : i \in Outstanding(l)' <=> i \in Outstanding(l)
    BY <1>2, <1>5, OutstandingMembers
  <2> QED
    BY <2>1
<1>6. ASSUME p = "notify", NEW l \in Lanes
      PROVE  Outstanding(l)' = Outstanding(l) \ {w.job}
  <2>1. w.job \notin q /\ \A v \in taken : v # w => v.job # w.job
    BY DEF FramesInv, JobsInv
  <2>2. \A i : i \in Outstanding(l)' <=> i \in Outstanding(l) \ {w.job}
    BY <1>2, <1>6, <2>1, OutstandingMembers
  <2> QED
    BY <2>2
<1> QED
  BY <1>4, <1>5, <1>6

LEMMA LeftJobs ==
    ASSUME TypeOK, FramesInv, NEW w \in taken, taken' = taken \ {w}, UNCHANGED <<q, fill>>
    PROVE  /\ JobsInv'
           /\ w.at = "notify" => \A l \in Lanes : Outstanding(l)' = Outstanding(l)
           /\ \A l \in Lanes : w.at # "notify" => Outstanding(l)' = Outstanding(l) \ {w.job}
<1>1. w.job \notin q /\ \A v \in taken : v # w => v.job # w.job
  BY DEF FramesInv, JobsInv
<1>2. IsFiniteSet(taken')
  BY FS_RemoveElement DEF FramesInv, JobsInv
<1>3. JobsInv'
  BY <1>2 DEF FramesInv, JobsInv
<1>4. ASSUME w.at = "notify", NEW l \in Lanes PROVE Outstanding(l)' = Outstanding(l)
  <2>1. \A i : i \in Outstanding(l)' <=> i \in Outstanding(l)
    BY <1>4, OutstandingMembers
  <2> QED
    BY <2>1
<1>5. ASSUME w.at # "notify", NEW l \in Lanes
      PROVE  Outstanding(l)' = Outstanding(l) \ {w.job}
  <2>1. \A i : i \in Outstanding(l)' <=> i \in Outstanding(l) \ {w.job}
    BY <1>1, <1>5, OutstandingMembers
  <2> QED
    BY <2>1
<1> QED
  BY <1>3, <1>4, <1>5

LEMMA CountDownFrames ==
    ASSUME TypeOK, FramesInv, NEW w \in taken, CountDown(w)
    PROVE  FramesInv' /\ \A l \in Lanes : Outstanding(l)' \subseteq Outstanding(l)
<1> DEFINE k == w.job.lane
<1>1. w.job \in Job /\ k \in Lanes /\ w.at = "count"
  BY DEF CountDown, TypeOK, PoolTypeOK, Job
<1>2. UNCHANGED <<q, fill, fpc>> /\ remaining' = [remaining EXCEPT ![k] = @ - 1]
  BY DEF CountDown
<1>3. JobsInv' /\ \A l \in Lanes : Outstanding(l)' = Outstanding(l) \ {w.job}
  <2>1. CASE remaining[k] = 1
    <3>1. taken' = Moved(w, "notify")
      BY <2>1 DEF CountDown
    <3> QED
      BY <1>2, <3>1, MovedJobs
  <2>2. CASE remaining[k] # 1
    <3>1. taken' = taken \ {w}
      BY <2>2 DEF CountDown
    <3> QED
      BY <1>1, <1>2, <3>1, LeftJobs
  <2> QED
    BY <2>1, <2>2
<1> HIDE DEF k
<1>4. w.job \in Outstanding(k) /\ \A l \in Lanes \ {k} : w.job \notin Outstanding(l)
  BY <1>1, OutstandingMembers DEF k
<1>5. ASSUME NEW l \in Lanes
      PROVE  /\ remaining'[l] = Cardinality(Outstanding(l)')
             /\ fpc'[l] = "out" => Outstanding(l)' = {}
             /\ \A j \in Outstanding(l)' : j.fill = fill'[l]
  <2>1. Outstanding(l)' = Outstanding(l) \ {w.job}
    BY <1>3
  <2>2. IsFiniteSet(Outstanding(l)) /\ Cardinality(Outstanding(l)) \in Nat
    BY OutstandingFinite DEF FramesInv, JobsInv
  <2>3. Cardinality(Outstanding(l) \ {w.job}) =
           IF w.job \in Outstanding(l) THEN Cardinality(Outstanding(l)) - 1
           ELSE Cardinality(Outstanding(l))
    BY <2>2, FS_RemoveElement
  <2>4. /\ remaining[l] = Cardinality(Outstanding(l))
        /\ fpc[l] = "out" => Outstanding(l) = {}
        /\ \A j \in Outstanding(l) : j.fill = fill[l]
    BY DEF FramesInv, FillCovers
  <2>5. remaining'[l] = Cardinality(Outstanding(l)')
    <3>1. CASE l = k
      <4>1. remaining'[l] = remaining[l] - 1
        BY <1>1, <1>2, <3>1 DEF TypeOK, PoolTypeOK
      <4> QED
        BY <1>4, <2>1, <2>2, <2>3, <2>4, <3>1, <4>1
    <3>2. CASE l # k
      <4>1. remaining'[l] = remaining[l]
        BY <1>1, <1>2, <3>2 DEF TypeOK, PoolTypeOK
      <4> QED
        BY <1>4, <2>1, <2>2, <2>3, <2>4, <3>2, <4>1
    <3> QED
      BY <3>1, <3>2
  <2> QED
    BY <1>2, <2>1, <2>4, <2>5
<1>6. FillCovers'
  BY <1>5 DEF FillCovers
<1> QED
  BY <1>3, <1>6 DEF FramesInv

LEMMA PoolFrames ==
    ASSUME TypeOK, FramesInv, PoolWorker
    PROVE  /\ FramesInv'
           /\ \A l \in Lanes : Outstanding(l)' \subseteq Outstanding(l)
           /\ \A l \in Lanes : fpc[l] = "out" => fpc'[l] = "out"
<1>1. CASE TakeJob
  BY <1>1, TakeJobFrames DEF TakeJob, frames
<1> SUFFICES ASSUME NEW w \in taken, FillMany(w) \/ CountDown(w) \/ Notify(w)
             PROVE  /\ FramesInv'
                    /\ \A l \in Lanes : Outstanding(l)' \subseteq Outstanding(l)
                    /\ \A l \in Lanes : fpc[l] = "out" => fpc'[l] = "out"
  BY <1>1 DEF PoolWorker
<1>2. CASE FillMany(w)
  <2>1. taken' = Moved(w, "count") /\ w.at = "fill" /\ UNCHANGED <<q, frames>>
    BY <1>2 DEF FillMany
  <2>2. JobsInv' /\ \A l \in Lanes : Outstanding(l)' = Outstanding(l)
    BY <2>1, MovedJobs DEF frames
  <2> QED
    BY <2>1, <2>2, SameOutstanding DEF frames
<1>3. CASE CountDown(w)
  BY <1>3, CountDownFrames DEF CountDown
<1>4. CASE Notify(w)
  <2>1. taken' = taken \ {w} /\ w.at = "notify" /\ UNCHANGED <<q, remaining, fill>>
    BY <1>4 DEF Notify
  <2>2. JobsInv' /\ \A l \in Lanes : Outstanding(l)' = Outstanding(l)
    BY <2>1, LeftJobs
  <2>3. \A l \in Lanes : fpc'[l] = "out" <=> fpc[l] = "out"
    BY <1>4 DEF Notify, TypeOK, PoolTypeOK
  <2> QED
    BY <2>1, <2>2, <2>3, SameOutstanding
<1> QED
  BY <1>2, <1>3, <1>4

LEMMA CallerFrames ==
    ASSUME TypeOK, FramesInv, NEW l \in Lanes, Caller(l)
    PROVE  /\ FramesInv'
           /\ \A k \in Lanes : Outstanding(k)' = Outstanding(k)
           /\ \A k \in Lanes : fpc[k] = "out" => fpc'[k] = "out"
<1>1. UNCHANGED <<pool, remaining, fill>>
  BY DEF Caller, TestRemaining, FallAsleep
<1>2. \A k \in Lanes : Outstanding(k)' = Outstanding(k)
  BY <1>1 DEF Outstanding, pool
<1>3. JobsInv'
  BY <1>1 DEF FramesInv, JobsInv, pool
<1>4. \A k \in Lanes : fpc'[k] = "out" => fpc[k] = "out" \/ remaining[k] <= 0
  BY DEF Caller, TestRemaining, FallAsleep, TypeOK, PoolTypeOK
<1>5. \A k \in Lanes : fpc[k] = "out" => fpc'[k] = "out"
  BY DEF Caller, TestRemaining, FallAsleep, TypeOK, PoolTypeOK
<1> QED
  BY <1>1, <1>2, <1>3, <1>4, <1>5, SameOutstanding

LEMMA FramesUnchanged ==
    ASSUME FramesInv, UNCHANGED <<pool, frames>>
    PROVE  FramesInv' /\ \A l \in Lanes : Outstanding(l)' = Outstanding(l)
  BY DEF FramesInv, JobsInv, FillCovers, Outstanding, pool, frames

-----------------------------------------------------------------------------
(* Who may write where, and what the snapshots hold.                       *)

LEMMA FramesNext == TypeOK /\ FramesInv /\ ArenaInv /\ [Next]_vars => FramesInv'
<1> SUFFICES ASSUME TypeOK, FramesInv, ArenaInv, [Next]_vars PROVE FramesInv'
  OBVIOUS
<1>1. ASSUME NEW l \in Lanes, TakeKeys(l) PROVE FramesInv'
  <2>1. CASE nextSize[l] = size[l]
    <3>1. UNCHANGED <<pool, frames>>
      BY <1>1, <2>1 DEF TakeKeys, pool
    <3> QED
      BY <3>1, FramesUnchanged
  <2>2. CASE nextSize[l] # size[l]
    <3>1. StartFill(l, "arena", size[l]) /\ taken' = taken /\ fpc[l] = "out"
      BY <1>1, <2>2 DEF TakeKeys
    <3>2. size[l] \in 1..MaxKeys /\ "arena" \in Buffers
      BY DEF TypeOK, Buffers
    <3> QED
      BY <3>1, <3>2, StartFillFrames
  <2> QED
    BY <2>1, <2>2
<1>2. ASSUME NEW l \in Lanes, NextKeys(l) PROVE FramesInv'
  <2>1. CASE size[l] > 1
    <3>1. StartFill(l, "next", size[l]) /\ taken' = taken /\ pc[l] = "next"
      BY <1>2, <2>1 DEF NextKeys
    <3>2. size[l] \in 1..MaxKeys /\ "next" \in Buffers /\ fpc[l] = "out"
      BY <3>1 DEF TypeOK, Buffers, ArenaInv, ArenaSafe
    <3> QED
      BY <3>1, <3>2, StartFillFrames
  <2>2. CASE ~(size[l] > 1)
    <3>1. UNCHANGED <<pool, frames>>
      BY <1>2, <2>2 DEF NextKeys, pool
    <3> QED
      BY <3>1, FramesUnchanged
  <2> QED
    BY <2>1, <2>2
<1>3. CASE KeyWork
  BY <1>3, PoolFrames DEF KeyWork
<1>4. ASSUME NEW l \in Lanes, KeyFill(l) PROVE FramesInv'
  BY <1>4, CallerFrames DEF KeyFill
<1>5. ASSUME NEW l \in Lanes,
             RunBatch(l) \/ DrainPipeline(l) \/ Destroy(l) \/ Launch(l) \/ GpuCopies(l)
             \/ Finish(l) \/ Throw(l) \/ Destroyed(l)
      PROVE  FramesInv'
  <2>1. UNCHANGED <<pool, frames>>
    BY <1>5 DEF RunBatch, DrainPipeline, Destroy, Launch, GpuCopies, Finish, Throw, Destroyed,
                poolVars
  <2> QED
    BY <2>1, FramesUnchanged
<1>6. CASE SetDifficulty \/ PublishWork \/ UNCHANGED vars
  <2>1. UNCHANGED <<pool, frames>>
    BY <1>6 DEF SetDifficulty, PublishWork, vars, poolVars
  <2> QED
    BY <2>1, FramesUnchanged
<1> QED
  BY <1>1, <1>2, <1>3, <1>4, <1>5, <1>6 DEF Next, Continue

\* A worker with an unfinished job writes into that job's buffer only.
LEMMA PoolWrites ==
    ASSUME TypeOK, PoolWorker, NEW l \in Lanes,
           \A j \in Outstanding(l) : j.buffer # "arena"
    PROVE  buffer'[l]["arena"] = buffer[l]["arena"]
<1>1. CASE TakeJob
  BY <1>1 DEF TakeJob
<1>2. ASSUME NEW w \in taken, FillMany(w) PROVE buffer'[l]["arena"] = buffer[l]["arena"]
  <2> DEFINE j == w.job
             filled == [i \in 1..MaxKeys |-> IF i \in j.first..j.last THEN j.fill
                                             ELSE buffer[j.lane][j.buffer][i]]
  <2>1. buffer' = [buffer EXCEPT ![j.lane] = [@ EXCEPT ![j.buffer] = filled]]
    BY <1>2 DEF FillMany
  <2>2. w.at = "fill" /\ j.lane \in Lanes /\ j.buffer \in Buffers
    BY <1>2 DEF FillMany, TypeOK, PoolTypeOK, Job
  <2>3. j.lane = l => j.buffer # "arena"
    BY <2>2, OutstandingMembers
  <2> HIDE DEF j, filled
  <2>4. CASE j.lane = l
    BY <2>1, <2>2, <2>3, <2>4 DEF TypeOK, PoolTypeOK, Buffers
  <2>5. CASE j.lane # l
    BY <2>1, <2>2, <2>5 DEF TypeOK, PoolTypeOK
  <2> QED
    BY <2>4, <2>5
<1>3. ASSUME NEW w \in taken, CountDown(w) \/ Notify(w)
      PROVE  buffer'[l]["arena"] = buffer[l]["arena"]
  BY <1>3 DEF CountDown, Notify
<1> QED
  BY <1>1, <1>2, <1>3 DEF PoolWorker

\* A lane that takes no step itself, whatever the pool and other lanes do.
LEMMA ArenaKept ==
    ASSUME NEW l \in Lanes, ArenaSafe(l),
           pc'[l] = pc[l], gpu'[l] = gpu[l], digests'[l] = digests[l], size'[l] = size[l],
           Outstanding(l)' \subseteq Outstanding(l), fpc[l] = "out" => fpc'[l] = "out",
           gpu[l] # "off" => buffer'[l]["arena"] = buffer[l]["arena"]
    PROVE  ArenaSafe(l)'
  BY DEF ArenaSafe

LEMMA TakeKeysArena ==
    ASSUME TypeOK, FramesInv, ArenaInv, NEW k \in Lanes, TakeKeys(k) PROVE ArenaInv'
<1> SUFFICES ASSUME NEW l \in Lanes PROVE ArenaSafe(l)'
  BY DEF ArenaInv
<1>1. /\ pc[k] = "keys" /\ fpc[k] = "out" /\ pc' = [pc EXCEPT ![k] = "launch"]
      /\ UNCHANGED <<taken, gpu, digests, size>>
  BY DEF TakeKeys, device
<1>2. ArenaSafe(l)
  BY DEF ArenaInv
<1>3. CASE l = k
  BY <1>1, <1>2, <1>3 DEF ArenaSafe, TypeOK
<1>4. CASE l # k
  <2>1. pc'[l] = pc[l]
    BY <1>1, <1>4 DEF TypeOK
  <2>2. CASE nextSize[k] = size[k]
    <3>1. UNCHANGED <<pool, frames>> /\ buffer'[l] = buffer[l]
      BY <1>1, <1>4, <2>2 DEF TakeKeys, pool, TypeOK, PoolTypeOK
    <3> QED
      BY <1>1, <1>2, <2>1, <3>1, FramesUnchanged, ArenaKept DEF frames
  <2>3. CASE nextSize[k] # size[k]
    <3>1. StartFill(k, "arena", size[k]) /\ buffer' = buffer
      BY <2>3 DEF TakeKeys
    <3>2. size[k] \in 1..MaxKeys /\ "arena" \in Buffers
      BY DEF TypeOK, Buffers
    <3>3. Outstanding(l)' = Outstanding(l) /\ fpc'[l] = fpc[l]
      BY <1>1, <1>4, <3>1, <3>2, StartFillFrames
    <3> QED
      BY <1>1, <1>2, <2>1, <3>1, <3>3, ArenaKept
  <2> QED
    BY <2>2, <2>3
<1> QED
  BY <1>3, <1>4

LEMMA NextKeysArena ==
    ASSUME TypeOK, FramesInv, ArenaInv, NEW k \in Lanes, NextKeys(k) PROVE ArenaInv'
<1> SUFFICES ASSUME NEW l \in Lanes PROVE ArenaSafe(l)'
  BY DEF ArenaInv
<1>1. /\ pc[k] = "next" /\ pc' = [pc EXCEPT ![k] = "finish"]
      /\ UNCHANGED <<taken, gpu, digests, size>>
  BY DEF NextKeys, device
<1>2. ArenaSafe(l) /\ fpc[k] = "out"
  BY <1>1 DEF ArenaInv, ArenaSafe
<1>3. pc'[l] = IF l = k THEN "finish" ELSE pc[l]
  BY <1>1 DEF TypeOK
<1>4. CASE size[k] > 1
  <2>1. StartFill(k, "next", size[k]) /\ ResizeNext(k)
    BY <1>4 DEF NextKeys
  <2>2. size[k] \in 1..MaxKeys /\ "next" \in Buffers
    BY DEF TypeOK, Buffers
  <2>3. /\ \A j \in Outstanding(k)' : j.buffer = "next"
        /\ l # k => Outstanding(l)' = Outstanding(l) /\ fpc'[l] = fpc[l]
    BY <1>1, <1>2, <2>1, <2>2, StartFillFrames
  <2>4. buffer'[l]["arena"] = buffer[l]["arena"]
    BY <2>1, ResizeTypes
  <2>5. CASE l = k
    BY <1>1, <1>2, <1>3, <2>3, <2>4, <2>5 DEF ArenaSafe
  <2>6. CASE l # k
    BY <1>1, <1>2, <1>3, <2>3, <2>4, <2>6, ArenaKept
  <2> QED
    BY <2>5, <2>6
<1>5. CASE ~(size[k] > 1)
  <2>1. UNCHANGED <<pool, frames>> /\ buffer' = buffer
    BY <1>5 DEF NextKeys, pool
  <2>2. Outstanding(l)' = Outstanding(l)
    BY <2>1, FramesUnchanged
  <2> QED
    BY <1>1, <1>2, <1>3, <2>1, <2>2 DEF ArenaSafe, frames
<1> QED
  BY <1>4, <1>5

\* The steps of a lane that start no fill.
LEMMA LaneArena ==
    ASSUME TypeOK, FramesInv, ArenaInv, NEW k \in Lanes,
           RunBatch(k) \/ DrainPipeline(k) \/ Destroy(k) \/ Launch(k) \/ GpuCopies(k)
           \/ Finish(k) \/ Throw(k) \/ Destroyed(k)
    PROVE  ArenaInv'
<1> SUFFICES ASSUME NEW l \in Lanes PROVE ArenaSafe(l)'
  BY DEF ArenaInv
<1>1. UNCHANGED <<pool, frames>>
  BY DEF RunBatch, DrainPipeline, Destroy, Launch, GpuCopies, Finish, Throw, Destroyed, poolVars
<1>2. Outstanding(l)' = Outstanding(l) /\ fpc' = fpc
  BY <1>1, FramesUnchanged DEF frames
<1>3. ArenaSafe(l)
  BY DEF ArenaInv
<1>4. CASE l # k
  <2>1. pc'[l] = pc[l] /\ gpu'[l] = gpu[l] /\ digests'[l] = digests[l] /\ size'[l] = size[l]
    BY <1>4 DEF RunBatch, DrainPipeline, Destroy, Launch, GpuCopies, Finish, Throw, Destroyed,
                lane, device, TypeOK
  <2>2. CASE Throw(k)
    <3>1. buffer'[l]["arena"] = buffer[l]["arena"]
      BY <2>2, ResizeTypes DEF Throw
    <3> QED
      BY <1>2, <1>3, <2>1, <3>1, ArenaKept
  <2>3. CASE ~Throw(k)
    <3>1. buffer'[l] = buffer[l]
      BY <1>4, <2>3 DEF RunBatch, DrainPipeline, Destroy, Launch, GpuCopies, Finish, Destroyed,
                        poolVars, TypeOK, PoolTypeOK
    <3> QED
      BY <1>2, <1>3, <2>1, <3>1, ArenaKept
  <2> QED
    BY <2>2, <2>3
<1>5. CASE l = k
  <2>1. CASE RunBatch(k) \/ Destroy(k)
    BY <1>2, <1>3, <1>5, <2>1 DEF RunBatch, Destroy, poolVars, device, TypeOK, ArenaSafe
  <2>2. CASE DrainPipeline(k)
    BY <1>2, <1>3, <1>5, <2>2, ArenaKept DEF DrainPipeline, poolVars, lane, device
  <2>3. CASE Launch(k)
    <3>1. fpc[l] = "out" /\ Outstanding(l) = {}
      BY <1>5, <2>3 DEF Launch, FramesInv, FillCovers
    <3>2. pc'[l] = "next" /\ gpu'[l] = "copying"
      BY <1>5, <2>3 DEF Launch, TypeOK
    <3> QED
      BY <1>2, <3>1, <3>2 DEF ArenaSafe
  <2>4. CASE GpuCopies(k)
    <3>1. /\ pc' = pc /\ gpu[l] = "copying" /\ gpu'[l] = "hashed"
          /\ digests'[l] = FirstKeys(buffer[l]["arena"], size[l])
          /\ buffer' = buffer /\ size' = size
      BY <1>5, <2>4 DEF GpuCopies, TypeOK, poolVars, lane
    <3> QED
      BY <1>2, <1>3, <3>1 DEF ArenaSafe
  <2>5. CASE Finish(k) \/ Throw(k)
    <3>1. pc'[l] = "idle" /\ gpu'[l] = "off"
      BY <1>5, <2>5 DEF Finish, Throw, TypeOK
    <3> QED
      BY <3>1 DEF ArenaSafe
  <2>6. CASE Destroyed(k)
    <3>1. pc'[l] = "idle" /\ gpu'[l] = gpu[l] /\ pc[l] = "destroy"
      BY <1>5, <2>6 DEF Destroyed, TypeOK, device
    <3> QED
      BY <1>3, <3>1 DEF ArenaSafe
  <2> QED
    BY <2>1, <2>2, <2>3, <2>4, <2>5, <2>6
<1> QED
  BY <1>4, <1>5

LEMMA ArenaNext == TypeOK /\ FramesInv /\ ArenaInv /\ [Next]_vars => ArenaInv'
<1> SUFFICES ASSUME TypeOK, FramesInv, ArenaInv, [Next]_vars PROVE ArenaInv'
  OBVIOUS
<1>1. CASE KeyWork
  <2> SUFFICES ASSUME NEW l \in Lanes PROVE ArenaSafe(l)'
    BY DEF ArenaInv
  <2>1. PoolWorker /\ UNCHANGED <<pc, gpu, digests, size>> /\ ArenaSafe(l)
    BY <1>1 DEF KeyWork, lane, device, ArenaInv
  <2>2. Outstanding(l)' \subseteq Outstanding(l) /\ (fpc[l] = "out" => fpc'[l] = "out")
    BY <2>1, PoolFrames
  <2>3. gpu[l] # "off" => buffer'[l]["arena"] = buffer[l]["arena"]
    BY <2>1, PoolWrites DEF ArenaSafe
  <2> QED
    BY <2>1, <2>2, <2>3, ArenaKept
<1>2. ASSUME NEW k \in Lanes, KeyFill(k) PROVE ArenaInv'
  <2> SUFFICES ASSUME NEW l \in Lanes PROVE ArenaSafe(l)'
    BY DEF ArenaInv
  <2>1. Caller(k) /\ UNCHANGED <<pc, gpu, digests, size>> /\ ArenaSafe(l)
    BY <1>2 DEF KeyFill, lane, device, ArenaInv
  <2>2. Outstanding(l)' = Outstanding(l) /\ (fpc[l] = "out" => fpc'[l] = "out")
    BY <2>1, CallerFrames
  <2>3. buffer' = buffer
    BY <2>1 DEF Caller, TestRemaining, FallAsleep
  <2> QED
    BY <2>1, <2>2, <2>3, ArenaKept
<1>3. CASE SetDifficulty \/ PublishWork \/ UNCHANGED vars
  <2> SUFFICES ASSUME NEW l \in Lanes PROVE ArenaSafe(l)'
    BY DEF ArenaInv
  <2>1. UNCHANGED <<pool, frames, buffer, pc, gpu, digests, size>> /\ ArenaSafe(l)
    BY <1>3 DEF SetDifficulty, PublishWork, vars, poolVars, lane, device, ArenaInv
  <2>2. Outstanding(l)' = Outstanding(l) /\ fpc' = fpc
    BY <2>1, FramesUnchanged DEF frames
  <2> QED
    BY <2>1, <2>2, ArenaKept
<1> QED
  BY <1>1, <1>2, <1>3, TakeKeysArena, NextKeysArena, LaneArena DEF Next, Continue

\* The snapshot of a finished wave is paired, and finalising or dropping a
\* snapshot changes none.
LEMMA PairedNext == TypeOK /\ ArenaInv /\ Paired /\ [Next]_vars => Paired'
<1> SUFFICES ASSUME TypeOK, ArenaInv, Paired, [Next]_vars, NEW l \in Lanes,
                    NEW slot \in prev'[l] \cup pending'[l] \cup last'[l]
             PROVE  slot.keys = slot.digests
  BY DEF Paired
<1> DEFINE held == prev[l] \cup pending[l] \cup last[l]
<1>1. slot \in held => slot.keys = slot.digests
  BY DEF Paired
<1>2. ASSUME NEW k \in Lanes, Finish(k) PROVE slot.keys = slot.digests
  <2>1. CASE l = k
    <3>1. digests[l] = FirstKeys(buffer[l]["arena"], size[l])
      BY <1>2, <2>1 DEF Finish, ArenaInv, ArenaSafe
    <3>2. /\ prev'[l] = {} /\ pending'[l] = Snapshot(l) /\ Report(l, prev[l])
      BY <1>2, <2>1 DEF Finish, TypeOK
    <3>3. last'[l] \subseteq held
      BY <3>2 DEF Report, TypeOK
    <3>4. \A s \in Snapshot(l) : s.keys = s.digests
      BY <3>1 DEF Snapshot
    <3> QED
      BY <1>1, <3>2, <3>3, <3>4
  <2>2. CASE l # k
    <3>1. prev'[l] = prev[l] /\ pending'[l] = pending[l]
      BY <1>2, <2>2 DEF Finish, TypeOK
    <3>2. last'[l] = last[l]
      BY <1>2, <2>2 DEF Finish, Report, TypeOK
    <3> QED
      BY <1>1, <3>1, <3>2
  <2> QED
    BY <2>1, <2>2
<1>3. ASSUME NEW k \in Lanes, DrainPipeline(k) PROVE slot.keys = slot.digests
  <2>1. prev' = prev /\ pending'[l] \subseteq pending[l]
    BY <1>3 DEF DrainPipeline, TypeOK
  <2>2. last'[l] \subseteq held
    BY <1>3 DEF DrainPipeline, Report, TypeOK
  <2> QED
    BY <1>1, <2>1, <2>2
<1>4. ASSUME NEW k \in Lanes, RunBatch(k) \/ Throw(k) \/ Destroyed(k)
      PROVE  slot.keys = slot.digests
  <2>1. prev'[l] \cup pending'[l] \subseteq held /\ last' = last
    BY <1>4 DEF RunBatch, Throw, Destroyed, TypeOK
  <2> QED
    BY <1>1, <2>1
<1>5. ASSUME UNCHANGED slots PROVE slot.keys = slot.digests
  BY <1>1, <1>5 DEF slots
<1>6. ASSUME NEW k \in Lanes,
             TakeKeys(k) \/ Launch(k) \/ GpuCopies(k) \/ NextKeys(k) \/ Destroy(k) \/ KeyFill(k)
      PROVE  UNCHANGED slots
  BY <1>6 DEF TakeKeys, Launch, GpuCopies, NextKeys, Destroy, KeyFill, slots
<1>7. ASSUME KeyWork \/ SetDifficulty \/ PublishWork \/ UNCHANGED vars PROVE UNCHANGED slots
  BY <1>7 DEF KeyWork, SetDifficulty, PublishWork, vars, slots
<1> QED
  BY <1>2, <1>3, <1>4, <1>5, <1>6, <1>7 DEF Next, Continue

-----------------------------------------------------------------------------
(* The invariant and the theorems.                                         *)

LEMMA InitInv == Init => IInv
<1> SUFFICES ASSUME Init PROVE IInv
  OBVIOUS
<1>1. /\ q = {} /\ taken = {} /\ remaining = [l \in Lanes |-> 0]
      /\ fpc = [l \in Lanes |-> "out"]
  BY DEF Init, PoolInit
<1>2. \A l \in Lanes : Outstanding(l) = {}
  BY <1>1 DEF Outstanding
<1>3. JobsInv
  BY <1>1, FS_EmptySet DEF JobsInv
<1>4. FillCovers
  BY <1>1, <1>2, FS_EmptySet DEF FillCovers
<1>5. ArenaInv
  BY DEF Init, ArenaInv, ArenaSafe
<1>6. Paired
  BY DEF Init, Paired
<1> QED
  BY <1>3, <1>4, <1>5, <1>6, TypeInit DEF IInv

LEMMA NextInv == IInv /\ [Next]_vars => IInv'
  BY TypeNext, FramesNext, ArenaNext, PairedNext DEF IInv, FramesInv

LEMMA Invariance == Spec => []IInv
  BY InitInv, NextInv, PTL DEF Spec

\* Pool, lanes, device and snapshots keep their types (runBatch, KeygenPool::fill).
THEOREM TypeCorrect == Spec => []TypeOK
<1>1. IInv => TypeOK
  BY DEF IInv
<1> QED
  BY <1>1, Invariance, PTL

\* For any number of lanes and threads and any batch, KeygenPool::fill returns
\* exactly when no job of it is left: the counter never loses or repeats a job,
\* the skipped ones of an uneven split included.
THEOREM FillsComplete == Spec => []FillCovers
<1>1. IInv => FillCovers
  BY DEF IInv
<1> QED
  BY <1>1, Invariance, PTL

\* runBatch never attaches a digest to a key that did not produce it.
THEOREM KeysPaired == Spec => []Paired
<1>1. IInv => Paired
  BY DEF IInv
<1> QED
  BY <1>1, Invariance, PTL

-----------------------------------------------------------------------------
(* No key in two snapshots.  Keys that are in a snapshot may still lie in a*)
(* buffer, but only where a job of the running fill will overwrite them;   *)
(* keys that are in the arena and in next_keys_ at the same time never come*)
(* to a second snapshot, for the first one is then dropped.                *)

Slots(l) == prev[l] \cup pending[l] \cup last[l]
Used(l, i, k) == k # 0 /\ \E s \in Slots(l) : s.keys[i] = k

\* Jobs whose keys are not written yet, and the places they will write to.
ToFill(l) == {j \in q \cup {w.job : w \in {v \in taken : v.at = "fill"}} : j.lane = l}
Covered(l, b, i) == \E j \in ToFill(l) : j.buffer = b /\ i \in j.first..j.last

NextUnused(l) ==
    \A i \in 1..MaxKeys : Used(l, i, buffer[l]["next"][i]) => Covered(l, "next", i)

ArenaUnused(l) ==
    pc[l] \in {"launch", "next", "finish"} =>
        \A i \in 1..size[l] : Used(l, i, buffer[l]["arena"][i]) => Covered(l, "arena", i)

\* What Finish puts into the snapshot does not stay behind in next_keys_.
BuffersApart(l) ==
    pc[l] = "finish" \/ (pc[l] \in {"launch", "next"} /\ size[l] = 1) =>
        \A i \in 1..size[l] :
            buffer[l]["arena"][i] = buffer[l]["next"][i] /\ buffer[l]["next"][i] # 0 =>
                Covered(l, "arena", i) \/ Covered(l, "next", i)

\* The keys of a running fill are in no snapshot and in no other buffer.
FillIsNew(l) ==
    \A j \in ToFill(l) :
        /\ \A i \in 1..MaxKeys : ~Used(l, i, j.fill)
        /\ \A b \in Buffers \ {j.buffer} : \A i \in 1..MaxKeys : buffer[l][b][i] # j.fill
        /\ \A k \in ToFill(l) : k.buffer = j.buffer

KeysOld(l) ==
    /\ \A b \in Buffers, i \in 1..MaxKeys : buffer[l][b][i] <= fill[l]
    /\ \A s \in Slots(l), i \in 1..MaxKeys : s.keys[i] <= fill[l]

UseInvOf(l) ==
    /\ NextUnused(l) /\ ArenaUnused(l) /\ BuffersApart(l) /\ FillIsNew(l) /\ KeysOld(l)
    /\ nextSize[l] # 1

UseInv == \A l \in Lanes : UseInvOf(l)

LEMMA Quotient ==
    ASSUME NEW a \in Nat, NEW d \in Nat \ {0}
    PROVE  a \div d \in Nat /\ (a \div d) * d <= a /\ a < (a \div d) * d + d
  OBVIOUS

LEMMA ProductsGrow ==
    ASSUME NEW a \in Nat, NEW b \in Nat, NEW c \in Nat, a <= b
    PROVE  a * c <= b * c
  OBVIOUS

\* The jobs of a fill cover its keys: the chunks that are skipped would have been
\* beyond the last key.
LEMMA JobsCover ==
    ASSUME NEW l \in Lanes, NEW b \in Buffers, NEW n \in 1..MaxKeys, NEW f \in Nat,
           NEW i \in 1..n
    PROVE  \E j \in JobsOf(l, b, n, f) : i \in j.first..j.last
<1> DEFINE use == Smaller(Threads, n)
           chunk == (n + use - 1) \div use
           t == (i - 1) \div chunk
           J(u) == [lane |-> l, fill |-> f, buffer |-> b,
                    first |-> u * chunk + 1, last |-> Smaller(n, (u + 1) * chunk)]
<1>1. use \in Nat \ {0} /\ n \in Nat \ {0} /\ i \in Nat \ {0} /\ i <= n
  BY KeygenPoolAssumption DEF Smaller
<1>2. chunk \in Nat /\ n + use - 1 < chunk * use + use
  <2> HIDE DEF use
  <2>1. n + use - 1 \in Nat
    BY <1>1
  <2> QED
    BY <1>1, <2>1, Quotient
<1>3. JobsOf(l, b, n, f) = {J(u) : u \in {v \in 0..(use - 1) : v * chunk < n}}
  BY DEF JobsOf
<1> HIDE DEF use, chunk
<1>4. chunk * use \in Nat /\ n <= chunk * use /\ use * chunk = chunk * use
  <2>1. chunk * use \in Nat /\ use * chunk = chunk * use
    BY <1>1, <1>2
  <2> DEFINE p == chunk * use
  <2>2. p \in Nat /\ n + use - 1 < p + use
    BY <1>2, <2>1
  <2> HIDE DEF p
  <2>3. n <= p
    BY <1>1, <2>2
  <2> QED
    BY <2>1, <2>3 DEF p
<1>5. chunk # 0
  <2> SUFFICES ASSUME chunk = 0 PROVE FALSE
    OBVIOUS
  <2>1. chunk * use = 0
    BY <1>1
  <2> QED
    BY <1>1, <1>4, <2>1
<1>6. t \in Nat /\ t * chunk <= i - 1 /\ i - 1 < t * chunk + chunk
  <2>1. i - 1 \in Nat /\ chunk \in Nat \ {0}
    BY <1>1, <1>2, <1>5
  <2> QED
    BY <2>1, Quotient
<1> HIDE DEF t
<1>7. t * chunk \in Nat /\ (t + 1) * chunk = t * chunk + chunk
  BY <1>2, <1>6
<1>8. t < use
  <2> SUFFICES ASSUME use <= t PROVE FALSE
    BY <1>1, <1>6
  <2>1. use * chunk <= t * chunk
    BY <1>1, <1>2, <1>6, ProductsGrow
  <2> QED
    BY <1>1, <1>4, <1>6, <1>7, <2>1
<1> DEFINE p == t * chunk
<1>9. p \in Nat /\ p <= i - 1 /\ i - 1 < p + chunk /\ (t + 1) * chunk = p + chunk
  BY <1>6, <1>7
<1> HIDE DEF p
<1>10. p < n /\ i \in (p + 1)..Smaller(n, p + chunk)
  BY <1>1, <1>2, <1>9 DEF Smaller
<1>11. t \in {v \in 0..(use - 1) : v * chunk < n}
  BY <1>1, <1>6, <1>8, <1>10 DEF p
<1>12. J(t).first = p + 1 /\ J(t).last = Smaller(n, p + chunk)
  BY <1>9 DEF p
<1>13. J(t) \in JobsOf(l, b, n, f)
  BY <1>3, <1>11
<1> QED
  BY <1>10, <1>12, <1>13

LEMMA ToFillMembers ==
    ASSUME NEW l \in Lanes
    PROVE  /\ \A j : j \in ToFill(l) <=>
                  /\ j.lane = l
                  /\ j \in q \/ \E v \in taken : v.at = "fill" /\ v.job = j
           /\ \A j : j \in ToFill(l)' <=>
                  /\ j.lane = l
                  /\ j \in q' \/ \E v \in taken' : v.at = "fill" /\ v.job = j
  BY DEF ToFill

LEMMA ToFillOutstanding ==
    ASSUME NEW l \in Lanes PROVE ToFill(l) \subseteq Outstanding(l)
<1>1. \A j : j \in ToFill(l) => j \in Outstanding(l)
  BY ToFillMembers, OutstandingMembers
<1> QED
  BY <1>1

\* A lane whose buffers and fill stay as they are, and whose snapshots are at most
\* passed on or dropped.
LEMMA UseKept ==
    ASSUME NEW l \in Lanes, UseInvOf(l),
           ToFill(l)' = ToFill(l), buffer'[l] = buffer[l], fill'[l] = fill[l],
           nextSize'[l] = nextSize[l], Slots(l)' \subseteq Slots(l),
           pc'[l] \in {"launch", "next", "finish"} =>
               pc[l] \in {"launch", "next", "finish"} /\ size'[l] = size[l],
           pc'[l] = "finish" => pc[l] = "finish" \/ size[l] = 1
    PROVE  UseInvOf(l)'
<1>1. \A i, k : Used(l, i, k)' => Used(l, i, k)
  BY DEF Used
<1>2. \A b, i : Covered(l, b, i)' <=> Covered(l, b, i)
  BY DEF Covered
<1>3. NextUnused(l)'
  BY <1>1, <1>2 DEF UseInvOf, NextUnused
<1>4. ArenaUnused(l)'
  BY <1>1, <1>2 DEF UseInvOf, ArenaUnused
<1>5. BuffersApart(l)'
  BY <1>2 DEF UseInvOf, BuffersApart
<1>6. FillIsNew(l)'
  BY <1>1 DEF UseInvOf, FillIsNew
<1>7. KeysOld(l)'
  BY DEF UseInvOf, KeysOld
<1> QED
  BY <1>3, <1>4, <1>5, <1>6, <1>7 DEF UseInvOf

\* A fill starts: its jobs are all that is to be filled, cover the keys and carry a
\* number that no key has yet.
LEMMA StartFillJobs ==
    ASSUME TypeOK, FramesInv, NEW l \in Lanes, NEW b \in Buffers, NEW n \in 1..MaxKeys,
           fpc[l] = "out", StartFill(l, b, n), taken' = taken
    PROVE  /\ fill[l] \in Nat /\ fill'[l] = fill[l] + 1
           /\ \A j \in ToFill(l)' : j.buffer = b /\ j.fill = fill[l] + 1
           /\ \A i \in 1..n : Covered(l, b, i)'
           /\ \A k \in Lanes \ {l} : ToFill(k)' = ToFill(k) /\ fill'[k] = fill[k]
<1> DEFINE jobs == JobsOf(l, b, n, fill[l] + 1)
<1>1. fill[l] \in Nat /\ fill[l] + 1 \in Nat
  BY DEF TypeOK, PoolTypeOK
<1>2. \A j \in jobs : j.lane = l /\ j.buffer = b /\ j.fill = fill[l] + 1
  BY <1>1, JobsAreJobs
<1>3. \A i \in 1..n : \E j \in jobs : i \in j.first..j.last
  BY <1>1, JobsCover
<1>4. q' = q \cup jobs /\ fill' = [fill EXCEPT ![l] = @ + 1]
  BY DEF StartFill
<1>5. fill'[l] = fill[l] + 1 /\ \A k \in Lanes \ {l} : fill'[k] = fill[k]
  BY <1>4 DEF TypeOK, PoolTypeOK
<1> HIDE DEF jobs
<1>6. ToFill(l) = {}
  BY ToFillOutstanding DEF FramesInv, FillCovers
<1>7. \A j : j \in ToFill(l)' <=> j \in jobs
  <2>1. \A j : j.lane = l => j \notin q /\ ~\E v \in taken : v.at = "fill" /\ v.job = j
    BY <1>6, ToFillMembers
  <2> QED
    BY <1>2, <1>4, <2>1, ToFillMembers
<1>8. \A i \in 1..n : Covered(l, b, i)'
  BY <1>2, <1>3, <1>7 DEF Covered
<1>9. ASSUME NEW k \in Lanes, k # l PROVE ToFill(k)' = ToFill(k)
  <2>1. \A j : j \in ToFill(k)' <=> j \in ToFill(k)
    BY <1>2, <1>4, <1>9, ToFillMembers
  <2> QED
    BY <2>1
<1> QED
  BY <1>1, <1>2, <1>5, <1>7, <1>8, <1>9

\* A worker writes the keys of its job: new keys, where only old ones were.
LEMMA FillManyUse ==
    ASSUME TypeOK, FramesInv, UseInv, NEW w \in taken, FillMany(w),
           UNCHANGED <<lane, slots>>, NEW l \in Lanes
    PROVE  UseInvOf(l)'
<1> DEFINE j == w.job
           filled == [i \in 1..MaxKeys |-> IF i \in j.first..j.last THEN j.fill
                                           ELSE buffer[j.lane][j.buffer][i]]
<1>1. /\ w.at = "fill" /\ taken' = Moved(w, "count") /\ UNCHANGED <<q, fill>>
      /\ buffer' = [buffer EXCEPT ![j.lane] = [@ EXCEPT ![j.buffer] = filled]]
  BY DEF FillMany, frames
<1>2. j \in Job /\ j.lane \in Lanes /\ j.buffer \in Buffers
  BY DEF TypeOK, PoolTypeOK, Job
<1>3. /\ UNCHANGED <<pc, size, nextSize>> /\ Slots(l)' = Slots(l)
  BY DEF lane, slots, Slots
<1>4. \A k \in ToFill(l) : k \in ToFill(l)' \/ k = j
  <2> DEFINE t == [w EXCEPT !.at = "count"]
  <2>1. w \in [job : Job, at : WorkerPlaces]
    BY DEF TypeOK, PoolTypeOK
  <2>2. t.at = "count" /\ taken' = (taken \ {w}) \cup {t}
    BY <1>1, <2>1 DEF Moved
  <2> HIDE DEF t
  <2> QED
    BY <1>1, <2>2, ToFillMembers
<1>5. ToFill(l)' \subseteq ToFill(l)
  <2> DEFINE t == [w EXCEPT !.at = "count"]
  <2>1. w \in [job : Job, at : WorkerPlaces]
    BY DEF TypeOK, PoolTypeOK
  <2>2. t.at = "count" /\ taken' = (taken \ {w}) \cup {t}
    BY <1>1, <2>1 DEF Moved
  <2> HIDE DEF t
  <2>3. \A k : k \in ToFill(l)' => k \in ToFill(l)
    BY <1>1, <2>2, ToFillMembers
  <2> QED
    BY <2>3
<1>6. UseInvOf(l)
  BY DEF UseInv
<1> HIDE DEF j, filled
<1>7. CASE j.lane # l
  <2>1. buffer'[l] = buffer[l]
    BY <1>1, <1>2, <1>7 DEF TypeOK, PoolTypeOK
  <2>2. ToFill(l)' = ToFill(l)
    <3>1. \A k \in ToFill(l) : k # j
      BY <1>7, ToFillMembers
    <3> QED
      BY <1>4, <1>5, <3>1
  <2> QED
    BY <1>1, <1>3, <1>6, <2>1, <2>2, UseKept
<1>8. CASE j.lane = l
  <2>1. j \in ToFill(l)
    BY <1>1, <1>8, ToFillMembers DEF j
  <2>2. \A k \in ToFill(l) : k.fill = fill[l] /\ k.buffer = j.buffer
    BY <1>6, <2>1, ToFillOutstanding DEF UseInvOf, FillIsNew, FramesInv, FillCovers
  <2>3. /\ \A i \in 1..MaxKeys : i \in j.first..j.last => buffer'[l][j.buffer][i] = j.fill
        /\ \A i \in 1..MaxKeys : i \notin j.first..j.last =>
              buffer'[l][j.buffer][i] = buffer[l][j.buffer][i]
        /\ \A b \in Buffers : b # j.buffer => buffer'[l][b] = buffer[l][b]
    BY <1>1, <1>2, <1>8 DEF TypeOK, PoolTypeOK, Keys, filled
  <2>4. \A b \in Buffers, i \in 1..MaxKeys :
           Covered(l, b, i) => Covered(l, b, i)' \/ (b = j.buffer /\ i \in j.first..j.last)
    BY <1>4 DEF Covered
  <2>5. \A i, k : Used(l, i, k)' <=> Used(l, i, k)
    BY <1>3 DEF Used
  <2>6. /\ \A i \in 1..MaxKeys : ~Used(l, i, j.fill)
        /\ \A b \in Buffers \ {j.buffer} : \A i \in 1..MaxKeys : buffer[l][b][i] # j.fill
    BY <1>6, <2>1 DEF UseInvOf, FillIsNew
  <2>7. size[l] \in 1..MaxKeys /\ "arena" \in Buffers /\ "next" \in Buffers
        /\ \A i \in 1..size[l] : i \in 1..MaxKeys
    BY KeygenPoolAssumption DEF TypeOK, Buffers
  <2>8. NextUnused(l)'
    BY <1>6, <2>3, <2>4, <2>5, <2>6, <2>7 DEF UseInvOf, NextUnused
  <2>9. ArenaUnused(l)'
    BY <1>3, <1>6, <2>3, <2>4, <2>5, <2>6, <2>7 DEF UseInvOf, ArenaUnused
  <2>10. BuffersApart(l)'
    <3> SUFFICES ASSUME pc[l] = "finish" \/ (pc[l] \in {"launch", "next"} /\ size[l] = 1),
                        NEW i \in 1..size[l],
                        buffer'[l]["arena"][i] = buffer'[l]["next"][i], buffer'[l]["next"][i] # 0
                 PROVE  Covered(l, "arena", i)' \/ Covered(l, "next", i)'
      BY <1>3 DEF BuffersApart
    <3>1. i \in 1..MaxKeys
      BY <2>7
    <3>2. i \notin j.first..j.last
      <4>1. CASE j.buffer = "arena"
        BY <2>3, <2>6, <2>7, <3>1, <4>1
      <4>2. CASE j.buffer = "next"
        BY <2>3, <2>6, <2>7, <3>1, <4>2
      <4> QED
        BY <1>2, <4>1, <4>2 DEF Buffers
    <3>3. \A b \in Buffers : buffer'[l][b][i] = buffer[l][b][i]
      BY <2>3, <3>1, <3>2
    <3>4. buffer[l]["arena"][i] = buffer[l]["next"][i] /\ buffer[l]["next"][i] # 0
      BY <2>7, <3>3
    <3>5. Covered(l, "arena", i) \/ Covered(l, "next", i)
      BY <1>6, <3>4 DEF UseInvOf, BuffersApart
    <3> QED
      BY <2>4, <2>7, <3>1, <3>2, <3>5
  <2>11. FillIsNew(l)'
    BY <1>5, <1>6, <2>2, <2>3, <2>5 DEF UseInvOf, FillIsNew
  <2>12. KeysOld(l)'
    <3>1. j.fill = fill[l] /\ fill[l] \in Nat /\ fill' = fill
      BY <1>1, <2>1, <2>2 DEF TypeOK, PoolTypeOK
    <3>2. \A b \in Buffers, i \in 1..MaxKeys : buffer'[l][b][i] <= fill'[l]
      BY <1>6, <2>3, <3>1 DEF UseInvOf, KeysOld
    <3> QED
      BY <1>3, <1>6, <3>1, <3>2 DEF UseInvOf, KeysOld
  <2> QED
    BY <1>3, <1>6, <2>8, <2>9, <2>10, <2>11, <2>12 DEF UseInvOf
<1> QED
  BY <1>7, <1>8

\* The other steps of workers touch no key and leave no job behind.
LEMMA PoolUse ==
    ASSUME TypeOK, FramesInv, UseInv, PoolWorker, UNCHANGED <<lane, slots>>
    PROVE  UseInv'
<1> SUFFICES ASSUME NEW l \in Lanes PROVE UseInvOf(l)'
  BY DEF UseInv
<1>1. UseInvOf(l) /\ UNCHANGED <<pc, size, nextSize>> /\ Slots(l)' = Slots(l)
  BY DEF UseInv, lane, slots, Slots
<1>2. ASSUME NEW w \in taken, FillMany(w) PROVE UseInvOf(l)'
  BY <1>2, FillManyUse
<1>3. CASE TakeJob
  <2>1. PICK j \in q : q' = q \ {j} /\ taken' = taken \cup {[job |-> j, at |-> "fill"]}
    BY <1>3 DEF TakeJob
  <2> DEFINE t == [job |-> j, at |-> "fill"]
  <2>2. t.job = j /\ t.at = "fill" /\ taken' = taken \cup {t}
    BY <2>1
  <2> HIDE DEF t
  <2>3. \A k : k \in ToFill(l)' <=> k \in ToFill(l)
    BY <2>1, <2>2, ToFillMembers
  <2>4. ToFill(l)' = ToFill(l) /\ UNCHANGED <<buffer, fill>>
    BY <1>3, <2>3 DEF TakeJob, frames
  <2> QED
    BY <1>1, <2>4, UseKept
<1>4. ASSUME NEW w \in taken, CountDown(w) \/ Notify(w) PROVE UseInvOf(l)'
  <2>1. w.at # "fill" /\ UNCHANGED <<q, buffer, fill>>
    BY <1>4 DEF CountDown, Notify
  <2>2. taken' = taken \ {w} \/ taken' = Moved(w, "notify")
    BY <1>4 DEF CountDown, Notify
  <2>3. \A k : k \in ToFill(l)' <=> k \in ToFill(l)
    <3>1. CASE taken' = taken \ {w}
      BY <2>1, <3>1, ToFillMembers
    <3>2. CASE taken' = Moved(w, "notify")
      <4> DEFINE t == [w EXCEPT !.at = "notify"]
      <4>1. w \in [job : Job, at : WorkerPlaces]
        BY DEF TypeOK, PoolTypeOK
      <4>2. t.at = "notify" /\ taken' = (taken \ {w}) \cup {t}
        BY <3>2, <4>1 DEF Moved
      <4> HIDE DEF t
      <4> QED
        BY <2>1, <4>2, ToFillMembers
    <3> QED
      BY <2>2, <3>1, <3>2
  <2>4. ToFill(l)' = ToFill(l)
    BY <2>3
  <2> QED
    BY <1>1, <2>1, <2>4, UseKept
<1> QED
  BY <1>2, <1>3, <1>4 DEF PoolWorker

\* When the caller is not in fill() no key of the lane is waiting to be written.
LEMMA NothingToFill ==
    ASSUME FramesInv, NEW l \in Lanes, fpc[l] = "out"
    PROVE  ToFill(l) = {} /\ \A b, i : ~Covered(l, b, i)
<1>1. ToFill(l) = {}
  BY ToFillOutstanding DEF FramesInv, FillCovers
<1> QED
  BY <1>1 DEF Covered

LEMMA KeysTyped ==
    ASSUME TypeOK, NEW l \in Lanes, UseInvOf(l)
    PROVE  /\ \A b \in Buffers, i \in 1..MaxKeys : buffer[l][b][i] \in Nat /\ buffer[l][b][i] <= fill[l]
           /\ \A s \in Slots(l), i \in 1..MaxKeys : s.keys[i] \in Nat /\ s.keys[i] <= fill[l]
<1>1. \A b \in Buffers : buffer[l][b] \in Keys
  BY DEF TypeOK, PoolTypeOK
<1>2. \A s \in Slots(l) : s.keys \in Keys
  <2>1. prev[l] \subseteq Slot /\ pending[l] \subseteq Slot /\ last[l] \subseteq Slot
    BY DEF TypeOK
  <2> QED
    BY <2>1 DEF Slots, Slot
<1> QED
  BY <1>1, <1>2 DEF UseInvOf, KeysOld, Keys

\* A buffer is cut or copied while no fill runs: no key appears in it that was not
\* in next_keys_ before.
LEMMA TakeKeysUse ==
    ASSUME TypeOK, FramesInv, UseInv, NEW k \in Lanes, TakeKeys(k) PROVE UseInv'
<1> SUFFICES ASSUME NEW l \in Lanes PROVE UseInvOf(l)'
  BY DEF UseInv
<1>1. /\ pc[k] = "keys" /\ fpc[k] = "out" /\ pc' = [pc EXCEPT ![k] = "launch"]
      /\ UNCHANGED <<taken, size, nextSize>> /\ Slots(l)' = Slots(l)
  BY DEF TakeKeys, slots, Slots
<1>2. UseInvOf(l) /\ size[k] \in 1..MaxKeys /\ buffer[k] \in [Buffers -> Keys]
  BY DEF UseInv, TypeOK, PoolTypeOK
<1>3. \A i, v : Used(l, i, v)' <=> Used(l, i, v)
  BY <1>1 DEF Used
<1>4. CASE nextSize[k] = size[k]
  <2>1. /\ UNCHANGED <<pool, frames>>
        /\ buffer' = [buffer EXCEPT ![k]["arena"] = FirstKeys(buffer[k]["next"], size[k])]
    BY <1>1, <1>4 DEF TakeKeys, pool
  <2>2. ToFill(l)' = ToFill(l) /\ fill' = fill
    BY <2>1 DEF ToFill, pool, frames
  <2>3. CASE l # k
    <3>1. buffer'[l] = buffer[l] /\ pc'[l] = pc[l]
      BY <1>1, <2>1, <2>3 DEF TypeOK, PoolTypeOK
    <3> QED
      BY <1>1, <1>2, <2>2, <3>1, UseKept
  <2>4. CASE l = k
    <3>1. /\ buffer'[l]["next"] = buffer[l]["next"]
          /\ buffer'[l]["arena"] = FirstKeys(buffer[l]["next"], size[l])
      BY <1>2, <2>1, <2>4 DEF TypeOK, PoolTypeOK, Buffers
    <3>2. ToFill(l)' = {} /\ \A b, i : ~Covered(l, b, i)
      BY <1>1, <2>2, <2>4, NothingToFill
    <3>3. \A i \in 1..MaxKeys : buffer'[l]["arena"][i] \in {0, buffer[l]["next"][i]}
      BY <3>1 DEF FirstKeys
    <3>4. \A i \in 1..MaxKeys : ~Used(l, i, buffer[l]["next"][i])
      BY <1>2, <3>2 DEF UseInvOf, NextUnused
    <3>5. NextUnused(l)'
      BY <1>3, <3>1, <3>4 DEF NextUnused
    <3>6. ArenaUnused(l)'
      <4>1. \A i \in 1..size[l] : i \in 1..MaxKeys
        BY <1>2, <2>4, KeygenPoolAssumption
      <4>2. \A i \in 1..MaxKeys : ~Used(l, i, buffer'[l]["arena"][i])
        BY <3>3, <3>4 DEF Used
      <4> QED
        BY <1>1, <1>3, <4>1, <4>2 DEF ArenaUnused
    <3>7. BuffersApart(l)'
      <4>1. pc'[l] = "launch" /\ size[l] # 1
        BY <1>1, <1>2, <1>4, <2>4 DEF UseInvOf, TypeOK
      <4> QED
        BY <1>1, <4>1 DEF BuffersApart
    <3>8. FillIsNew(l)'
      BY <3>2 DEF FillIsNew
    <3>9. KeysOld(l)'
      <4>1. fill[l] \in Nat /\ "next" \in Buffers
        BY DEF TypeOK, PoolTypeOK, Buffers
      <4>2. \A i \in 1..MaxKeys : buffer'[l]["arena"][i] <= fill[l] /\ buffer'[l]["next"][i] <= fill[l]
        BY <1>2, <3>1, <3>3, <4>1 DEF UseInvOf, KeysOld
      <4> QED
        BY <1>1, <1>2, <2>2, <4>2 DEF UseInvOf, KeysOld, Buffers
    <3> QED
      BY <1>1, <1>2, <3>5, <3>6, <3>7, <3>8, <3>9 DEF UseInvOf
  <2> QED
    BY <2>3, <2>4
<1>5. CASE nextSize[k] # size[k]
  <2>1. StartFill(k, "arena", size[k]) /\ buffer' = buffer /\ "arena" \in Buffers
    BY <1>5 DEF TakeKeys, Buffers
  <2>2. /\ fill[k] \in Nat /\ fill'[k] = fill[k] + 1
        /\ \A j \in ToFill(k)' : j.buffer = "arena" /\ j.fill = fill[k] + 1
        /\ \A i \in 1..size[k] : Covered(k, "arena", i)'
        /\ \A m1 \in Lanes \ {k} : ToFill(m1)' = ToFill(m1) /\ fill'[m1] = fill[m1]
    BY <1>1, <1>2, <2>1, StartFillJobs
  <2>3. CASE l # k
    <3>1. pc'[l] = pc[l]
      BY <1>1, <2>3 DEF TypeOK
    <3> QED
      BY <1>1, <1>2, <2>1, <2>2, <2>3, <3>1, UseKept
  <2>4. CASE l = k
    <3>1. \A b, i : ~Covered(l, b, i)
      BY <1>1, <2>4, NothingToFill
    <3>2. /\ \A b \in Buffers, i \in 1..MaxKeys : buffer[l][b][i] \in Nat /\ buffer[l][b][i] <= fill[l]
          /\ \A s \in Slots(l), i \in 1..MaxKeys : s.keys[i] \in Nat /\ s.keys[i] <= fill[l]
      BY <1>2, KeysTyped
    <3>3. NextUnused(l)'
      BY <1>2, <1>3, <2>1, <3>1 DEF UseInvOf, NextUnused
    <3>4. ArenaUnused(l)'
      BY <1>1, <2>2, <2>4 DEF ArenaUnused
    <3>5. BuffersApart(l)'
      BY <1>1, <2>2, <2>4 DEF BuffersApart
    <3>6. FillIsNew(l)'
      <4>1. \A i \in 1..MaxKeys : ~Used(l, i, fill[l] + 1)
        BY <2>2, <2>4, <3>2 DEF Used
      <4>2. \A b \in Buffers : \A i \in 1..MaxKeys : buffer[l][b][i] # fill[l] + 1
        BY <2>2, <2>4, <3>2
      <4> QED
        BY <1>3, <2>1, <2>2, <2>4, <4>1, <4>2 DEF FillIsNew
    <3>7. KeysOld(l)'
      BY <1>1, <2>1, <2>2, <2>4, <3>2 DEF KeysOld
    <3> QED
      BY <1>1, <1>2, <3>3, <3>4, <3>5, <3>6, <3>7 DEF UseInvOf
  <2> QED
    BY <2>3, <2>4
<1> QED
  BY <1>4, <1>5

LEMMA ResizedKeys ==
    ASSUME TypeOK, NEW k \in Lanes, ResizeNext(k)
    PROVE  /\ buffer'[k]["arena"] = buffer[k]["arena"]
           /\ \A i \in 1..MaxKeys : buffer'[k]["next"][i] \in {0, buffer[k]["next"][i]}
           /\ \A i \in 1..MaxKeys : ~(i <= size[k]) => buffer'[k]["next"][i] = 0
           /\ nextSize'[k] = size[k]
           /\ \A l \in Lanes \ {k} : buffer'[l] = buffer[l] /\ nextSize'[l] = nextSize[l]
<1>1. /\ buffer' = [buffer EXCEPT ![k]["next"] = FirstKeys(@, Smaller(nextSize[k], size[k]))]
      /\ nextSize' = [nextSize EXCEPT ![k] = size[k]]
  BY DEF ResizeNext
<1>2. /\ buffer'[k]["arena"] = buffer[k]["arena"]
      /\ buffer'[k]["next"] = FirstKeys(buffer[k]["next"], Smaller(nextSize[k], size[k]))
      /\ \A l \in Lanes \ {k} : buffer'[l] = buffer[l]
  BY <1>1 DEF TypeOK, PoolTypeOK, Buffers
<1>3. \A i \in 1..MaxKeys : i <= Smaller(nextSize[k], size[k]) => i <= size[k]
  BY DEF Smaller, TypeOK
<1>4. nextSize'[k] = size[k] /\ \A l \in Lanes \ {k} : nextSize'[l] = nextSize[l]
  BY <1>1 DEF TypeOK
<1> QED
  BY <1>2, <1>3, <1>4 DEF FirstKeys

LEMMA NextKeysUse ==
    ASSUME TypeOK, FramesInv, ArenaInv, UseInv, NEW k \in Lanes, NextKeys(k) PROVE UseInv'
<1> SUFFICES ASSUME NEW l \in Lanes PROVE UseInvOf(l)'
  BY DEF UseInv
<1>1. /\ pc[k] = "next" /\ fpc[k] = "out" /\ pc' = [pc EXCEPT ![k] = "finish"]
      /\ UNCHANGED <<taken, size>> /\ Slots(l)' = Slots(l)
  BY DEF NextKeys, slots, Slots, ArenaInv, ArenaSafe
<1>2. UseInvOf(l) /\ size[k] \in 1..MaxKeys
  BY DEF UseInv, TypeOK
<1>3. \A i, v : Used(l, i, v)' <=> Used(l, i, v)
  BY <1>1 DEF Used
<1>4. CASE ~(size[k] > 1)
  <2>1. UNCHANGED <<q, fill, buffer, nextSize>> /\ size[k] = 1
    BY <1>2, <1>4 DEF NextKeys, frames
  <2>2. ToFill(l)' = ToFill(l)
    BY <1>1, <2>1 DEF ToFill
  <2>3. pc'[l] = IF l = k THEN "finish" ELSE pc[l]
    BY <1>1 DEF TypeOK
  <2> QED
    BY <1>1, <1>2, <2>1, <2>2, <2>3, UseKept
<1>5. CASE size[k] > 1
  <2>1. StartFill(k, "next", size[k]) /\ ResizeNext(k) /\ "next" \in Buffers
    BY <1>5 DEF NextKeys, Buffers
  <2>2. /\ fill[k] \in Nat /\ fill'[k] = fill[k] + 1
        /\ \A j \in ToFill(k)' : j.buffer = "next" /\ j.fill = fill[k] + 1
        /\ \A i \in 1..size[k] : Covered(k, "next", i)'
        /\ \A m1 \in Lanes \ {k} : ToFill(m1)' = ToFill(m1) /\ fill'[m1] = fill[m1]
    BY <1>1, <1>2, <2>1, StartFillJobs
  <2>3. /\ buffer'[k]["arena"] = buffer[k]["arena"]
        /\ \A i \in 1..MaxKeys : buffer'[k]["next"][i] \in {0, buffer[k]["next"][i]}
        /\ \A i \in 1..MaxKeys : ~(i <= size[k]) => buffer'[k]["next"][i] = 0
        /\ nextSize'[k] = size[k]
        /\ \A m1 \in Lanes \ {k} : buffer'[m1] = buffer[m1] /\ nextSize'[m1] = nextSize[m1]
    BY <2>1, ResizedKeys
  <2>4. CASE l # k
    <3>1. pc'[l] = pc[l]
      BY <1>1, <2>4 DEF TypeOK
    <3> QED
      BY <1>1, <1>2, <2>2, <2>3, <2>4, <3>1, UseKept
  <2>5. CASE l = k
    <3>1. \A b, i : ~Covered(l, b, i)
      BY <1>1, <2>5, NothingToFill
    <3>2. /\ \A b \in Buffers, i \in 1..MaxKeys : buffer[l][b][i] \in Nat /\ buffer[l][b][i] <= fill[l]
          /\ \A s \in Slots(l), i \in 1..MaxKeys : s.keys[i] \in Nat /\ s.keys[i] <= fill[l]
      BY <1>2, KeysTyped
    <3>3. NextUnused(l)'
      <4> SUFFICES ASSUME NEW i \in 1..MaxKeys, Used(l, i, buffer'[l]["next"][i])
                   PROVE  Covered(l, "next", i)'
        BY <1>3 DEF NextUnused
      <4>1. buffer'[l]["next"][i] # 0
        BY DEF Used
      <4>2. i <= size[l] /\ i \in 1..size[l]
        BY <1>2, <2>3, <2>5, <4>1
      <4> QED
        BY <2>2, <2>5, <4>2
    <3>4. ArenaUnused(l)'
      BY <1>1, <1>2, <1>3, <2>3, <2>5, <3>1 DEF UseInvOf, ArenaUnused
    <3>5. BuffersApart(l)'
      BY <1>1, <2>2, <2>5 DEF BuffersApart
    <3>6. FillIsNew(l)'
      <4>1. \A i \in 1..MaxKeys : ~Used(l, i, fill[l] + 1)
        BY <2>2, <2>5, <3>2 DEF Used
      <4>2. \A i \in 1..MaxKeys : buffer[l]["arena"][i] # fill[l] + 1
        BY <2>2, <2>5, <3>2 DEF Buffers
      <4> QED
        BY <1>3, <2>2, <2>3, <2>5, <4>1, <4>2 DEF FillIsNew, Buffers
    <3>7. KeysOld(l)'
      <4>1. \A b \in Buffers, i \in 1..MaxKeys : buffer'[l][b][i] \in {0, buffer[l][b][i]}
        BY <2>3, <2>5 DEF Buffers
      <4>2. \A b \in Buffers, i \in 1..MaxKeys : buffer'[l][b][i] <= fill[l] + 1
        BY <2>2, <2>5, <3>2, <4>1
      <4> QED
        BY <1>1, <2>2, <2>5, <3>2, <4>2 DEF KeysOld
    <3>8. nextSize'[l] # 1
      BY <1>2, <1>5, <2>3, <2>5
    <3> QED
      BY <3>3, <3>4, <3>5, <3>6, <3>7, <3>8 DEF UseInvOf
  <2> QED
    BY <2>4, <2>5
<1> QED
  BY <1>4, <1>5

\* The snapshot of a wave brings keys that are in no other snapshot and that are
\* not left in next_keys_, save where they are being overwritten.
LEMMA SnapshotKeys ==
    ASSUME TypeOK, FramesInv, ArenaInv, NEW l \in Lanes, UseInvOf(l), Finish(l),
           NEW s \in Snapshot(l), NEW i \in 1..MaxKeys, s.keys[i] # 0
    PROVE  /\ s.keys[i] = buffer[l]["arena"][i] /\ i \in 1..size[l]
           /\ ~Used(l, i, s.keys[i])
           /\ s.keys[i] = buffer[l]["next"][i] => Covered(l, "next", i)
<1>1. s.keys = FirstKeys(buffer[l]["arena"], size[l]) /\ pc[l] = "finish"
  BY DEF Snapshot, Finish
<1>2. s.keys[i] = buffer[l]["arena"][i] /\ i <= size[l]
  BY <1>1 DEF FirstKeys
<1>3. i \in 1..size[l]
  BY <1>2 DEF TypeOK
<1>4. ~Covered(l, "arena", i)
  BY <1>1, ToFillOutstanding DEF Covered, ArenaInv, ArenaSafe
<1> QED
  BY <1>1, <1>2, <1>3, <1>4 DEF UseInvOf, ArenaUnused, BuffersApart

LEMMA FinishSlots ==
    ASSUME TypeOK, NEW k \in Lanes, Finish(k)
    PROVE  /\ Slots(k)' \subseteq Slots(k) \cup Snapshot(k)
           /\ \A l \in Lanes \ {k} : Slots(l)' = Slots(l)
<1>1. /\ prev' = [prev EXCEPT ![k] = {}] /\ pending' = [pending EXCEPT ![k] = Snapshot(k)]
      /\ last' = IF prev[k] = {} THEN last ELSE [last EXCEPT ![k] = prev[k]]
  BY DEF Finish, Report
<1>2. prev'[k] = {} /\ pending'[k] = Snapshot(k) /\ last'[k] \subseteq Slots(k)
  BY <1>1 DEF TypeOK, Slots
<1>3. \A l \in Lanes \ {k} : prev'[l] = prev[l] /\ pending'[l] = pending[l] /\ last'[l] = last[l]
  BY <1>1 DEF TypeOK
<1> QED
  BY <1>2, <1>3 DEF Slots

LEMMA FinishUse ==
    ASSUME TypeOK, FramesInv, ArenaInv, UseInv, NEW k \in Lanes, Finish(k) PROVE UseInv'
<1> SUFFICES ASSUME NEW l \in Lanes PROVE UseInvOf(l)'
  BY DEF UseInv
<1>1. /\ UNCHANGED <<pool, frames, buffer, size, nextSize>>
      /\ pc' = [pc EXCEPT ![k] = "idle"]
  BY DEF Finish, poolVars
<1>2. UseInvOf(l) /\ ToFill(l)' = ToFill(l) /\ fill' = fill
  BY <1>1 DEF UseInv, ToFill, pool, frames
<1>3. CASE l # k
  <2>1. pc'[l] = pc[l] /\ Slots(l)' = Slots(l)
    BY <1>1, <1>3, FinishSlots DEF TypeOK
  <2> QED
    BY <1>1, <1>2, <2>1, UseKept
<1>4. CASE l = k
  <2>1. pc'[l] = "idle" /\ pc[l] = "finish"
    BY <1>1, <1>4 DEF TypeOK, Finish
  <2>2. \A s \in Slots(l)' : s \in Slots(l) \/ s \in Snapshot(l)
    BY <1>4, FinishSlots
  <2>3. \A s \in Snapshot(l), i \in 1..MaxKeys : s.keys[i] # 0 =>
           /\ s.keys[i] = buffer[l]["arena"][i]
           /\ s.keys[i] = buffer[l]["next"][i] => Covered(l, "next", i)
    BY <1>2, <1>4, SnapshotKeys
  <2>4. \A b, i : Covered(l, b, i)' <=> Covered(l, b, i)
    BY <1>2 DEF Covered
  <2>5. NextUnused(l)'
    <3> SUFFICES ASSUME NEW i \in 1..MaxKeys, buffer[l]["next"][i] # 0,
                        NEW s \in Slots(l)', s.keys[i] = buffer[l]["next"][i]
                 PROVE  Covered(l, "next", i)
      BY <1>1, <2>4 DEF NextUnused, Used
    <3>1. CASE s \in Slots(l)
      BY <1>2, <3>1 DEF UseInvOf, NextUnused, Used
    <3>2. CASE s \in Snapshot(l)
      BY <2>3, <3>2
    <3> QED
      BY <2>2, <3>1, <3>2
  <2>6. ArenaUnused(l)' /\ BuffersApart(l)'
    BY <2>1 DEF ArenaUnused, BuffersApart
  <2>7. FillIsNew(l)'
    <3> SUFFICES ASSUME NEW j \in ToFill(l), NEW i \in 1..MaxKeys, j.fill # 0,
                        NEW s \in Slots(l)', s.keys[i] = j.fill
                 PROVE  FALSE
      BY <1>1, <1>2 DEF UseInvOf, FillIsNew, Used
    <3>1. CASE s \in Slots(l)
      BY <1>2, <3>1 DEF UseInvOf, FillIsNew, Used
    <3>2. CASE s \in Snapshot(l)
      <4>1. j.fill = buffer[l]["arena"][i]
        BY <2>3, <3>2
      <4>2. j.buffer # "arena"
        BY <2>1, ToFillOutstanding DEF ArenaInv, ArenaSafe
      <4> QED
        BY <1>2, <4>1, <4>2 DEF UseInvOf, FillIsNew, Buffers
    <3> QED
      BY <2>2, <3>1, <3>2
  <2>8. KeysOld(l)'
    <3>1. fill[l] \in Nat
      BY DEF TypeOK, PoolTypeOK
    <3>2. ASSUME NEW s \in Slots(l)', NEW i \in 1..MaxKeys PROVE s.keys[i] <= fill[l]
      <4>1. CASE s \in Slots(l)
        BY <1>2, <4>1 DEF UseInvOf, KeysOld
      <4>2. CASE s \in Snapshot(l) /\ s.keys[i] # 0
        BY <1>2, <2>3, <4>2 DEF UseInvOf, KeysOld, Buffers
      <4>3. CASE s.keys[i] = 0
        BY <3>1, <4>3
      <4> QED
        BY <2>2, <4>1, <4>2, <4>3
    <3> QED
      BY <1>1, <1>2, <3>2 DEF UseInvOf, KeysOld
  <2> QED
    BY <1>1, <1>2, <2>5, <2>6, <2>7, <2>8 DEF UseInvOf
<1> QED
  BY <1>3, <1>4

\* The lane's other steps pass snapshots on or drop them; when they touch keys no
\* fill is running.
LEMMA LaneUse ==
    ASSUME TypeOK, FramesInv, ArenaInv, UseInv, NEW k \in Lanes,
           RunBatch(k) \/ DrainPipeline(k) \/ Destroy(k) \/ Launch(k) \/ GpuCopies(k)
           \/ Throw(k) \/ Destroyed(k)
    PROVE  /\ UseInv'
           /\ \A l \in Lanes : Slots(l)' \subseteq Slots(l)
<1>1. UNCHANGED <<pool, frames>>
  BY DEF RunBatch, DrainPipeline, Destroy, Launch, GpuCopies, Throw, Destroyed, poolVars
<1>2. \A l \in Lanes : ToFill(l)' = ToFill(l) /\ fill'[l] = fill[l] /\ UseInvOf(l)
  BY <1>1 DEF UseInv, ToFill, pool, frames
<1>3. ASSUME NEW l \in Lanes PROVE Slots(l)' \subseteq Slots(l)
  <2>1. CASE DrainPipeline(k)
    <3>1. /\ prev' = prev /\ pending' = [pending EXCEPT ![k] = {}]
          /\ last' = IF pending[k] = {} THEN last ELSE [last EXCEPT ![k] = pending[k]]
      BY <2>1 DEF DrainPipeline, Report
    <3>2. pending'[l] \subseteq pending[l] /\ last'[l] \subseteq Slots(l)
      BY <3>1 DEF TypeOK, Slots
    <3> QED
      BY <3>1, <3>2 DEF Slots
  <2>2. CASE ~DrainPipeline(k)
    <3>1. last' = last
      BY <2>2 DEF RunBatch, Destroy, Launch, GpuCopies, Throw, Destroyed, slots
    <3>2. prev'[l] \cup pending'[l] \subseteq prev[l] \cup pending[l]
      BY <2>2 DEF RunBatch, Destroy, Launch, GpuCopies, Throw, Destroyed, slots, TypeOK
    <3> QED
      BY <3>1, <3>2 DEF Slots
  <2> QED
    BY <2>1, <2>2
<1>4. ASSUME NEW l \in Lanes PROVE UseInvOf(l)'
  <2>1. CASE l # k
    <3>1. pc'[l] = pc[l] /\ size'[l] = size[l] /\ nextSize'[l] = nextSize[l]
      BY <2>1 DEF RunBatch, DrainPipeline, Destroy, Launch, GpuCopies, Throw, Destroyed, ResizeNext,
                  lane, TypeOK
    <3>2. buffer'[l] = buffer[l]
      BY <2>1 DEF RunBatch, DrainPipeline, Destroy, Launch, GpuCopies, Throw, Destroyed, ResizeNext,
                  poolVars, TypeOK, PoolTypeOK
    <3> QED
      BY <1>2, <1>3, <3>1, <3>2, UseKept
  <2>2. CASE l = k /\ (RunBatch(k) \/ DrainPipeline(k) \/ Destroy(k) \/ Launch(k) \/ GpuCopies(k))
    <3>1. buffer' = buffer /\ nextSize' = nextSize
      BY <2>2 DEF RunBatch, DrainPipeline, Destroy, Launch, GpuCopies, poolVars, lane
    <3>2. /\ pc'[l] \in {"launch", "next", "finish"} =>
                 pc[l] \in {"launch", "next", "finish"} /\ size'[l] = size[l]
          /\ pc'[l] = "finish" => pc[l] = "finish" \/ size[l] = 1
      BY <2>2 DEF RunBatch, DrainPipeline, Destroy, Launch, GpuCopies, lane, TypeOK
    <3> QED
      BY <1>2, <1>3, <3>1, <3>2, UseKept
  <2>3. CASE l = k /\ Throw(k) /\ UNCHANGED <<nextSize, buffer>>
    <3>1. pc'[l] = "idle"
      BY <2>3 DEF Throw, TypeOK
    <3> QED
      BY <1>2, <1>3, <2>3, <3>1, UseKept
  <2>4. CASE l = k /\ ((Throw(k) /\ pc[k] = "next" /\ size[k] > 1 /\ ResizeNext(k)) \/ Destroyed(k))
    <3>1. fpc[l] = "out" /\ pc'[l] = "idle"
      BY <2>4 DEF Throw, Destroyed, ArenaInv, ArenaSafe, TypeOK
    <3>2. ToFill(l) = {} /\ \A b, i : ~Covered(l, b, i)
      BY <3>1, NothingToFill
    <3>3. \A b \in Buffers, i \in 1..MaxKeys : buffer'[l][b][i] \in {0, buffer[l][b][i]}
      <4>1. CASE ResizeNext(k)
        BY <2>4, <4>1, ResizedKeys DEF Buffers
      <4>2. CASE Destroyed(k)
        BY <2>4, <4>2 DEF Destroyed, NoKeys, TypeOK, PoolTypeOK
      <4> QED
        BY <2>4, <4>1, <4>2
    <3>4. nextSize'[l] # 1
      <4>1. CASE Throw(k) /\ ResizeNext(k) /\ size[k] > 1
        BY <2>4, <4>1, ResizedKeys DEF TypeOK
      <4>2. CASE Destroyed(k)
        BY <2>4, <4>2 DEF Destroyed, TypeOK
      <4> QED
        BY <2>4, <4>1, <4>2
    <3>5. \A i, v : Used(l, i, v)' => Used(l, i, v)
      BY <1>3 DEF Used
    <3>6. NextUnused(l)'
      <4> SUFFICES ASSUME NEW i \in 1..MaxKeys, Used(l, i, buffer'[l]["next"][i]) PROVE FALSE
        BY <3>5 DEF NextUnused
      <4>1. buffer'[l]["next"][i] = buffer[l]["next"][i]
        BY <3>3 DEF Used, Buffers
      <4> QED
        BY <1>2, <3>2, <4>1 DEF UseInvOf, NextUnused
    <3>7. ArenaUnused(l)' /\ BuffersApart(l)'
      BY <3>1 DEF ArenaUnused, BuffersApart
    <3>8. FillIsNew(l)'
      BY <1>2, <3>2 DEF FillIsNew
    <3>9. KeysOld(l)'
      <4>1. fill[l] \in Nat
        BY DEF TypeOK, PoolTypeOK
      <4>2. \A b \in Buffers, i \in 1..MaxKeys : buffer'[l][b][i] <= fill[l]
        BY <1>2, <3>3, <4>1 DEF UseInvOf, KeysOld
      <4> QED
        BY <1>2, <1>3, <4>2 DEF UseInvOf, KeysOld
    <3> QED
      BY <3>4, <3>6, <3>7, <3>8, <3>9 DEF UseInvOf
  <2> QED
    BY <2>1, <2>2, <2>3, <2>4 DEF Throw
<1> QED
  BY <1>3, <1>4 DEF UseInv

LEMMA CallerUse ==
    ASSUME UseInv, NEW k \in Lanes, KeyFill(k) PROVE UseInv'
<1> SUFFICES ASSUME NEW l \in Lanes PROVE UseInvOf(l)'
  BY DEF UseInv
<1>1. UNCHANGED <<q, taken, buffer, fill, pc, size, nextSize>> /\ Slots(l)' = Slots(l)
  BY DEF KeyFill, Caller, TestRemaining, FallAsleep, pool, lane, slots, Slots
<1>2. UseInvOf(l) /\ ToFill(l)' = ToFill(l)
  BY <1>1 DEF UseInv, ToFill
<1> QED
  BY <1>1, <1>2, UseKept

LEMMA UseNext == TypeOK /\ FramesInv /\ ArenaInv /\ UseInv /\ [Next]_vars => UseInv'
<1> SUFFICES ASSUME TypeOK, FramesInv, ArenaInv, UseInv, [Next]_vars PROVE UseInv'
  OBVIOUS
<1>1. CASE SetDifficulty \/ PublishWork \/ UNCHANGED vars
  <2> SUFFICES ASSUME NEW l \in Lanes PROVE UseInvOf(l)'
    BY DEF UseInv
  <2>1. UNCHANGED <<q, taken, buffer, fill, pc, size, nextSize>> /\ Slots(l)' = Slots(l)
    BY <1>1 DEF SetDifficulty, PublishWork, vars, poolVars, pool, frames, lane, slots, Slots
  <2>2. UseInvOf(l) /\ ToFill(l)' = ToFill(l)
    BY <2>1 DEF UseInv, ToFill
  <2> QED
    BY <2>1, <2>2, UseKept
<1>2. CASE KeyWork
  BY <1>2, PoolUse DEF KeyWork
<1> QED
  BY <1>1, <1>2, CallerUse, TakeKeysUse, NextKeysUse, FinishUse, LaneUse DEF Next, Continue

\* Only Finish brings keys into the snapshots, and only unused ones.
LEMMA NoKeyTwiceNext ==
    TypeOK /\ FramesInv /\ ArenaInv /\ UseInv /\ NoKeyTwice /\ [Next]_vars => NoKeyTwice'
<1> SUFFICES ASSUME TypeOK, FramesInv, ArenaInv, UseInv, NoKeyTwice, [Next]_vars,
                    NEW l \in Lanes, NEW a \in Slots(l)', NEW b \in Slots(l)', a # b,
                    NEW i \in 1..MaxKeys, a.keys[i] = b.keys[i]
             PROVE  a.keys[i] = 0
  BY DEF NoKeyTwice, Slots
<1>1. a \in Slots(l) /\ b \in Slots(l) => a.keys[i] = 0
  BY DEF NoKeyTwice, Slots
<1>2. ASSUME NEW k \in Lanes, Finish(k) PROVE a.keys[i] = 0
  <2>1. CASE l # k
    BY <1>1, <1>2, <2>1, FinishSlots
  <2>2. CASE l = k
    <3>1. \A s \in Snapshot(l) : s.keys[i] # 0 => ~Used(l, i, s.keys[i])
      BY <1>2, <2>2, SnapshotKeys DEF UseInv
    <3>2. \A s \in Slots(l)' : s \in Slots(l) \/ s \in Snapshot(l)
      BY <1>2, <2>2, FinishSlots
    <3>3. \A s, t \in Snapshot(l) : s = t
      BY DEF Snapshot
    <3> QED
      BY <1>1, <3>1, <3>2, <3>3 DEF Used
  <2> QED
    BY <2>1, <2>2
<1>3. ASSUME NEW k \in Lanes,
             RunBatch(k) \/ DrainPipeline(k) \/ Destroy(k) \/ Launch(k) \/ GpuCopies(k)
             \/ Throw(k) \/ Destroyed(k)
      PROVE  a.keys[i] = 0
  BY <1>1, <1>3, LaneUse
<1>4. ASSUME UNCHANGED slots PROVE a.keys[i] = 0
  BY <1>1, <1>4 DEF slots, Slots
<1>5. ASSUME NEW k \in Lanes, TakeKeys(k) \/ NextKeys(k) \/ KeyFill(k) PROVE UNCHANGED slots
  BY <1>5 DEF TakeKeys, NextKeys, KeyFill, slots
<1>6. ASSUME KeyWork \/ SetDifficulty \/ PublishWork \/ UNCHANGED vars PROVE UNCHANGED slots
  BY <1>6 DEF KeyWork, SetDifficulty, PublishWork, vars, slots
<1> QED
  BY <1>2, <1>3, <1>4, <1>5, <1>6 DEF Next, Continue

LEMMA InitUse == Init => UseInv /\ NoKeyTwice
<1> SUFFICES ASSUME Init, NEW l \in Lanes PROVE UseInvOf(l) /\ Slots(l) = {}
  BY DEF UseInv, NoKeyTwice, Slots
<1>1. /\ q = {} /\ taken = {} /\ fill[l] = 0 /\ pc[l] = "idle" /\ nextSize[l] = 0
      /\ \A b \in Buffers, i \in 1..MaxKeys : buffer[l][b][i] = 0
  BY DEF Init, PoolInit, NoKeys
<1>2. Slots(l) = {} /\ ToFill(l) = {}
  BY <1>1 DEF Init, Slots, ToFill
<1>3. \A i, k : ~Used(l, i, k)
  BY <1>2 DEF Used
<1> QED
  BY <1>1, <1>2, <1>3 DEF UseInvOf, NextUnused, ArenaUnused, BuffersApart, FillIsNew, KeysOld

\* For any sizes of batches and any number of failed waves, runBatch brings no key
\* into two snapshots: what a short or failed batch leaves in the arena and in
\* next_keys_ is overwritten before it could be hashed again for the pool.
THEOREM KeysUsedOnce == Spec => []NoKeyTwice
<1> DEFINE Inv == IInv /\ UseInv /\ NoKeyTwice
<1>1. Init => Inv
  BY InitInv, InitUse
<1>2. Inv /\ [Next]_vars => Inv'
  BY NextInv, UseNext, NoKeyTwiceNext DEF IInv, FramesInv
<1>3. Inv => NoKeyTwice
  OBVIOUS
<1> HIDE DEF Inv
<1> QED
  BY <1>1, <1>2, <1>3, PTL DEF Spec
=============================================================================
