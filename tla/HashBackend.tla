----------------------------- MODULE HashBackend -----------------------------
(***************************************************************************)
(* CudaHashBackend::runBatch, the full wave that mine_batch asks for       *)
(* (wave_role 0, gpu_first_blocks), on top of KeygenPool.  Digests come    *)
(* back from the GPU without their keys, so a match is worth something only*)
(* if host and device agree on which keys were hashed - while the pool     *)
(* generates the keys of the next wave and the previous wave is finalised. *)
(*                                                                         *)
(* A batch of keys is MaxKeys long at most; its size is what the request   *)
(* says.  The caller is a worker of CudaEngine or mine_batch itself, so    *)
(* the difficulty may change at any time.  The GPU copies the pinned arena *)
(* some time after the launch.  Any step of runBatch may throw.            *)
(* Finalising a snapshot depends on nothing but the snapshot, and is part  *)
(* of the step that returns it.  The ring between runBatch and mine_batch  *)
(* is the subject of CudaEngine.                                           *)
(***************************************************************************)
EXTENDS KeygenPool

CONSTANTS
    Sizes,      \* batch sizes that requests ask for
    Ms,         \* difficulties
    MaxFills    \* bound on the number of fills of a lane

ASSUME HashBackendAssumption ==
    /\ Sizes \subseteq 1..MaxKeys
    /\ Ms \subseteq Nat \ {0} /\ Ms # {}
    /\ MaxFills \in Nat

VARIABLES
    difficulty, \* CudaEngine::difficulty_
    work,       \* the difficulty that mine_batch has published to the lanes
    pc,         \* place of the lane's thread in runBatch
    size, m,    \* attempts and difficulty of the request
    nextSize,   \* next_keys_.size()
    gpu, digests, \* the wave on the device, and the keys its digests stem from
    prev,       \* the snapshot that is being finalised
    pending,    \* pending_
    last        \* the last snapshot whose matches came out

lane == <<pc, size, m, nextSize>>
device == <<gpu, digests>>
slots == <<prev, pending, last>>
vars == <<poolVars, difficulty, work, lane, device, slots>>

LanePlaces == {"idle", "keys", "launch", "next", "finish", "destroy"}
NoKeys == [i \in 1..MaxKeys |-> 0]

\* At most one snapshot: {} is a slot that is not ready.
Slot == [keys : Keys, digests : Keys, m : Ms]

\* The first n keys of a buffer, the rest zero.
FirstKeys(keys, n) == [i \in 1..MaxKeys |-> IF i <= n THEN keys[i] ELSE 0]

-----------------------------------------------------------------------------
(* Requests.                                                               *)

\* set_difficulty with the same number of lanes: no lane is rebuilt.
SetDifficulty ==
    /\ difficulty' \in Ms \ {difficulty}
    /\ UNCHANGED <<poolVars, work, lane, device, slots>>

\* mine_batch puts the difficulty into the requests.
PublishWork ==
    /\ work # difficulty
    /\ work' = difficulty
    /\ UNCHANGED <<poolVars, difficulty, lane, device, slots>>

\* The fills of a wave: the arena unless next_keys_ fits, and the next keys.
Fills(l, n) == Cardinality({b \in Buffers : IF b = "arena" THEN n # nextSize[l] ELSE n > 1})

\* The call; the snapshot of the wave before goes to an asynchronous finalise.
RunBatch(l) ==
    /\ pc[l] = "idle"
    /\ pc' = [pc EXCEPT ![l] = "keys"]
    /\ \E n \in Sizes : /\ fill[l] + Fills(l, n) <= MaxFills
                       /\ size' = [size EXCEPT ![l] = n]
    /\ m' = [m EXCEPT ![l] = work]
    /\ prev' = [prev EXCEPT ![l] = pending[l]]
    /\ pending' = [pending EXCEPT ![l] = {}]
    /\ UNCHANGED <<poolVars, difficulty, work, nextSize, device, last>>

-----------------------------------------------------------------------------
(* Keys, launch, keys of the next wave.                                    *)

\* Mutant: next_keys_ is used without waiting for next_keygen_.
TakeKeysAtOnce(l) ==
    /\ pc[l] = "keys"
    /\ pc' = [pc EXCEPT ![l] = "launch"]
    /\ IF nextSize[l] = size[l]
          THEN /\ buffer' = [buffer EXCEPT ![l]["arena"] = FirstKeys(buffer[l]["next"], size[l])]
               /\ UNCHANGED <<q, frames>>
          ELSE /\ fpc[l] = "out"
               /\ StartFill(l, "arena", size[l])
               /\ UNCHANGED buffer
    /\ UNCHANGED <<taken, crashed, difficulty, work, size, m, nextSize, device, slots>>

\* Wait for next_keygen_; take its keys if there are as many as needed, else have
\* the pool fill the arena.
TakeKeys(l) ==
    /\ pc[l] = "keys" /\ fpc[l] = "out"
    /\ pc' = [pc EXCEPT ![l] = "launch"]
    /\ IF nextSize[l] = size[l]
          THEN /\ buffer' = [buffer EXCEPT ![l]["arena"] = FirstKeys(buffer[l]["next"], size[l])]
               /\ UNCHANGED <<q, frames>>
          ELSE /\ StartFill(l, "arena", size[l])
               /\ UNCHANGED buffer
    /\ UNCHANGED <<taken, crashed, difficulty, work, size, m, nextSize, device, slots>>

\* The fill has returned; prepare and run are in the stream.
Launch(l) ==
    /\ pc[l] = "launch" /\ fpc[l] = "out"
    /\ pc' = [pc EXCEPT ![l] = "next"]
    /\ gpu' = [gpu EXCEPT ![l] = "copying"]
    /\ UNCHANGED <<poolVars, difficulty, work, size, m, nextSize, digests, slots>>

\* The copy of the arena, whenever the stream gets to it, and the hashing.
GpuCopies(l) ==
    /\ gpu[l] = "copying"
    /\ gpu' = [gpu EXCEPT ![l] = "hashed"]
    /\ digests' = [digests EXCEPT ![l] = FirstKeys(buffer[l]["arena"], size[l])]
    /\ UNCHANGED <<poolVars, difficulty, work, lane, slots>>

\* next_keys_.resize.
ResizeNext(l) ==
    /\ nextSize' = [nextSize EXCEPT ![l] = size[l]]
    /\ buffer' = [buffer EXCEPT ![l]["next"] =
                     FirstKeys(@, Smaller(nextSize[l], size[l]))]

\* Mutant: the next keys go into the arena that the GPU reads.
NextKeysInArena(l) ==
    /\ pc[l] = "next"
    /\ pc' = [pc EXCEPT ![l] = "finish"]
    /\ IF size[l] > 1
          THEN ResizeNext(l) /\ StartFill(l, "arena", size[l])
          ELSE UNCHANGED <<q, frames, buffer, nextSize>>
    /\ UNCHANGED <<taken, crashed, difficulty, work, size, m, device, slots>>

\* While the wave runs, a thread of its own fills next_keys_.
NextKeys(l) ==
    /\ pc[l] = "next"
    /\ pc' = [pc EXCEPT ![l] = "finish"]
    /\ IF size[l] > 1
          THEN ResizeNext(l) /\ StartFill(l, "next", size[l])
          ELSE UNCHANGED <<q, frames, buffer, nextSize>>
    /\ UNCHANGED <<taken, crashed, difficulty, work, size, m, device, slots>>

-----------------------------------------------------------------------------
(* The end of a wave.                                                      *)

\* snapshotOutputs; a slot whose first key is no key is not ready.
Snapshot(l) ==
    LET keys == FirstKeys(buffer[l]["arena"], size[l])
    IN  IF keys[1] = 0 THEN {} ELSE {[keys |-> keys, digests |-> digests[l], m |-> m[l]]}

\* Matches come out.
Report(l, slot) == last' = IF slot = {} THEN last ELSE [last EXCEPT ![l] = slot]

Finish(l) ==
    /\ pc[l] = "finish" /\ gpu[l] = "hashed"
    /\ pc' = [pc EXCEPT ![l] = "idle"]
    /\ gpu' = [gpu EXCEPT ![l] = "off"]
    /\ pending' = [pending EXCEPT ![l] = Snapshot(l)]
    /\ prev' = [prev EXCEPT ![l] = {}]
    /\ Report(l, prev[l])
    /\ digests' = [digests EXCEPT ![l] = NoKeys]
    /\ UNCHANGED <<poolVars, difficulty, work, size, m, nextSize>>

\* drainPipeline.
DrainPipeline(l) ==
    /\ pc[l] = "idle" /\ pending[l] # {}
    /\ pending' = [pending EXCEPT ![l] = {}]
    /\ Report(l, pending[l])
    /\ UNCHANGED <<poolVars, difficulty, work, lane, device, prev>>

\* An exception: both snapshots are dropped.  When std::async cannot start a
\* thread, next_keys_ has its new size but not its new keys.
Throw(l) ==
    /\ pc[l] \in {"keys", "launch", "next", "finish"} /\ (pc[l] = "launch" => fpc[l] = "out")
    /\ pc' = [pc EXCEPT ![l] = "idle"]
    /\ gpu' = [gpu EXCEPT ![l] = "off"]
    /\ \/ UNCHANGED <<nextSize, buffer>>
       \/ pc[l] = "next" /\ size[l] > 1 /\ ResizeNext(l)
    /\ pending' = [pending EXCEPT ![l] = {}]
    /\ prev' = [prev EXCEPT ![l] = {}]
    /\ digests' = [digests EXCEPT ![l] = NoKeys]
    /\ UNCHANGED <<pool, frames, crashed, difficulty, work, size, m, last>>

\* The destructor waits for next_keygen_; a new lane takes the place.
Destroy(l) ==
    /\ pc[l] = "idle"
    /\ pc' = [pc EXCEPT ![l] = "destroy"]
    /\ UNCHANGED <<poolVars, difficulty, work, size, m, nextSize, device, slots>>

Destroyed(l) ==
    /\ pc[l] = "destroy" /\ fpc[l] = "out"
    /\ pc' = [pc EXCEPT ![l] = "idle"]
    /\ nextSize' = [nextSize EXCEPT ![l] = 0]
    /\ buffer' = [buffer EXCEPT ![l] = [b \in Buffers |-> NoKeys]]
    /\ pending' = [pending EXCEPT ![l] = {}]
    /\ UNCHANGED <<pool, frames, crashed, difficulty, work, size, m, device, prev, last>>

-----------------------------------------------------------------------------

Init ==
    /\ PoolInit
    /\ difficulty \in Ms /\ work = difficulty
    /\ pc = [l \in Lanes |-> "idle"]
    /\ size = [l \in Lanes |-> 1] /\ m = [l \in Lanes |-> work]
    /\ nextSize = [l \in Lanes |-> 0]
    /\ gpu = [l \in Lanes |-> "off"] /\ digests = [l \in Lanes |-> NoKeys]
    /\ prev = [l \in Lanes |-> {}] /\ pending = [l \in Lanes |-> {}]
    /\ last = [l \in Lanes |-> {}]

\* What runBatch and the destructor do once they were called.
Continue(l) ==
    \/ TakeKeys(l) \/ Launch(l) \/ GpuCopies(l) \/ NextKeys(l) \/ Finish(l) \/ Throw(l)
    \/ Destroyed(l)

KeyFill(l) == Caller(l) /\ UNCHANGED <<difficulty, work, lane, device, slots>>

KeyWork == PoolWorker /\ UNCHANGED <<difficulty, work, lane, device, slots>>

Next ==
    /\ ~crashed
    /\ \/ SetDifficulty \/ PublishWork
       \/ \E l \in Lanes : RunBatch(l) \/ DrainPipeline(l) \/ Destroy(l)
                           \/ Continue(l) \/ KeyFill(l)
       \/ KeyWork

\* The operating system schedules every thread, and the GPU finishes its waves.
\* A fill has finitely many jobs: while some worker moves, each does in the end.
Spec == /\ Init /\ [][Next]_vars
        /\ \A l \in Lanes : WF_vars(~crashed /\ Continue(l)) /\ WF_vars(~crashed /\ KeyFill(l))
        /\ WF_vars(~crashed /\ KeyWork)

-----------------------------------------------------------------------------
(* Properties.                                                             *)

TypeOK ==
    /\ PoolTypeOK
    /\ difficulty \in Ms /\ work \in Ms
    /\ pc \in [Lanes -> LanePlaces] /\ size \in [Lanes -> 1..MaxKeys] /\ m \in [Lanes -> Ms]
    /\ nextSize \in [Lanes -> 0..MaxKeys]
    /\ gpu \in [Lanes -> {"off", "copying", "hashed"}] /\ digests \in [Lanes -> Keys]
    /\ prev \in [Lanes -> SUBSET Slot] /\ pending \in [Lanes -> SUBSET Slot]
    /\ last \in [Lanes -> SUBSET Slot]

\* "Keys that go to /verify are the keys this oneshot hashed": whatever the pool
\* writes and whenever the GPU copies, the keys of a snapshot are those that its
\* digests were computed from.
Paired ==
    \A l \in Lanes : \A slot \in prev[l] \cup pending[l] \cup last[l] : slot.keys = slot.digests

\* No key is hashed twice for the pool: batches of different size, failed waves
\* and next_keys_ that were not refilled never bring a key into two snapshots.
NoKeyTwice ==
    \A l \in Lanes : \A a, b \in prev[l] \cup pending[l] \cup last[l] :
        a # b => \A i \in 1..MaxKeys : a.keys[i] = b.keys[i] => a.keys[i] = 0

\* runBatch and the destructor come back: no fill waits for ever on a counter or
\* a notification that nobody gives.
RunBatchReturns == \A l \in Lanes : pc[l] # "idle" ~> pc[l] = "idle" \/ crashed
=============================================================================
