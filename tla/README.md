# x1miner: specifications, checks and proofs

x1miner is a GPU miner for XenBlocks.  GPU lanes hash Argon2 waves; matches
("hits": XNM, XBLK, XUNI blocks) are submitted to a pool over HTTP, or kept in
an on-disk *bag* until the pool and the network difficulty take them.  The
mining itself is arithmetic.  What is hard about the program is custody: a hit
passes through a double buffer on the GPU, rings between threads, an in-memory
queue, a worker's local batch, an HTTP call that may time out after the pool
took the block, and two files - while a signal handler, a second submitting
thread and an auto-updater pull at the same state.  A lost hit is lost money, a
hit submitted for ever blocks the queue.  These modules are about that.

## 1. Inventory

### Components, state, operations

| Component | Code | State | Operations |
|---|---|---|---|
| BlockStore | `src/src/queue/store.cpp` | `pending_`, `hash_index_`, `next_id_`, `dirty_ops_`; files `miner_db`, `queue.jsonl` | load and log recovery, enqueue, list_flush_batch / list_forward_batch, mark_submitted_many, mark_pending_reason, mark_forwarded_many, defer_all_to_next_start, flush, destructor |
| Supervisor, mining thread | `app/supervisor.cpp` run, handle_hit, graceful_shutdown, finalize_session | `running_`, `shutting_down_`, `live_submit_q_`, match-drain flags | mine, route a hit to HTTP or disk, shut down |
| Supervisor, submit worker | `submit_worker_loop`, `process_live_submit`, `try_flush_pending` | local batch, flush wave, back-off and rotation marks | live submits, flush waves, last flush at close |
| Signal handler, updater | `main.cpp`, `persist_queue_for_restart`, `maybe_check_update` | `persist_mu_`, local batch | persist the queue, request a stop |
| Flush policy | `queue/policy.cpp`, `list_flush_batch`, `network/submitter.cpp` | `flush_skip_before_id_`, `submit_backoff_until_` | order, eligibility, classification of answers |
| CUDA engine | `mining/cuda_engine.cpp`, `vendor/hashapi/CudaHashBackend.cpp` | lanes, mailboxes, rings of results, pending snapshot per lane, `worker_mu_` and two condition variables | start, set_difficulty (replan), mine_batch, drain_pipeline, stop, reduce_lane_cap, lane workers |
| Hash backend, key generation | `CudaHashBackend.cpp`, `KeygenPool.cpp` | slots, `next_keys_`, `next_keygen_`, job slots of the pool | prepare the keys of the next wave while the GPU hashes this one |
| Network status, match drain | `network/difficulty.cpp`, `network/lastblock.cpp`, `supervisor.cpp` 199-391, 469-609, 1463-1483 | cached difficulty and paper, numbers of the snapshots seen, drain mode, parked flag | poll, absorb, start and end a match flush, park and resume the card |
| Bag forwarder | `network/bag_forward.cpp` | thread, `forwarded` marks | send waves of the local bag to a master machine |
| Instance lock, process life | `app/instance_lock.cpp`, `main.cpp`, `supervisor.cpp` 131-142, 1186-1246, 1550 | lock file and flock, stop flags | one miner per directory; start, refuse, stop, finalize |
| VRAM plan, thermal hunt | `efficiency/vram_policy.cpp`, `mining/vram_batch.cpp`, `efficiency/thermal_policy.cpp`, `cuda_engine.cpp` 326-507, `supervisor.cpp` 1144-1184, 1415-1524 | plan, batch per lane, hunt (floor, last good batch, last reading), cooldown | size the waves, stop and restart the engine |
| Power limit | `efficiency/gpu_power.cpp` | original, target and present limit of the card | apply, tick, restore |
| Display, statistics, settings, HTTP, sensors, third-party reports | `monitoring/`, `config/`, `util/` | counters, options | no influence on custody |

### How they interact

    lanes' workers --ring--> mining thread --live_submit_q_--> submit worker --HTTP--> pool
      (CudaEngine)          |  (SubmitPipeline)               |    ^
                            v enqueue                         v    | flush waves (FlushWave)
                        BlockStore  <-------------------- enqueue, mark_submitted_many
                            ^   \
       signal handler ------+    +--> bag forwarder --HTTP--> master
       (persist_queue_for_restart)

The threads share the store (mutex `mu_`), the live queue (`submit_mu_`), the
flags (atomics), the engine's mailboxes and rings (atomics plus `worker_mu_`).
Callers of the store act on copies that they took earlier; only `id` and digest
tie a copy to the store.

### What is hard, and what makes each part correct

* BlockStore: the process dies between truncating and rewriting the snapshot, or
  inside an append; ids are handed out by three paths (enqueue, load, recovery);
  waves hold ids across other threads' updates.  Correct: no accepted block is
  lost over a restart, an id never comes to name another block, the index is
  exact.
* Submit pipeline: flags are read before and acted on after a wait; the live
  queue is swapped by four parties; shutdown is requested from two sides.
  Correct: each hit is in exactly one place, none goes out of scope with a local
  container, shutdown ends, and at its end everything is on disk or accepted.
* Flush: HTTP answers arrive in any mixture while the bag changes.  Correct:
  only accepted blocks leave, accepted blocks are not sent again, waves are full,
  the bag drains when the pool is back.
* Hash backend: digests come back without their keys while the pool writes the
  keys of the next wave and the last one is finalised.  Correct: host and device
  agree on the keys of every wave, no key is used twice, fills return.
* CUDA engine: lost notifications, a failing lane, lanes destroyed under running
  workers.  Correct: a match comes out once, is lost only after a failure or a
  teardown, and the blocking calls return.
* Network status: two threads absorb the snapshots of two pollers, partly without
  a lock, and out of order.  Correct: what the miner believes is in the end what
  the network says, a card that is parked with one lane holds no match back, and a
  parked card mines again.
* Bag forwarder: the bag changes, and the process may die, between listing a wave,
  the master's answer and the marks.  Correct: a mark means that the master has
  the block, and every block that stays gets there.
* VRAM plan and thermal hunt: replans, a noisy sensor, emergencies and failing
  restarts interleave.  Correct: the pack stays within the caps, the batch within
  its plan and above its floor, and the card comes back.
* Process life: several processes, killed or stopped anywhere, share a lock file
  and the card.  Correct: one holder of the lock, the power limit given back, a
  stop request heeded.

PROJECT.json lists every hazard with its line and the properties aimed at it.

## 2. Modules

| Module | Models | Abstract from |
|---|---|---|
| `Bag` | what the store promises: a set of blocks, which the submitter lists and takes out, over stops and starts | - |
| `BlockStore` | `store.cpp`, each operation one action under `mu_`, the snapshot rewrite two; crash at every file operation | JSON, block payload (digest, reason, forwarded remain) |
| `SubmitPipeline` | mining thread, submit worker, handler, updater, shutdown; GPU buffers are the set `gpu` | order in queues, reasons of gates (set `open`), HTTP bodies |
| `FlushWave` | `list_flush_batch`, `try_flush_pending`, rotation, back-off, last flush | the clock (`xuniOpen`, `backoff` flags), block payload |
| `HitSource` | what the engine promises: hits are held, then returned once | - |
| `CudaEngine` | workers, mailboxes, rings, condition variables, replan, stop, drain, the pending snapshot of runBatch | hashing, work parameters, batch sizes, XUNI throttle |
| `KeygenPool` | `KeygenPool::fill`, its jobs, the workers, counter and notification, dead stack frames | the order of the queue, worker identities, the random generator; a key is the fill that made it |
| `HashBackend` | `runBatch` as `mine_batch` calls it, `drainPipeline`, the destructor, on top of `KeygenPool` | salt, timings, wave roles 1-3 (not requested by `mine_batch`), matching of patterns |
| `NetworkWatch` | `NetworkPoller`, `refresh_network` in both threads (copy, compare, apply), failure budgets, the engine following the difficulty over cooldowns | the clock (an answer may be too old whenever that is asked), back-off, the blocking refresh of the last flush |
| `PaperWatch` | `LastblockPoller`, `refresh_paper` in both threads: copy, compare, mark, apply | JSON (rows of id and memory cost), the clock (`young`), latency and majority |
| `MatchDrain` | `update_match_drain`, `should_park_cuda`, the oracles they ask, parking and mining in `run()`, and where the lanes of a parked card leave matches | how beliefs change (`NetworkWatch`, `PaperWatch`: here at any time), waves (`FlushWave`), the single lane and ring slot (`CudaEngine`), the clock (`expired`) |
| `BagForwarder` | `BagForwarder`'s thread on top of `BlockStore`, master included | which unforwarded entries a wave takes, waiting times, the body |
| `VramPlan` | `resolve_vram_caps`, `plan_cuda_batch`, as functions | units (`BytesPerMib`, bytes per attempt are parameters), doubles |
| `BatchSizing` | plan, hunt, emergency, cooldown, restart of the mining thread, on top of `VramPlan` | time (whether the settle time is over is a choice), the driver (`cudaOk`), other programs' memory |
| `GpuPower` | percentages and limits, as functions | doubles |
| `Lifecycle` | processes, lock file as path and inodes, stop flags, power limit, on top of `GpuPower` | blocks (`SubmitPipeline`), the driver's refusal of a limit, Windows |


`MC*` modules instantiate them for TLC; `*Proofs` modules hold the theorems, those on
the forwarder in `BlockStoreProofs`, those on key pool and hash backend in
`HashBackendProofs`, those on VRAM plan and hunt in `BatchSizingProofs`, and the one
on what a parked card holds in `CudaEngineProofs` (BagForwarder and MatchDrain have prefixes
on Init, Next and Spec for that).
How they fit: `SubmitPipeline` uses the store as the atomic set that `Bag`
specifies and `BlockStore` implements, and the engine as the set `gpu` that
`HitSource` (its `held`) specifies and `CudaEngine` implements; `FlushWave` opens
up the step "a wave of bag entries" of `SubmitPipeline`.  `HashBackend` extends
`KeygenPool` and opens up the wave that a lane of `CudaEngine` hashes (WorkerHash).
`NetworkWatch` is where the choices come from that `SubmitPipeline` (`open`) and
`FlushWave` (the network's difficulty, `backoff`) leave free, and which
`set_difficulty` the `CudaEngine` sees.  `MatchDrain` uses the beliefs of
`NetworkWatch` and `PaperWatch` as values that may change at any time, and says
when the engine of `BatchSizing` mines; `BatchSizing` gives `CudaEngine` its plans
(the lanes of a replan).  `BagForwarder` EXTENDS `BlockStore`: every behaviour of
the two together is one of the store's (theorem ForwarderKeepsStore).
`Lifecycle` is the frame around all of them.

State and actions carry the names of the code.  Places of a thread (`mpc`, `wpc`,
`ppc`) are the points between two accesses to shared state; everything between
two such points is one action.  Histories (`owed`, `glued`, `found`, `accepted`,
`returned`, `dropped`, `excused`, `hashedOn`, `lost`, `killed`) are written and never
read by the actions.

Modelling decisions worth knowing:

* `next_id_++` in `load()` is an argument of `item.value("id", next_id_++)`, so it
  is evaluated for every entry; LoadEntry does so.
* `queue.jsonl` is never compacted, so a start finds every block ever enqueued:
  Stop of `Bag` leaves all that was ever put in to the next Start, and Start finds
  exactly that.  Submitted blocks come back as well; no property forbids it, for
  the code does it.  A block appended behind a torn line may or may not return
  (`fragile`), depending on whether a snapshot has it.
* While the store is up, a block leaves `Bag` by Take only: it was in the wave that
  the flush listed, and the flush has reported it.  A start that finds less than was
  put in, or a crash after which the log is gone, is no behaviour of `Bag`.
* A POSIX handler runs on the thread that the signal interrupts - the mining
  thread, the submit worker, or another that shutdown joins - and suspends it
  (`Runs`).  A signal that finds the thread within `persist_mu_`, `submit_mu_` or
  the locks of store, logger and metrics is SignalCatches: the handler waits for
  its own thread, and the lock is never free again (`caught`).  Where the model has
  the thread at a place from which it takes such a lock, both outcomes are
  possible; a thread between PersistFlags and PersistDefer holds `persist_mu_` for
  certain.  The Windows console handler has its own thread (HandlerOwnThread).  There the process may end in the middle of persisting;
  NothingLostAtExit is stated and proved for the POSIX case, and the hazard
  list has the other.
* In `CudaEngine` a worker increments `produced`, and mine_batch `consumed`,
  outside `worker_mu_` and then notify.  A thread between "predicate false" and
  "asleep" (places `blocking`, `spaceBlocking`) misses the call.  That the
  program works all the same rests on the ring being deeper than one: the
  mutant with a ring of one slot violates MineReturns.
* `replan` resizes `lanes_impl_` while workers still hash.  A worker that hashes
  on a destroyed lane is undefined behaviour: DanglingLane ends the process,
  or the worker goes on (WorkerHash).
* The worker that counts a fill down to zero locks `done_mu` only afterwards,
  while the caller may test the counter, return and take mutex and condition
  variable off the stack (`KeygenPool.cpp:155`).  Notify then does nothing or ends
  the process (`crashed`); RunBatchReturns allows for that end, and nothing else.
* `std::async` may fail after `next_keys_.resize`, so Throw may leave a buffer of
  the right size with old keys.  NoKeyTwice holds because the wave that took
  these keys has failed with it.
* `remove(path_)` in `release()` takes whatever file has the path by then.  In
  `Lifecycle` path and inode are apart, so that a process can hold the flock of a
  file that nobody finds any more (history `lost`).
* When `replan` throws, `difficulty_` is set and the plan is not.  FollowNetwork and
  CooldownRestart have that outcome, and PackFitsCaps names it.
* The hunt's first reading after a replan only starts the observation, and the
  scale that the hunt left behind outlives a replan but not the next reading.

## 3. Runs

| Run | Question | Bounds and why they suffice |
|---|---|---|
| `bag_refinement` | Does the store implement `Bag`, and never lose an accepted block, over crashes, torn appends included? | 2 digests, 3 ids, 3 starts, save every 2 operations, one reason (recovery does not look at it): two blocks differ in being saved or only logged; the second start finds a torn line and glues a block to it, the third recovers from what that left |
| `bag_forward` | Are ids, index and lag counter right, torn appends included, and are forwarded marks true and complete? | 2 digests, 2 ids, 2 starts, waves of 1: one block is in a wave while the flush removes, recovers or snapshots another |
| `pipeline_custody` | One place per hit, no loss, shutdown ends unless a signal caught a thread within a lock | 2 hits (all conflicts are between two), 1 signal, to any thread at any place, next to an update (handler during the updater's persist and the other way round); the theorems have any number of signals |
| `flush_waves` | Waves and answers | 3 blocks with waves and chunks of 2: a second chunk, a short wave and a wrap occur; two network difficulties; XUNI window |
| `engine_lanes` | Lanes, rings, lost notifications, replans | 2 lanes (they only meet at the mutex and in "all lanes have a result"), ring of 2 (full, empty and between), 1 match |
| `keys_pairing` | Do keys and digests belong together, do fills and runBatch return? | 1 lane (lanes share nothing but the queue of jobs; the theorems have any number), 3 threads, batches of 4 (two chunks of two, the third thread's is skipped) and 1 (no next keys), 4 fills, which is three waves: keys of the first are in use, those of the second generated and those of the third follow |
| `network_watch` | Does the miner come to believe the truth and does the engine stay at its target, in whichever order the threads apply snapshots? | 2 memory costs (a change back and forth), one nonsense number, budgets of 1 and 2 failures in place of 3 and 6 (inside, at the limit, beyond), classic and hybrid; at most four sequence numbers are alive at a time |
| `paper_watch` | Does the same hold for the paper, which is marked without a lock? | 2 memory costs, answers of two rows (the newest decides, not the majority), 5 numbers: the published, the remembered and two copies are alive |
| `match_drain` | When does a parked card hold a match back, and does it stay parked? | 2 memory costs, 3 blocks of either kind, classic and hybrid, with and without a time budget, one lane and several (all lanes are alike), replans and restarts; beliefs change at will |
| `batch_sizing` | Do batch, pack and floor keep their limits, does the card come back? | a card of 40 units, 3 memory costs: one takes two lanes, one a single lane, one cannot be planned; batches of a few attempts; die and junction readings below, at and above target and cap, missing, and one 12 degrees below another |
| `lifecycle` | One holder of the lock, the limit given back, a stop heeded? | 3 starts (the race for the file needs a third), 2 difficulties and 2 temperatures, which give different limits |
| `network_follow` (violation) | Does a classic engine end up at the difficulty that the network keeps? | as above, classic |

Deadlock checking is off everywhere: stores, workers and processes end, and the
bounds (MaxId, MaxRestarts, MaxSignals, MaxLanes) end behaviours.  That nothing
gets stuck that should go on is what the liveness properties say.

### Fairness

* `SubmitPipeline`: weak fairness of the mining thread outside the body of its loop,
  of the worker and of each persisting caller.  The operating system schedules
  them and every HTTP call has a timeout.  A thread that a handler interrupted, or
  a handler that waits for a lock held for ever, cannot move, and fairness asks
  nothing of it.  Nothing is assumed of mine_batch either: that it returns each
  time is the premise of StopReachesExit.  `engine_lanes` shows that it does unless
  a wave has failed; after one it may not (see below).
* `FlushWave`: the worker services the queue every turn (250 ms wait at most),
  back-off ends by the clock.  Nothing is assumed of pool and network; BagDrains
  assumes, as a premise, that the pool accepts from some time on.
* `HashBackend`: every thread and the GPU go on; which worker moves next is left
  open.  Nothing is assumed of the callers.
* `NetworkWatch`: the poller's and the mining thread's loops go on (each wait and
  each HTTP call has a limit).  Nothing is assumed of the submit worker, which
  refreshes when it has something to send, nor of the network: that polls bring
  the truth, and submits stop failing, from some time on is a premise.
* `PaperWatch`: as `NetworkWatch`; the worker ends a refresh that it has begun.
* `BagForwarder`: its thread, the end of a save, and, since it competes for `mu_`
  with operations that all end, strong fairness of its two accesses to the store.
  That the master does not refuse every wave for ever is a premise.
* `MatchDrain`: the mining thread's loop and the clock.  That the pool takes what it
  is offered again and again, that beliefs settle and that the XUNI window opens
  are premises, and needed only without a time budget.
* `BatchSizing`: a cooldown ends, and the loop reaches its restart.  That the driver
  works and that others leave the memory above the target free, from some time
  on, are premises.
* `Lifecycle`: the main thread of each process goes on.
* `CudaEngine`: each worker and the calls of the mining thread that have begun.
  How often the supervisor calls is left open; MatchesComeOut has it as a
  premise.

### Disagreements between code and documents

`network_follow` is one: a change of difficulty that the submit worker sees first
never reaches the engine, against `README.md:12` of the repository.

Noted while modelling, without a run of their own.  Custody:

* `persist_queue_for_restart` bags the live queue only; what the worker and the
  mining thread hold in local variables is lost when the process is killed next
  (`supervisor.cpp:122`, against `supervisor.hpp:44`).
* Marks of submission do not survive a restart, since nothing compacts the log
  (`store.cpp:136`).
* A stop by signal makes run() skip graceful_shutdown, so results in the double
  buffer are dropped (`supervisor.cpp:1550`, against 1193).
* A torn line of the log swallows the next block (`fragile` in `Bag`), which the
  recovery that `store.cpp:121` relies on cannot refill.
* A second instance that is refused the lock has read the bag in its constructor
  and writes it back on the way out, without the lock (`supervisor.cpp:1221`).

Flush and match flush:

* With fewer than two waves of blocks behind the skip mark, refill and sort put the
  oldest blocks first again; while the pool holds these, the rest is never sent
  (`store.cpp:381`, against `store.hpp:57` and the log line at
  `supervisor.cpp:1042`).
* `flush_priority` sorts XBLK (0) before XNM (1), against `store.hpp:56` and
  `policy.hpp:28`.
* The flush at close goes on after a timeout (`supervisor.cpp:989`, against 1131).
* When /difficulty is down the paper alone parks the card (`supervisor.cpp:262`,
  against `supervisor.hpp:91`).
* XUNI blocks outside their window, and blocks that the pool holds, count as
  eligible: without `match_drain_max_s` (0 by default) they keep the flush going
  and the card parked.

Engine:

* mine_batch throws on a failed result before it counts it as consumed: each retry
  of run() meets it again and takes a result of the lanes before it, and when
  their rings are empty mine_batch sleeps for ever (`cuda_engine.cpp:658`).
* drain_pipeline returns the last wave of each lane but not the results in the rings,
  and the workers of several lanes go on hashing while the card is parked: up to
  a full ring and a snapshot of each lane stay behind until mining resumes
  (`cuda_engine.cpp:677`, `supervisor.cpp:1465`).
* A match is labelled with the present difficulty, not that of the wave that found
  it (`cuda_engine.cpp:523`, against `argon2_encode.hpp:18`).
* A VRAM emergency does not shrink the next pack, whatever the log says: the scale
  it reports is 1 (`supervisor.cpp:1170`).  The measured use of the card is not
  used for planning either (set_occupied_vram_mib does nothing), against
  `HOWTO.md:111`.
* A reading 12 degrees below one at or above the target is taken for a misreading
  even when it persists, and is then disbelieved for ever
  (`thermal_policy.cpp:62`).  A hot reading within the settle time makes the
  present batch the floor, without a cut (line 124).
* A difficulty that cannot be planned leaves the engine with difficulty_ set and the
  plan before it; once stopped it cannot start until the next change.
* The lane window of `replan` and the dead stack frame of `fill`, above.

Process: a signal that finds its thread within `persist_mu_`, `submit_mu_` or a lock of
the store never ends the process on POSIX (`main.cpp:24`, `supervisor.cpp:116`,
against 115, "Safe to call from console Ctrl handler"; StopReachesExit fails when
`caught` is left out of it); a signal between startup_checks() and run() is
forgotten (`supervisor.cpp:1245`); `release()` may remove the lock file of another process, so
that a third one finds the directory free (`instance_lock.cpp:67`); after a kill the
next session takes the lowered power limit for the card's own (`gpu_power.cpp:92`).

## 4. Proofs

All theorems hold for every value of the constants that satisfies the named
assumptions (positive bounds, BOOLEAN switches).

* `BlockStoreProofs`.  The inductive invariant MemoryInv adds to StoreConsistent
  what each phase of a start has done (PhaseInv), that every id in memory, on
  disk and in the hands of callers is below `next_id_` (IdInv) and how far the
  snapshot lags (LagInv).  From it TypeCorrect, Consistency, StableIds,
  BoundedLag.  LogInv says that the log, with the blocks glued to torn lines,
  covers index, snapshot and everything owed, that recovery up to `cursor` has put
  it into the bag and that it adds nothing else to the snapshot's; from it
  Durability and Refinement (`Spec => Abstract!Spec`).  For Refinement WaveListed
  says that the flush's wave in hand lists blocks of the bag: so each mark is a
  Take from it, each crash or orderly end a Stop, the end of the recovery a Start
  that has found what Stop left, and no other step takes a block out.
* `SubmitPipelineProofs`.  PipelineInv is the conjunction of TypeOK, LocalsEmptied,
  PersistExcludes, WaveIsPending, OnePlace and Accounted; each alone is not
  inductive (Accounted needs that a container going out of scope is empty and that
  nobody else is persisting when a batch is swapped out, OnePlace that a wave is
  still pending).  From it NeverLost, HeldOnce, WavePending, NoContainerDiesFull,
  PersistExclusive and, under `~HandlerOwnThread`, ExitKeepsAll: a thread with a
  handler under way does not end, so at exit no batch is left.
* `FlushWaveProofs`.  NothingDropped, NoResend and WaveStaysInBag: WaveInBag and
  AcceptedNotResent strengthen each other.  NoShortWave has to count.  A set of
  blocks with distinct ids is finite; in a finite set with a strict total order
  the ranks are exactly 0, 1, ... (Places, a bijection), so a cut by rank has as
  many elements as asked, or all (FirstPlaces).  With age and flush order for the
  order, the two cuts of list_flush_batch fill each other up (BatchCount,
  FillUp).  TypeCorrect rests on the same lemmas: a list that is not empty has a
  last block (LastPlace), so CHOOSE finds one and the skip mark stays in range.
* `CudaEngineProofs`.  IInv adds to RingsAndMutex when the stop flag is up, when
  workers exist (exactly the lanes of the plan whenever the mining thread is not
  resizing), and that a published lane whose worker is at its outer wait has
  fresh work.  From it TypeCorrect, RingsSafe and EveryLaneServed: no result is
  overwritten, at most one thread holds the mutex, and mine_batch only waits for
  lanes that have a running worker with work.  EngineIsHitSource is the refinement
  (`Spec => Source!SourceSpec`): one lemma per action says which step of HitSource
  it is, or that it is none.  It needs Custody: no hit is in two of the snapshots,
  the workers' hands and the results in the rings, an error on its way out has set
  `excused`, and only a worker that is still being joined hashes on a lane that
  sync_lanes removed.  Without that last part a hit could be held by a lane that no
  longer exists.  ParkedHoldsNone, about the card that `MatchDrain` parks, stands here
  too: HitsHandedOver needs that without workers only snapshots hold matches and
  that no worker begins on a parked card (SnapshotsOnly).
* `HashBackendProofs`.  No digest gets a wrong key (KeysPaired) because nobody
  writes into the arena from launch to snapshot (ArenaInv).  This rests on fill()
  not returning early, which is FillsComplete: the counter is the cardinality of
  the set of jobs not done.  That in turn needs jobs to be distinct across
  queue, workers and earlier fills (JobsInv).  KeysUsedOnce (NoKeyTwice) rests on
  UseInv.  Keys that were hashed do stay in the buffers, for `next_keys_` is
  swapped and not cleared; UseInv says that at every such place a job of the
  running fill is still to write, and JobsCover that the jobs of a fill reach
  every key of its batch, uneven splits and skipped chunks included.
* `BatchSizingProofs`.  IInv is TypeOK, BatchInPlan, that the plan in force is the
  one for its difficulty (PlanInForce) and that a hunt that observes has a batch
  (Observes); TLC has checked it on the instance of `batch_sizing`.  From it
  TypeCorrect, HuntStaysInPlan, PackStaysInCaps and FloorHolds.  Below it lie
  lemmas on the rounded divisions of vram_policy and vram_batch: the first plan
  fits the caps whenever it gives work (FirstPlanFits), and a smaller batch fits
  where a larger one does (SmallerFits).  PlansAreNeverShrunk is what this means
  for the code: the loop of clamp_plan_to_caps (`vram_batch.cpp:94`) never
  shrinks a plan that gives work.
* `NetworkWatchProofs`: TypeCorrect, where the point is that renumbering fits the
  three remembered snapshots and the newest into 0..4 (ThreeAtMost, NumbersFit),
  and EngineTarget, which is inductive as it stands because every change of the
  belief goes through ApplyAnswer.
* `BlockStoreProofs` ends with the forwarder.  ForwarderKeepsStore: each step of the
  composition is a step of BlockStore or leaves its variables alone, so the store's
  theorems carry over.  MarksAreTrue: a mark is put on a wave between the master's 200 and the end of
  the wave only, and the wave is in the vault then (AnsweredIsStored).
  ForwarderTypes is the type invariant.
* `LifecycleProofs`.  TypeCorrect needs that every percentage lies between lowest
  and highest, whatever temperature and difficulty (DeratedRange, EffectiveRange,
  HeatPctIsInteger), and that the limit is clamped.  For OneHolder, FilesInv ties
  path, descriptors and owners: a process in a holding place owns the flock of
  its inode, and an inode that still has users but not the path is in `lost`.  For
  PowerGivenBack, PowerInv adds that, as long as nothing was killed or lost, every
  process that mines remembers the first limit, and the limit differs from that
  only while some process that mines or finalizes remembers it.

The runs check the type invariants of FlushWave, BatchSizing and Lifecycle, which
bound something that could go wrong; the other modules' are theorems, but for
PaperWatch and MatchDrain, where they only document the variables.

Every invariant, action property and refinement that a run checks is a theorem.
Only model-checked is liveness (StopReachesExit, BagDrains, MineReturns, StopReturns,
MatchesComeOut, RunBatchReturns, BeliefCatchesUp, NetworkComesUp, PaperCatchesUp,
MiningResumes, BagReachesVault, MiningComesBack, StopIsHeeded): it needs fairness
and ENABLED, which the provers cannot handle.

Two things about the proofs worth knowing:

* The loop of clamp_plan_to_caps is a recursive function (Shrunk).  The library's
  induction theorems take an operator as a parameter, which the provers cannot
  instantiate; its theorem that a well-founded relation has minimal elements takes
  a set, and from it follows induction over a set of naturals (SetInduction).
* VramSizes asks for `AttemptBytes[m] > 1`; the code has 1024 bytes and more per
  attempt.  plan_cuda_batch gives a lane at least one byte (PerLane), with no
  memory left as well, and an attempt of one byte would "fit" there.

## 5. Plan

Done, in this order: BlockStore and Bag; SubmitPipeline; FlushWave; CudaEngine and
HitSource; KeygenPool and HashBackend; NetworkWatch; BagForwarder; PaperWatch and
MatchDrain; VramPlan and BatchSizing; GpuPower and Lifecycle.  Next:

1. Proofs: that the conversions of settings behind the assumptions on constants
   give values within them; the Windows case of NothingLostAtExit as far as it holds.
2. Several processes on one bag, as a refused instance makes them.

## 6. Not modelled

Argon2 kernels, string assembly and parsing, HTTP transport, settings, display,
statistics, sensors, third-party reports: no state that custody depends on.
PROJECT.json gives the reason for each component.
