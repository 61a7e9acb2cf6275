---------------------------- MODULE SubmitPipeline ----------------------------
(***************************************************************************)
(* The way of a found block through the threads of the Supervisor          *)
(* (app/supervisor.cpp): the mining thread hands hits over, the CPU submit *)
(* worker owns all HTTP, the console/signal handler persists the queue,    *)
(* and shutdown joins the worker.                                          *)
(*                                                                         *)
(* The disk bag is the set that module Bag specifies (BlockStore implements*)
(* it); its operations are atomic under the store's mutex.  live_submit_q_ *)
(* is swapped and pushed under submit_mu_, so each swap or push is one     *)
(* step.  A step that relies on a flag is kept apart from the step that    *)
(* read it: the flag may change in between.                                *)
(*                                                                         *)
(* A POSIX handler (main.cpp) runs on the thread that the signal           *)
(* interrupts, and that thread stands still until the handler returns.  If *)
(* it was interrupted while it held a lock that the handler takes, neither *)
(* goes on, ever: none of the locks is recursive.  `caught` keeps the      *)
(* locks that are held for ever in this way.                               *)
(*                                                                         *)
(* The network gates (can_submit_hit_m, the XUNI window, the "older queue  *)
(* first" rule) decide per hit between HTTP and disk and may change at any *)
(* moment: the environment's set `open`.  Which bag entries a flush wave   *)
(* takes is the subject of FlushWave; here it is any subset.  Queues are   *)
(* sets: no property depends on the order inside them.                     *)
(***************************************************************************)
EXTENDS Naturals

CONSTANTS
    Hits,             \* valid blocks that the GPU may find
    HandlerOwnThread, \* the console handler has a thread of its own (Windows);
                      \* a POSIX handler borrows the thread it interrupts
    MaxSignals        \* bound: stop signals in one run

ASSUME SubmitPipelineAssumption ==
    /\ HandlerOwnThread \in BOOLEAN
    /\ MaxSignals \in Nat

\* Threads that may run a handler.  "other": a lane, a poller, the forwarder,
\* which shutdown joins, or the thread that Windows makes for the handler.
Threads == {"main", "worker", "other"}

\* Who may run persist_queue_for_restart: the mining thread when it finds an
\* update, and a handler on each thread.
Persisters == Threads \cup {"update"}

\* persist_mu_, submit_mu_, and the locks taken behind these: the store's mutex,
\* which stands for those of the logger and the metrics as well.
Locks == {"persist", "submit", "store"}

VARIABLES
    \* the GPU and the outside world
    gpu,        \* hits of waves whose result mine_batch has not returned yet
    fresh,      \* hits not found yet
    open,       \* hits that the network gates let pass now
    poolHas,    \* blocks the pool has taken
    signals,    \* stop signals delivered so far
    \* Supervisor state
    running, shuttingDown, workerRunning,   \* running_, shutting_down_, submit_worker_running_
    liveQ,      \* live_submit_q_
    bag,        \* store_
    done,       \* blocks whose acceptance the miner has seen
    \* mining thread: its place, the hits it still has to handle or to bag, and
    \* the hit (at most one) it has decided to submit live
    mpc, mhits, mcur,
    \* submit worker: its place, its local batch, the hits in HTTP (live) or
    \* accepted in a flush chunk, the rest of the flush wave
    wpc, wbatch, wcur, wave,
    \* persist_queue_for_restart: place per caller, local batch of the one that
    \* holds persist_mu_
    ppc, pbatch,
    \* locks whose holder was interrupted by a handler that needs them
    caught,
    \* history: hits that mine_batch or drain_pipeline returned
    found

world == <<gpu, fresh, open, poolHas, signals>>
flags == <<running, shuttingDown, workerRunning>>
store == <<liveQ, bag, done>>
mainVars == <<mpc, mhits, mcur>>
workVars == <<wpc, wbatch, wcur, wave>>
persVars == <<ppc, pbatch, caught>>
vars == <<world, flags, store, mainVars, workVars, persVars, found>>

MainPlaces == {"loop", "body", "handle", "act", "leave", "drain", "drainHandle",
               "gbag", "gdefer", "join", "final", "fbag", "fjoin", "fstop", "exit"}
WorkerPlaces == {"wait", "dispatch", "bagAll", "process", "gate", "http", "service",
                 "flush", "reply", "mark", "check", "lastBag",
                 "lastGate", "lastFlush", "lastReply", "lastMark", "exit"}
PersistPlaces == {"idle", "flags", "swap", "bag"}

Free(lock) == lock \notin caught

\* A thread whose handler is under way does nothing else.
Runs(t) == ppc[t] = "idle"

-----------------------------------------------------------------------------
(* The GPU and the network.                                                *)

\* A wave on the device finds hits.  Lanes go on until the engine is stopped; what
\* they find when nobody asks any more is of no consequence here.
FindHits ==
    /\ mpc \in {"loop", "body", "handle", "act", "leave", "drain"}
    /\ \E S \in SUBSET fresh \ {{}} : gpu' = gpu \cup S /\ fresh' = fresh \ S
    /\ UNCHANGED <<open, poolHas, signals, flags, store, mainVars, workVars, persVars, found>>

\* The gates open or close for a hit; for several, hit by hit.
NetworkChanges ==
    /\ \E h \in Hits : open' \in {open \cup {h}, open \ {h}} \ {open}
    /\ UNCHANGED <<gpu, fresh, poolHas, signals, flags, store, mainVars, workVars,
                   persVars, found>>

-----------------------------------------------------------------------------
(* Mining thread: run().                                                   *)

\* One pass of the while loop: stop, leave at max seconds, or enter the body.
LoopTest ==
    /\ mpc = "loop"
    /\ \/ running /\ mpc' \in {"body", "leave"}
       \/ ~running /\ mpc' = "leave"
    /\ UNCHANGED <<world, flags, store, mhits, mcur, workVars, persVars, found>>

\* maybe_check_update: a newer build exists, the thread itself persists the
\* queue and then goes on with the body.
UpdateFound ==
    /\ mpc = "body" /\ ppc["update"] = "idle"
    /\ ~shuttingDown
    /\ ppc' = [ppc EXCEPT !["update"] = "flags"]
    /\ UNCHANGED <<world, flags, store, mainVars, workVars, pbatch, caught, found>>

\* mine_batch(), or drain_pipeline() when CUDA is parked for a match flush,
\* returns some of what waves have found.  CudaEngine tells when it returns.
MineBatch ==
    /\ mpc = "body" /\ ppc["update"] = "idle"
    /\ mpc' = "handle"
    /\ \E S \in SUBSET gpu : mhits' = S /\ gpu' = gpu \ S /\ found' = found \cup S
    /\ UNCHANGED <<fresh, open, poolHas, signals, flags, store, mcur, workVars, persVars>>

\* mine_batch throws, or set_difficulty, a VRAM emergency or CUDA error 700 tears
\* lanes down: some or all hits in the buffers of the engine are gone.  With
\* nothing in them this is also the pass of a cooldown or of a parked GPU.
EngineStops ==
    /\ mpc = "body" /\ ppc["update"] = "idle"
    /\ mpc' = "loop"
    /\ gpu' \in SUBSET gpu
    /\ UNCHANGED <<fresh, open, poolHas, signals, flags, store, mhits, mcur, workVars,
                   persVars, found>>

-----------------------------------------------------------------------------
(* Mining thread: handle_batch_hits() and handle_hit().  An error in key or *)
(* hash filters a GPU match out; Hits are the matches that pass.            *)

\* The hit is bagged: shutdown, a closed XUNI window, a match flush in which
\* older blocks go first, or a network that does not take it.
HandleToDisk(h) ==
    /\ mpc \in {"handle", "drainHandle"} /\ h \in mhits
    /\ Free("store")
    /\ shuttingDown \/ h \notin open
    /\ mhits' = mhits \ {h}
    /\ bag' = bag \cup {h}
    /\ UNCHANGED <<world, flags, liveQ, done, mpc, mcur, workVars, persVars, found>>

\* All gates passed; the hit is not yet in the live queue.
HandleDecideLive(h) ==
    /\ mpc = "handle" /\ h \in mhits
    /\ ~shuttingDown /\ h \in open
    /\ mpc' = "act"
    /\ mhits' = mhits \ {h} /\ mcur' = {h}
    /\ UNCHANGED <<world, flags, store, workVars, persVars, found>>

\* Mutant: a hit decided before the stop flag was set is not queued any more.
EnqueueLiveSubmitUnlessStopping ==
    /\ mpc = "act" /\ Free("submit")
    /\ mpc' = "handle"
    /\ liveQ' = (IF shuttingDown THEN liveQ ELSE liveQ \cup mcur) /\ mcur' = {}
    /\ UNCHANGED <<world, flags, bag, done, mhits, workVars, persVars, found>>

\* enqueue_live_submit, whatever has happened since the gates were read.
EnqueueLiveSubmit ==
    /\ mpc = "act" /\ Free("submit")
    /\ mpc' = "handle"
    /\ liveQ' = liveQ \cup mcur /\ mcur' = {}
    /\ UNCHANGED <<world, flags, bag, done, mhits, workVars, persVars, found>>

HandleDone ==
    /\ mpc = "handle" /\ mhits = {}
    /\ mpc' = "loop"
    /\ UNCHANGED <<world, flags, store, mhits, mcur, workVars, persVars, found>>

-----------------------------------------------------------------------------
(* Mining thread: graceful_shutdown() and finalize_session().              *)

\* graceful_shutdown does nothing when shutting_down_ is already set.
GracefulStart ==
    /\ mpc = "leave"
    /\ \/ shuttingDown /\ mpc' = "final" /\ UNCHANGED flags
       \/ /\ ~shuttingDown /\ mpc' = "drain"
          /\ shuttingDown' = TRUE /\ running' = FALSE /\ UNCHANGED workerRunning
    /\ UNCHANGED <<world, store, mhits, mcur, workVars, persVars, found>>

\* drain_pipeline returns some of what the engine holds: the last wave of each
\* lane, not the results that wait in the rings.
GracefulDrain ==
    /\ mpc = "drain"
    /\ mpc' = "drainHandle"
    /\ \E S \in SUBSET gpu : mhits' = S /\ gpu' = gpu \ S /\ found' = found \cup S
    /\ UNCHANGED <<fresh, open, poolHas, signals, flags, store, mcur, workVars, persVars>>

\* The engine is stopped.
GracefulDrained ==
    /\ mpc = "drainHandle" /\ mhits = {}
    /\ mpc' = "gbag"
    /\ gpu' = {}
    /\ UNCHANGED <<fresh, open, poolHas, signals, flags, store, mhits, mcur, workVars,
                   persVars, found>>

\* bag_live_queue_to_store: swap the queue out ...
SwapLiveQueue ==
    /\ mpc = "gbag" /\ Free("submit")
    /\ mpc' = "gdefer"
    /\ mhits' = liveQ /\ liveQ' = {}
    /\ UNCHANGED <<world, flags, bag, done, mcur, workVars, persVars, found>>

\* Mutant: graceful_shutdown or the handler has bagged the queue already.
FinalSwapFlagsOnly ==
    /\ mpc = "final" /\ Free("submit")
    /\ mpc' = "fbag"
    /\ running' = FALSE /\ shuttingDown' = TRUE
    /\ UNCHANGED <<world, workerRunning, store, mhits, mcur, workVars, persVars, found>>

\* finalize_session sets the flags again and swaps once more.
FinalSwap ==
    /\ mpc = "final" /\ Free("submit")
    /\ mpc' = "fbag"
    /\ running' = FALSE /\ shuttingDown' = TRUE /\ UNCHANGED workerRunning
    /\ mhits' = liveQ /\ liveQ' = {}
    /\ UNCHANGED <<world, bag, done, mcur, workVars, persVars, found>>

\* ... and enqueue it to disk entry by entry.
BagSwapped(h) ==
    /\ mpc \in {"gdefer", "fbag"} /\ h \in mhits
    /\ Free("store")
    /\ mhits' = mhits \ {h} /\ bag' = bag \cup {h}
    /\ UNCHANGED <<world, flags, liveQ, done, mpc, mcur, workVars, persVars, found>>

\* defer_all_to_next_start, then stop_submit_worker: clear the flag, wake the
\* worker, join it.
StopSubmitWorker ==
    /\ mpc \in {"gdefer", "fbag"} /\ mhits = {}
    /\ Free("store")
    /\ workerRunning' = FALSE
    /\ mpc' = IF mpc = "gdefer" THEN "join" ELSE "fjoin"
    /\ UNCHANGED <<world, running, shuttingDown, store, mhits, mcur, workVars, persVars, found>>

JoinWorker ==
    /\ mpc \in {"join", "fjoin"} /\ wpc = "exit"
    /\ mpc' = IF mpc = "join" THEN "final" ELSE "fstop"
    /\ UNCHANGED <<world, flags, store, mhits, mcur, workVars, persVars, found>>

\* The engine is stopped, the other threads are joined, the process ends.
FinalStop ==
    /\ mpc = "fstop"
    /\ HandlerOwnThread \/ Runs("other")
    /\ mpc' = "exit"
    /\ gpu' = {}
    /\ UNCHANGED <<fresh, open, poolHas, signals, flags, store, mhits, mcur, workVars,
                   persVars, found>>

\* The body of the loop: its call of mine_batch may take any time, or never return.
MainInBody == Runs("main") /\ (UpdateFound \/ MineBatch \/ EngineStops)

Main ==
    /\ Runs("main")
    /\ \/ LoopTest
       \/ \E h \in Hits : HandleToDisk(h) \/ HandleDecideLive(h) \/ BagSwapped(h)
       \/ EnqueueLiveSubmit \/ HandleDone
       \/ GracefulStart \/ GracefulDrain \/ GracefulDrained \/ SwapLiveQueue
       \/ FinalSwap \/ StopSubmitWorker \/ JoinWorker \/ FinalStop

-----------------------------------------------------------------------------
(* Submit worker: submit_worker_loop() and process_live_submit().          *)

\* Mutant: the batch is copied instead of swapped.
WorkerSwapCopies ==
    /\ wpc = "wait" /\ Free("submit")
    /\ wpc' = "dispatch"
    /\ wbatch' = liveQ
    /\ UNCHANGED <<world, flags, store, mainVars, wcur, wave, persVars, found>>

\* The wait ends on work, on a stop flag or after 250 ms: always possible.
WorkerSwap ==
    /\ wpc = "wait" /\ Free("submit")
    /\ wpc' = "dispatch"
    /\ wbatch' = liveQ /\ liveQ' = {}
    /\ UNCHANGED <<world, flags, bag, done, mainVars, wcur, wave, persVars, found>>

WorkerDispatch ==
    /\ wpc = "dispatch"
    /\ wpc' = IF shuttingDown THEN "bagAll" ELSE "process"
    /\ UNCHANGED <<world, flags, store, mainVars, wbatch, wcur, wave, persVars, found>>

\* Shutting down, or the last bagging before the worker ends: disk only.
WorkerBags(h) ==
    /\ wpc \in {"bagAll", "lastBag"} /\ h \in wbatch
    /\ Free("store")
    /\ wbatch' = wbatch \ {h} /\ bag' = bag \cup {h}
    /\ UNCHANGED <<world, flags, liveQ, done, mainVars, wpc, wcur, wave, persVars, found>>

\* process_live_submit reads shutting_down_, then polls the network, and only
\* then reads the gates.
ProcessShutdown(h) ==
    /\ wpc = "process" /\ h \in wbatch
    /\ shuttingDown /\ Free("store")
    /\ wbatch' = wbatch \ {h} /\ bag' = bag \cup {h}
    /\ UNCHANGED <<world, flags, liveQ, done, mainVars, wpc, wcur, wave, persVars, found>>

ProcessPoll(h) ==
    /\ wpc = "process" /\ h \in wbatch
    /\ ~shuttingDown
    /\ wpc' = "gate"
    /\ wbatch' = wbatch \ {h} /\ wcur' = {h}
    /\ UNCHANGED <<world, flags, store, mainVars, wave, persVars, found>>

ProcessGate ==
    /\ wpc = "gate"
    /\ IF wcur \subseteq open
          THEN wpc' = "http" /\ UNCHANGED <<wcur, bag>>
          ELSE wpc' = "process" /\ Free("store") /\ bag' = bag \cup wcur /\ wcur' = {}
    /\ UNCHANGED <<world, flags, liveQ, done, mainVars, wbatch, wave, persVars, found>>

\* submit() returns: accepted; or refused, failed or timed out - the pool may
\* still have taken the block - and the hit is bagged.
SubmitReturns ==
    /\ wpc = "http" /\ Free("store")
    /\ wpc' = "process" /\ wcur' = {}
    /\ \/ poolHas' = poolHas \cup wcur /\ done' = done \cup wcur /\ UNCHANGED bag
       \/ poolHas' \in {poolHas, poolHas \cup wcur} /\ bag' = bag \cup wcur /\ UNCHANGED done
    /\ UNCHANGED <<gpu, fresh, open, signals, flags, liveQ, mainVars, wbatch, wave,
                   persVars, found>>

BatchDone ==
    /\ wpc \in {"bagAll", "process"} /\ wbatch = {}
    /\ wpc' = IF wpc = "bagAll" THEN "check" ELSE "service"
    /\ UNCHANGED <<world, flags, store, mainVars, wbatch, wcur, wave, persVars, found>>

-----------------------------------------------------------------------------
(* Submit worker: service_pending_queue() and try_flush_pending().         *)

\* A wave of bag entries, or none (not due, gates closed, nothing eligible).
\* shutting_down_ is not read again on this path.
ServiceQueue ==
    /\ wpc = "service" /\ Free("store")
    /\ wave' \in SUBSET bag
    /\ wpc' = "flush"
    /\ UNCHANGED <<world, flags, store, mainVars, wbatch, wcur, persVars, found>>

\* One chunk of parallel submits; on shutdown one block at a time.
FlushSend ==
    /\ wpc \in {"flush", "lastFlush"}
    /\ wcur' \in SUBSET wave \ {{}}
    /\ wpc = "lastFlush" => \E h \in wave : wcur' = {h}
    /\ wave' = wave \ wcur'
    /\ wpc' = IF wpc = "flush" THEN "reply" ELSE "lastReply"
    /\ UNCHANGED <<world, flags, store, mainVars, wbatch, persVars, found>>

\* Mutant: the flush at close tries a block until the pool takes it.
FlushRepliesRetries ==
    /\ wpc \in {"reply", "lastReply"} /\ Free("store")
    /\ \E took \in SUBSET wcur : poolHas' = poolHas \cup took /\ wcur' \in SUBSET took
    /\ wave' = IF wpc = "reply" THEN wave ELSE wave \cup (wcur \ wcur')
    /\ wpc' = IF wpc = "reply" THEN "mark" ELSE "lastMark"
    /\ UNCHANGED <<gpu, fresh, open, signals, flags, store, mainVars, wbatch, persVars, found>>

\* All answers of the chunk are in: wcur becomes the accepted ones.  A
\* transport failure ends the wave, except on shutdown.
FlushReplies ==
    /\ wpc \in {"reply", "lastReply"} /\ Free("store")
    /\ \E took \in SUBSET wcur : poolHas' = poolHas \cup took /\ wcur' \in SUBSET took
    /\ \E failed \in BOOLEAN :
          /\ failed => wcur' # wcur
          /\ wave' = IF failed /\ wpc = "reply" THEN {} ELSE wave
    /\ wpc' = IF wpc = "reply" THEN "mark" ELSE "lastMark"
    /\ UNCHANGED <<gpu, fresh, open, signals, flags, store, mainVars, wbatch, persVars, found>>

\* mark_submitted_many.
FlushMark ==
    /\ wpc \in {"mark", "lastMark"} /\ Free("store")
    /\ bag' = bag \ wcur /\ done' = done \cup wcur
    /\ wcur' = {}
    /\ wpc' = IF wpc = "mark" THEN "flush" ELSE "lastFlush"
    /\ UNCHANGED <<world, flags, liveQ, mainVars, wbatch, wave, persVars, found>>

FlushEnds ==
    /\ wpc \in {"flush", "lastFlush"} /\ wave = {}
    /\ wpc' = IF wpc = "flush" THEN "check" ELSE "exit"
    /\ UNCHANGED <<world, flags, store, mainVars, wbatch, wcur, wave, persVars, found>>

\* End of a turn: go on, or swap the live queue out for the last time.
WorkerCheck ==
    /\ wpc = "check"
    /\ IF workerRunning
          THEN wpc' = "wait" /\ UNCHANGED <<wbatch, liveQ>>
          ELSE wpc' = "lastBag" /\ Free("submit") /\ wbatch' = liveQ /\ liveQ' = {}
    /\ UNCHANGED <<world, flags, bag, done, mainVars, wcur, wave, persVars, found>>

\* Best-effort flush of the whole matching bag when the session is not
\* shutting down or live_submit_allowed() holds - which it may whether or not
\* some hit passes all gates.
LastGate ==
    /\ wpc = "lastBag" /\ wbatch = {} /\ Free("store")
    /\ \/ wpc' = "lastFlush" /\ wave' \in SUBSET bag
       \/ shuttingDown /\ open = {} /\ wpc' = "exit" /\ UNCHANGED wave
    /\ UNCHANGED <<world, flags, store, mainVars, wbatch, wcur, persVars, found>>

Worker ==
    /\ Runs("worker")
    /\ \/ WorkerSwap \/ WorkerDispatch
       \/ \E h \in Hits : WorkerBags(h) \/ ProcessShutdown(h) \/ ProcessPoll(h)
       \/ ProcessGate \/ SubmitReturns \/ BatchDone
       \/ ServiceQueue \/ FlushSend \/ FlushReplies \/ FlushMark \/ FlushEnds
       \/ WorkerCheck \/ LastGate

-----------------------------------------------------------------------------
(* persist_queue_for_restart(), by a signal handler or the mining thread.   *)

\* Locks that thread t may hold at this moment; persist_mu_ it holds for certain.
MayHold(t) ==
    {lock \in Locks :
       \/ lock = "persist" /\ \/ ppc[t] \in {"swap", "bag"}
                              \/ t = "main" /\ ppc["update"] \in {"swap", "bag"}
       \/ lock = "submit" /\ Runs(t) /\ \/ t = "main" /\ mpc \in {"act", "gbag", "final"}
                                        \/ t = "worker" /\ wpc \in {"wait", "check"}
       \/ lock = "store" /\ Runs(t)}

\* A stop signal reaches thread t.
SignalAt(t) ==
    /\ mpc # "exit"
    /\ t = "worker" => wpc # "exit"
    /\ HandlerOwnThread => t = "other"
    /\ signals < MaxSignals /\ signals' = signals + 1
    /\ running' = FALSE
    /\ UNCHANGED <<gpu, fresh, open, poolHas, shuttingDown, workerRunning, store, mainVars,
                   workVars, pbatch, found>>

\* handle_signal: request_stop, then persist.  The thread holds no lock.
Signal(t) ==
    /\ SignalAt(t)
    /\ Runs(t) /\ "persist" \notin MayHold(t)
    /\ ppc' = [ppc EXCEPT ![t] = "flags"]
    /\ UNCHANGED caught

\* The thread holds a lock that this handler, or the one it interrupts, needs.
SignalCatches(t, lock) ==
    /\ SignalAt(t)
    /\ ~HandlerOwnThread
    /\ lock \in MayHold(t)
    /\ "persist" \in MayHold(t) => lock = "persist"
    /\ caught' = caught \cup {lock}
    /\ ppc' = [ppc EXCEPT ![t] = IF Runs(t) THEN "flags" ELSE @]

\* Take persist_mu_ and set the flags.
PersistFlags(p) ==
    /\ ppc[p] = "flags"
    /\ \A q \in Persisters \ {p} : ppc[q] \in {"idle", "flags"}
    /\ ppc' = [ppc EXCEPT ![p] = "swap"]
    /\ shuttingDown' = TRUE /\ running' = FALSE /\ workerRunning' = FALSE
    /\ UNCHANGED <<world, store, mainVars, workVars, pbatch, caught, found>>

PersistSwap(p) ==
    /\ ppc[p] = "swap" /\ Free("submit")
    /\ ppc' = [ppc EXCEPT ![p] = "bag"]
    /\ pbatch' = liveQ /\ liveQ' = {}
    /\ UNCHANGED <<world, flags, bag, done, mainVars, workVars, caught, found>>

PersistBag(p, h) ==
    /\ ppc[p] = "bag" /\ h \in pbatch
    /\ Free("store")
    /\ pbatch' = pbatch \ {h} /\ bag' = bag \cup {h}
    /\ UNCHANGED <<world, flags, liveQ, done, mainVars, workVars, ppc, caught, found>>

\* defer_all_to_next_start saves the bag; persist_mu_ is released.
PersistDefer(p) ==
    /\ ppc[p] = "bag" /\ pbatch = {}
    /\ Free("store")
    /\ ppc' = [ppc EXCEPT ![p] = "idle"]
    /\ UNCHANGED <<world, flags, store, mainVars, workVars, pbatch, caught, found>>

\* An update is the mining thread's own call, which a handler suspends.
Persist(p) ==
    /\ mpc # "exit"
    /\ Free("persist")
    /\ p = "update" => Runs("main")
    /\ \/ PersistFlags(p) \/ PersistSwap(p) \/ PersistDefer(p)
       \/ \E h \in Hits : PersistBag(p, h)

-----------------------------------------------------------------------------

\* run() has loaded the bag of earlier starts, started engine and worker and
\* entered the loop.
Init ==
    /\ bag \in SUBSET Hits
    /\ fresh = Hits \ bag /\ found = bag
    /\ open \in SUBSET Hits
    /\ gpu = {} /\ poolHas = {} /\ signals = 0
    /\ running = TRUE /\ shuttingDown = FALSE /\ workerRunning = TRUE
    /\ liveQ = {} /\ done = {}
    /\ mpc = "loop" /\ mhits = {} /\ mcur = {}
    /\ wpc = "wait" /\ wbatch = {} /\ wcur = {} /\ wave = {}
    /\ ppc = [p \in Persisters |-> "idle"]
    /\ pbatch = {} /\ caught = {}

Next ==
    \/ FindHits \/ NetworkChanges
    \/ \E t \in Threads : Signal(t) \/ \E lock \in Locks : SignalCatches(t, lock)
    \/ Main \/ MainInBody \/ Worker \/ \E p \in Persisters : Persist(p)

\* Each thread is scheduled by the operating system, and every HTTP call has a
\* timeout (submitter.cpp): a thread that can move eventually does.  Nothing is
\* promised of a call of mine_batch (module CudaEngine).
Spec == /\ Init /\ [][Next]_vars
        /\ WF_vars(Main) /\ WF_vars(Worker)
        /\ \A p \in Persisters : WF_vars(Persist(p))

-----------------------------------------------------------------------------
(* Properties.                                                             *)

TypeOK ==
    /\ gpu \subseteq Hits /\ fresh \subseteq Hits /\ open \subseteq Hits
    /\ poolHas \subseteq Hits /\ signals \in 0..MaxSignals
    /\ running \in BOOLEAN /\ shuttingDown \in BOOLEAN /\ workerRunning \in BOOLEAN
    /\ liveQ \subseteq Hits /\ bag \subseteq Hits /\ done \subseteq Hits
    /\ mpc \in MainPlaces /\ mhits \subseteq Hits /\ mcur \subseteq Hits
    /\ wpc \in WorkerPlaces /\ wbatch \subseteq Hits /\ wcur \subseteq Hits
    /\ wave \subseteq Hits
    /\ ppc \in [Persisters -> PersistPlaces]
    /\ pbatch \subseteq Hits /\ caught \subseteq Locks
    /\ found \subseteq Hits

\* The block in a live HTTP call, or about to enter one.
InHttp == IF wpc \in {"gate", "http"} THEN wcur ELSE {}

\* Blocks that only a local container of the mining thread, of the worker or of
\* persist_queue_for_restart holds.
MainHolds == mhits \cup mcur
WorkerHolds == wbatch \cup InHttp
InMemory == MainHolds \cup liveQ \cup WorkerHolds \cup pbatch

\* A hit that mine_batch or drain_pipeline returned is never lost while the
\* process lives: it is with some thread, in the live queue, on disk, or its
\* acceptance was seen.  Covers every swap, bagging loop and failed submit.
Accounted == found \subseteq InMemory \cup bag \cup done

\* A hit is in at most one place: no swap of the live queue by one thread leaves
\* a copy for another, so no block is bagged or submitted twice, and a block
\* whose acceptance was seen is never queued again.
OnePlace ==
    /\ fresh \cap (gpu \cup InMemory \cup bag \cup done) = {}
    /\ gpu \cap (InMemory \cup bag \cup done) = {}
    /\ bag \cap (InMemory \cup done) = {}
    /\ done \cap InMemory = {}
    /\ liveQ \cap (MainHolds \cup WorkerHolds \cup pbatch) = {}
    /\ MainHolds \cap (WorkerHolds \cup pbatch) = {}
    /\ WorkerHolds \cap pbatch = {}
    /\ mhits \cap mcur = {} /\ wbatch \cap InHttp = {}

\* A flush wave only resends blocks that are still in the bag and whose
\* acceptance was not seen, although the bag changes while HTTP is in flight,
\* and no block is in two chunks.
WaveIsPending == /\ wave \subseteq bag
                 /\ wpc \in {"reply", "lastReply", "mark", "lastMark"}
                       => wcur \subseteq bag /\ wave \cap wcur = {}

\* The local containers of a thread hold hits only while it is at a place that
\* still works on them: none goes out of scope (a batch of the worker, a swapped
\* queue, a flush wave) with hits in it.
LocalsEmptied ==
    /\ mpc # "act" => mcur = {}
    /\ mpc \notin {"handle", "act", "drainHandle", "gdefer", "fbag"} => mhits = {}
    /\ mpc \in {"fbag", "fjoin", "fstop", "exit"} => liveQ = {}
    /\ mpc \in {"fstop", "exit"} => wpc = "exit"
    /\ wpc \notin {"dispatch", "bagAll", "process", "gate", "http", "lastBag"} => wbatch = {}
    /\ wpc \notin {"gate", "http", "reply", "mark", "lastReply", "lastMark"} => wcur = {}
    /\ wpc \notin {"flush", "reply", "mark", "lastFlush", "lastReply", "lastMark"} => wave = {}

\* persist_mu_ excludes, its batch is empty when it is released, an update of the
\* mining thread ends before the thread goes on, and neither a thread nor the
\* process ends while a handler on one of its threads is under way.
PersistExcludes ==
    /\ pbatch # {} => \E p \in Persisters : ppc[p] = "bag"
    /\ \A p, q \in Persisters :
          ppc[p] \in {"swap", "bag"} /\ ppc[q] \in {"swap", "bag"} => p = q
    /\ ppc["update"] # "idle" => mpc = "body"
    /\ wpc = "exit" => Runs("worker")
    /\ mpc = "exit" => Runs("main") /\ (HandlerOwnThread \/ Runs("other"))

\* finalize_session: "Ensure anything still only in RAM is on disk before we
\* tear down" - when the process ends, every hit is on disk or was accepted.
NothingLostAtExit == mpc = "exit" => found \subseteq bag \cup done

\* The mining thread is in the body of the loop, where it calls mine_batch.
InMineBatch == mpc = "body" /\ ppc["update"] = "idle" /\ Runs("main")

\* Once a stop was requested the process ends: whatever the worker was doing when
\* stop_submit_worker joins it, and however handlers on several threads and an
\* update of the mining thread queue up for persist_mu_.  The one way out is a
\* signal that caught a thread within a lock that its handler takes.  Premise:
\* mine_batch returns each time (module CudaEngine says when it does).
StopReachesExit ==
    []<>~InMineBatch => (~running ~> (mpc = "exit" \/ caught # {}))
=============================================================================
