------------------------------ MODULE Lifecycle ------------------------------
(***************************************************************************)
(* The life of the miner's processes: main (main.cpp), the lock file       *)
(* (class InstanceLock), the stop flags of Supervisor, and the power limit *)
(* of the card, which outlives the process that set it (GpuPowerBooster).  *)
(*                                                                         *)
(* Several processes may be started in one directory; they share           *)
(* miner.lock and the card.  The file is an inode that the path names:     *)
(* flock is on the inode, remove on the path.  A process may be told to    *)
(* stop (TERM, INT) or be killed at any point, as kill-miner.sh does.      *)
(*                                                                         *)
(* What happens to blocks on the way out is the subject of SubmitPipeline; *)
(* here graceful_shutdown and finalize_session are cut where lock, power   *)
(* and flags are touched.  The handler runs at once; one that interrupts a *)
(* holder of the mutexes it needs would not return (see SubmitPipeline).   *)
(* The miner is assumed to be allowed to set the limit.                    *)
(***************************************************************************)
EXTENDS GpuPower, FiniteSets

CONSTANTS
    Ms,             \* network difficulties
    GpuTemps, MemTemps,
    StockMw,        \* the limit the card has before the first start
    MaxStarts       \* bound on the number of processes started

ASSUME LifecycleAssumption ==
    /\ Ms \subseteq Nat \ {0} /\ Ms # {}
    /\ GpuTemps \subseteq Nat /\ MemTemps \subseteq Nat
    /\ StockMw \in MinMw..MaxMw
    /\ MaxStarts \in Nat

None == 0
Procs == 1..MaxStarts     \* a process is known by the number of its start,
Inodes == Procs           \* and a lock file by the process that made it

VARIABLES
    pc,         \* where each process is, see Places
    running,    \* running_
    path,       \* the inode that miner.lock names, or None
    fd,         \* InstanceLock::fd_
    owner,      \* owner[i]: the process that holds flock on inode i, or None
    limit,      \* the card's power limit
    original,   \* original_limit_mw_
    target,     \* effective_target_pct_
    starts,     \* processes started so far
    \* history: inodes that remove() took while another process used them; a
    \* process was killed
    lost, killed

lock == <<path, fd, owner>>
power == <<limit, original, target>>
history == <<lost, killed>>
vars == <<pc, running, lock, power, starts, history>>

\* "mine" is the loop of run(), "finalize" the way into finalize_session.
Places == {"off", "built", "opened", "locked", "starting", "mine",
           "finalize", "restored", "unlocked"}
InRun == {"starting", "mine"}
Holding == {"locked", "starting", "mine", "finalize", "restored"}

Go(p, place) == pc' = [pc EXCEPT ![p] = place]

-----------------------------------------------------------------------------
(* Start: main() and startup_checks().                                     *)

\* The Supervisor is constructed; the power target is the unreduced one.
Construct(p) ==
    /\ p = starts + 1
    /\ starts' = p
    /\ Go(p, "built")
    /\ UNCHANGED <<running, lock, power, history>>

\* open(miner.lock, O_CREAT): one start opens, and may create, one file.
Open(p) ==
    /\ pc[p] = "built"
    /\ Go(p, "opened")
    /\ path' = IF path = None THEN p ELSE path
    /\ fd' = [fd EXCEPT ![p] = path']
    /\ UNCHANGED <<running, owner, power, starts, history>>

\* What the end of a process leaves of it: the kernel closes its files.
Gone(p) ==
    /\ Go(p, "off")
    /\ running' = [running EXCEPT ![p] = FALSE]
    /\ fd' = [fd EXCEPT ![p] = None]
    /\ owner' = [i \in Inodes |-> IF owner[i] = p THEN None ELSE owner[i]]
    /\ original' = [original EXCEPT ![p] = None]
    /\ target' = [target EXCEPT ![p] = HighPct]
    /\ UNCHANGED <<limit, starts>>

\* Mutant: the result of flock is not looked at.
FlockAlways(p) ==
    /\ pc[p] = "opened"
    /\ owner' = [owner EXCEPT ![fd[p]] = p]
    /\ Go(p, "locked")
    /\ UNCHANGED <<running, path, fd, power, starts, history>>

\* flock(fd, LOCK_EX | LOCK_NB): it is had, or main returns, and finalize_session
\* in the destructor finds neither a limit to restore nor a lock to release.
Flock(p) ==
    /\ pc[p] = "opened"
    /\ \/ /\ owner[fd[p]] = None
          /\ owner' = [owner EXCEPT ![fd[p]] = p]
          /\ Go(p, "locked")
          /\ UNCHANGED <<running, fd, power, starts>>
       \/ owner[fd[p]] # None /\ Gone(p)
    /\ UNCHANGED <<path, history>>

\* startup_checks finds no wallet address: main returns with the lock held.
NoAddress(p) ==
    /\ pc[p] = "locked"
    /\ Go(p, "finalize")
    /\ UNCHANGED <<running, lock, power, starts, history>>

\* run() begins, whatever the flags say.
RunBegin(p) ==
    /\ pc[p] = "locked"
    /\ Go(p, "starting")
    /\ running' = [running EXCEPT ![p] = TRUE]
    /\ UNCHANGED <<lock, power, starts, history>>

-----------------------------------------------------------------------------
(* run().                                                                  *)

\* apply(): remember the card's limit and set the wanted one.
ApplyPower(p) ==
    /\ original' = [original EXCEPT ![p] = limit]
    /\ limit' = Limit(target[p])

\* Mutant: mining marks the session as running once more.
EngineStartedRuns(p) ==
    /\ pc[p] = "starting"
    /\ Go(p, "mine")
    /\ ApplyPower(p)
    /\ running' = [running EXCEPT ![p] = TRUE]
    /\ UNCHANGED <<lock, target, starts, history>>

\* The engine is up.
EngineStarted(p) ==
    /\ pc[p] = "starting"
    /\ Go(p, "mine")
    /\ ApplyPower(p)
    /\ UNCHANGED <<running, lock, target, starts, history>>

\* It is not: run() finalizes and returns.
EngineFails(p) ==
    /\ pc[p] = "starting"
    /\ Go(p, "finalize")
    /\ running' = [running EXCEPT ![p] = FALSE]
    /\ UNCHANGED <<lock, power, starts, history>>

\* refresh_network tells the booster the memory cost it works at.
SetDifficulty(p, m) ==
    /\ pc[p] \in InRun
    /\ target' = [target EXCEPT ![p] = EffectivePct(m)]
    /\ UNCHANGED <<pc, running, lock, limit, original, starts, history>>

\* tick() in a round of the loop.
Tick(p, gpu, mem) ==
    /\ pc[p] = "mine"
    /\ limit' = Limit(HeatPct(target[p], gpu, mem))
    /\ UNCHANGED <<pc, running, lock, original, target, starts, history>>

\* The time given to the session is over: graceful_shutdown.
MaxSeconds(p) ==
    /\ pc[p] = "mine"
    /\ Go(p, "finalize")
    /\ running' = [running EXCEPT ![p] = FALSE]
    /\ UNCHANGED <<lock, power, starts, history>>

\* The loop sees running_ gone (graceful_shutdown, if the handler has not begun it).
LoopEnds(p) ==
    /\ pc[p] = "mine" /\ ~running[p]
    /\ Go(p, "finalize")
    /\ UNCHANGED <<running, lock, power, starts, history>>

-----------------------------------------------------------------------------
(* finalize_session(): power, then the lock.                               *)

\* Mutant: the limit is left as the session set it.
RestoreSkipped(p) ==
    /\ pc[p] = "finalize"
    /\ Go(p, "restored")
    /\ UNCHANGED <<running, lock, power, starts, history>>

\* restore()
Restore(p) ==
    /\ pc[p] = "finalize"
    /\ Go(p, "restored")
    /\ limit' = IF original[p] = None THEN limit ELSE original[p]
    /\ UNCHANGED <<running, lock, original, target, starts, history>>

\* release(): flock(LOCK_UN), close.
Unlock(p) ==
    /\ pc[p] = "restored"
    /\ Go(p, "unlocked")
    /\ owner' = [owner EXCEPT ![fd[p]] = None]
    /\ fd' = [fd EXCEPT ![p] = None]
    /\ UNCHANGED <<running, path, power, starts, history>>

\* release(): remove(path), which is by now perhaps the file of another process.
\* What main still does touches nothing that outlives it.
Remove(p) ==
    /\ pc[p] = "unlocked"
    /\ path' = None
    /\ lost' = lost \cup {fd[q] : q \in {q \in Procs : fd[q] = path /\ path # None}}
    /\ Gone(p)
    /\ UNCHANGED killed

-----------------------------------------------------------------------------
(* From outside.                                                           *)

\* handle_signal, or an update that was found: running_ = false.  Before run() begins
\* the flag is down already and run() raises it; after run() nobody reads it.
Signal(p) ==
    /\ running[p]
    /\ running' = [running EXCEPT ![p] = FALSE]
    /\ UNCHANGED <<pc, lock, power, starts, history>>

\* KILL: the kernel drops its locks.
Kill(p) ==
    /\ pc[p] # "off"
    /\ Gone(p)
    /\ killed' = TRUE
    /\ UNCHANGED <<path, lost>>

-----------------------------------------------------------------------------
Init ==
    /\ pc = [p \in Procs |-> "off"]
    /\ running = [p \in Procs |-> FALSE]
    /\ path = None /\ fd = [p \in Procs |-> None]
    /\ owner = [i \in Inodes |-> None]
    /\ limit = StockMw
    /\ original = [p \in Procs |-> None]
    /\ target = [p \in Procs |-> HighPct]
    /\ starts = 0 /\ lost = {} /\ killed = FALSE

\* What main does by itself once the process is there.
Step(p) ==
    \/ Open(p) \/ Flock(p) \/ NoAddress(p) \/ RunBegin(p) \/ EngineStarted(p)
    \/ EngineFails(p) \/ LoopEnds(p) \/ Restore(p) \/ Unlock(p) \/ Remove(p)

Next ==
    \E p \in Procs :
        \/ Step(p) \/ Construct(p) \/ MaxSeconds(p) \/ Signal(p) \/ Kill(p)
        \/ \E m \in Ms : SetDifficulty(p, m)
        \/ \E gpu \in GpuTemps, mem \in MemTemps : Tick(p, gpu, mem)

\* The main thread goes on: nothing in start or shutdown waits for the user.
Spec == Init /\ [][Next]_vars /\ \A p \in Procs : WF_vars(Step(p))

-----------------------------------------------------------------------------
(* Properties.                                                             *)

\* Types of the variables; the limit stays within what the driver allows.
TypeOK ==
    /\ pc \in [Procs -> Places]
    /\ running \in [Procs -> BOOLEAN]
    /\ path \in Inodes \cup {None} /\ fd \in [Procs -> Inodes \cup {None}]
    /\ owner \in [Inodes -> Procs \cup {None}]
    /\ limit \in MinMw..MaxMw
    /\ original \in [Procs -> (MinMw..MaxMw) \cup {None}]
    /\ target \in [Procs -> LowPct..HighPct]
    /\ starts \in 0..MaxStarts
    /\ lost \in SUBSET Inodes /\ killed \in BOOLEAN

\* "Another miner instance is already running (miner.lock)": two processes hold the
\* lock at once only after a third removed, on its way out, a lock file
\* that was no longer its own.
LockHolderAlone ==
    \A p, q \in Procs : /\ p # q
                        /\ pc[p] \in Holding /\ pc[q] \in Holding
                        => fd[p] \in lost \/ fd[q] \in lost

\* GpuPowerBooster::restore gives the card back as it was: unless a process
\* was killed or the lock was lost, no sequence of sessions, refused starts,
\* failing engines and signals changes the limit for good.
LimitRestored ==
    ~killed /\ lost = {} /\ (\A p \in Procs : pc[p] = "off") => limit = StockMw

\* A process that is told to stop once run() has begun ends.
StopIsHeeded ==
    \A p \in Procs : pc[p] \in InRun /\ ~running[p] ~> pc[p] = "off"
=============================================================================
