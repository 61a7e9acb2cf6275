------------------------------ MODULE KeygenPool ------------------------------
(***************************************************************************)
(* Key generation for all lanes (vendor/hashapi/KeygenPool.cpp).  A caller *)
(* splits its fill into jobs, queues them for the worker threads and waits *)
(* on a condition variable of its own until a counter is down to zero.     *)
(*                                                                         *)
(* Counter, mutex and condition variable are locals of the caller.  The    *)
(* worker that brings the counter to zero notifies afterwards, and by then *)
(* the caller may have seen the zero and returned: what the worker touches *)
(* is a dead stack frame.                                                  *)
(* A lane has at most one fill at a time.  The queue is a set of jobs, for *)
(* nothing depends on their order.  A key is known by the fill that made   *)
(* it; 0 stands for bytes that are no key.                                 *)
(***************************************************************************)
EXTENDS Integers, FiniteSets

CONSTANTS
    Lanes,      \* CudaHashBackend objects; each calls from one thread at a time
    Threads,    \* threads_, the size of the pool
    MaxKeys     \* the largest batch

ASSUME KeygenPoolAssumption ==
    /\ Threads \in Nat \ {0}
    /\ MaxKeys \in Nat \ {0}

Buffers == {"arena", "next"}   \* pinned key arena, next_keys_

VARIABLES
    q,          \* q_: jobs that no worker has taken
    taken,      \* the jobs that workers have, and the place of each in worker_loop
    fpc,        \* place of each caller in fill(); "out" when it is not in it
    remaining,  \* remaining
    fill,       \* number of fills so far, of each caller
    buffer,     \* buffer[l][b][i]: the fill that made key i, or 0
    crashed     \* a dead frame was touched, with consequences

pool == <<q, taken>>
frames == <<fpc, remaining, fill>>
poolVars == <<pool, frames, buffer, crashed>>

WorkerPlaces == {"fill", "count", "notify"}
FillPlaces == {"out", "test", "blocking", "asleep"}
Keys == [1..MaxKeys -> Nat]
Job == [lane : Lanes, fill : Nat, buffer : Buffers, first : 1..MaxKeys, last : 0..MaxKeys]

-----------------------------------------------------------------------------
(* fill: jobs, the wait.                                                   *)

Smaller(a, b) == IF a <= b THEN a ELSE b

\* n keys in equal chunks for at most Threads jobs.  When the rounding has used
\* up the keys, the last jobs are skipped and not counted.
JobsOf(l, b, n, f) ==
    LET use   == Smaller(Threads, n)
        chunk == (n + use - 1) \div use
    IN  {[lane |-> l, fill |-> f, buffer |-> b,
          first |-> t * chunk + 1, last |-> Smaller(n, (t + 1) * chunk)] :
            t \in {u \in 0..(use - 1) : u * chunk < n}}

\* Push the jobs under q_mu_ and wake the pool.
StartFill(l, b, n) ==
    LET jobs == JobsOf(l, b, n, fill[l] + 1)
    IN  /\ q' = q \cup jobs
        /\ remaining' = [remaining EXCEPT ![l] = Cardinality(jobs)]
        /\ fill' = [fill EXCEPT ![l] = @ + 1]
        /\ fpc' = [fpc EXCEPT ![l] = "test"]

\* Under done_mu: return when all jobs are done, else go to sleep.
TestRemaining(l) ==
    /\ fpc[l] = "test"
    /\ fpc' = [fpc EXCEPT ![l] = IF remaining[l] <= 0 THEN "out" ELSE "blocking"]
    /\ UNCHANGED <<pool, remaining, fill, buffer, crashed>>

FallAsleep(l) ==
    /\ fpc[l] = "blocking"
    /\ fpc' = [fpc EXCEPT ![l] = "asleep"]
    /\ UNCHANGED <<pool, remaining, fill, buffer, crashed>>

Caller(l) == TestRemaining(l) \/ FallAsleep(l)

-----------------------------------------------------------------------------
(* worker_loop.  A worker that has no job is like any other: what the pool *)
(* keeps of the workers is the jobs they have.                             *)

TakeJob ==
    /\ Cardinality(taken) < Threads
    /\ \E j \in q : q' = q \ {j} /\ taken' = taken \cup {[job |-> j, at |-> "fill"]}
    /\ UNCHANGED <<frames, buffer, crashed>>

Moved(w, place) == (taken \ {w}) \cup {[w EXCEPT !.at = place]}

\* fillMany.
FillMany(w) ==
    LET j == w.job
        filled == [i \in 1..MaxKeys |-> IF i \in j.first..j.last THEN j.fill
                                        ELSE buffer[j.lane][j.buffer][i]]
    IN  /\ w.at = "fill"
        /\ buffer' = [buffer EXCEPT ![j.lane] = [@ EXCEPT ![j.buffer] = filled]]
        /\ taken' = Moved(w, "count")
        /\ UNCHANGED <<q, frames, crashed>>

CountDown(w) ==
    LET l == w.job.lane
    IN  /\ w.at = "count"
        /\ remaining' = [remaining EXCEPT ![l] = @ - 1]
        /\ taken' = IF remaining[l] = 1 THEN Moved(w, "notify") ELSE taken \ {w}
        /\ UNCHANGED <<q, fpc, fill, buffer, crashed>>

\* Mutant: notify_all without done_mu.
NotifyUnlocked(w) ==
    LET l == w.job.lane
    IN  /\ w.at = "notify"
        /\ taken' = taken \ {w}
        /\ IF fpc[l] # "out" /\ fill[l] = w.job.fill
              THEN /\ fpc' = [fpc EXCEPT ![l] = IF @ = "asleep" THEN "test" ELSE @]
                   /\ UNCHANGED crashed
              ELSE crashed' \in BOOLEAN /\ UNCHANGED fpc
        /\ UNCHANGED <<q, remaining, fill, buffer>>

\* Lock done_mu and notify.  When that fill has returned, the mutex is whatever
\* is on the stack now: nothing may come of it, a crash or a thread stuck for good.
Notify(w) ==
    LET l == w.job.lane
    IN  /\ w.at = "notify"
        /\ taken' = taken \ {w}
        /\ IF fpc[l] # "out" /\ fill[l] = w.job.fill
              THEN /\ fpc[l] # "blocking"
                   /\ fpc' = [fpc EXCEPT ![l] = IF @ = "asleep" THEN "test" ELSE @]
                   /\ UNCHANGED crashed
              ELSE crashed' \in BOOLEAN /\ UNCHANGED fpc
        /\ UNCHANGED <<q, remaining, fill, buffer>>

PoolWorker == TakeJob \/ \E w \in taken : FillMany(w) \/ CountDown(w) \/ Notify(w)

PoolInit ==
    /\ q = {} /\ taken = {}
    /\ fpc = [l \in Lanes |-> "out"] /\ remaining = [l \in Lanes |-> 0]
    /\ fill = [l \in Lanes |-> 0]
    /\ buffer = [l \in Lanes |-> [b \in Buffers |-> [i \in 1..MaxKeys |-> 0]]]
    /\ crashed = FALSE

-----------------------------------------------------------------------------
(* Properties.                                                             *)

PoolTypeOK ==
    /\ q \subseteq Job
    /\ taken \subseteq [job : Job, at : WorkerPlaces]
    /\ fpc \in [Lanes -> FillPlaces] /\ remaining \in [Lanes -> Int]
    /\ fill \in [Lanes -> Nat]
    /\ buffer \in [Lanes -> [Buffers -> Keys]]
    /\ crashed \in BOOLEAN

\* Jobs of lane l that are queued or not counted yet.
Outstanding(l) ==
    {j \in q \cup {w.job : w \in {v \in taken : v.at # "notify"}} : j.lane = l}

\* fill() returns when, and only when, every job of it was done: a job that some
\* worker still has to do belongs to a fill whose caller waits, so nobody writes
\* into a buffer behind the back of its owner.
FillCovers ==
    /\ \A l \in Lanes : remaining[l] = Cardinality(Outstanding(l))
    /\ \A l \in Lanes : fpc[l] = "out" => Outstanding(l) = {}
    /\ \A l \in Lanes : \A j \in Outstanding(l) : j.fill = fill[l]
=============================================================================
