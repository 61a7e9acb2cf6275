--------------------------- MODULE LifecycleProofs ---------------------------
(***************************************************************************)
(* For any number of starts, any settings of the power booster and any     *)
(* temperatures: the lock is held by one process as long as no lock file   *)
(* is removed under another one, and then the power limit of the card is   *)
(* given back.                                                             *)
(***************************************************************************)
EXTENDS Lifecycle, TLAPS

-----------------------------------------------------------------------------
(* The power limit.                                                        *)

\* Whatever percentage is asked for, the limit is one the driver allows.
LEMMA LimitRange ==
    ASSUME NEW pct \in Int PROVE Limit(pct) \in MinMw..MaxMw
<1>1. Round(MaxMw * pct, 100) \in Int
  BY PowerSettings DEF Round
<1> QED
  BY <1>1, PowerSettings DEF Limit, AtLeast, AtMost

\* The quotient of integers, between its bounds.
LEMMA RoundBounds ==
    ASSUME NEW x \in Int, NEW b \in Nat \ {0}, NEW lo \in Int, NEW hi \in Int,
           lo * b <= x, x <= hi * b
    PROVE  Round(x, b) \in lo..hi
<1> DEFINE q == (2 * x + b) \div (2 * b)
<1>1. q \in Int /\ (2 * b) * q <= 2 * x + b /\ 2 * x + b < (2 * b) * (q + 1)
  OBVIOUS
<1>2. lo <= q
  <2>1. SUFFICES ASSUME q + 1 <= lo PROVE FALSE
    BY <1>1
  <2>2. (2 * b) * (q + 1) <= (2 * b) * lo
    BY <2>1, <1>1
  <2> QED
    BY <2>2, <1>1
<1>3. q <= hi
  <2>1. SUFFICES ASSUME hi + 1 <= q PROVE FALSE
    BY <1>1
  <2>2. (2 * b) * (hi + 1) <= (2 * b) * q
    BY <2>1, <1>1
  <2> QED
    BY <2>2, <1>1
<1> QED
  BY <1>1, <1>2, <1>3 DEF Round

LEMMA Percentages == LowPct \in Nat /\ HighPct \in Nat /\ LowPct <= HighPct
<1>1. HighPct \in 50..100
  BY PowerSettings DEF HighPct, AtLeast, AtMost
<1>2. PowerMinPct \in Int
  BY PowerSettings
<1> QED
  BY <1>1, <1>2 DEF LowPct, AtLeast, AtMost

\* Derating stays between the lowest percentage and the one it starts from.
LEMMA DeratedRange ==
    ASSUME NEW high \in Int, LowPct <= high, NEW a \in Nat, NEW b \in Nat \ {0}
    PROVE  Derated(high, a, b) \in LowPct..high
<1> DEFINE c == AtMost(a, b)
           low == LowPct
           x == high * b - c * (high - low)
<1>1. c \in Nat /\ c <= b /\ low \in Nat
  BY Percentages DEF AtMost
<1> HIDE DEF c, low
<1>2. c * (high - low) >= 0 /\ c * (high - low) <= b * (high - low)
  <2> DEFINE d == high - low
  <2>1. d \in Nat
    BY <1>1 DEF low
  <2> HIDE DEF d
  <2>2. c * d >= 0 /\ c * d <= b * d
    BY <1>1, <2>1
  <2>3. c * (high - low) = c * d /\ b * (high - low) = b * d
    BY DEF d
  <2> QED
    BY <2>2, <2>3
<1>3. x \in Int /\ low * b <= x /\ x <= high * b
  BY <1>1, <1>2
<1> HIDE DEF x
<1>4. low \in Int
  BY <1>1
<1>5. Round(x, b) \in low..high
  BY <1>3, <1>4, RoundBounds, Zenon
<1> QED
  BY <1>5 DEF Derated, x, c, low

\* A memory cost never asks for less than the minimum or more than the target.
LEMMA EffectiveRange ==
    ASSUME NEW m \in Nat PROVE EffectivePct(m) \in LowPct..HighPct
<1>1. CASE m <= ReferenceM
  BY <1>1, Percentages DEF EffectivePct
<1>2. CASE ~(m <= ReferenceM)
  <2> DEFINE a == 100 * (m - ReferenceM)
             b == ReferenceM * (AtLeast(101, FullRatioPct) - 100)
  <2>1. a \in Nat
    BY <1>2, PowerSettings
  <2>2. AtLeast(101, FullRatioPct) - 100 \in Nat \ {0}
    BY PowerSettings DEF AtLeast
  <2>3. \A i, j \in Nat \ {0} : i * j \in Nat \ {0}
    OBVIOUS
  <2>4. b \in Nat \ {0}
    BY <2>2, <2>3, PowerSettings
  <2> HIDE DEF a, b
  <2>5. Derated(HighPct, a, b) \in LowPct..HighPct
    BY <2>1, <2>4, Percentages, DeratedRange
  <2> QED
    BY <2>5, <1>2 DEF EffectivePct, a, b
<1> QED
  BY <1>1, <1>2

\* The heat of the two sensors is a fraction with a positive denominator.
LEMMA HeatIsFraction ==
    ASSUME NEW t \in Nat, NEW warn \in Nat, NEW max \in Nat
    PROVE  Heat(t, warn, max) \in Nat \X (Nat \ {0})
<1>1. AtLeast(1, max - warn) \in Nat \ {0}
  BY DEF AtLeast
<1> QED
  BY <1>1 DEF Heat

\* The tick asks for a whole percentage.
LEMMA HeatPctIsInteger ==
    ASSUME NEW pct \in LowPct..HighPct, NEW gpu \in Nat, NEW mem \in Nat
    PROVE  HeatPct(pct, gpu, mem) \in Int
<1> DEFINE die == Heat(gpu, WarnC, MaxC)
           junction == Heat(mem, WarnMemC, MaxMemC)
           heat == IF mem > 0 THEN Hotter(die, junction) ELSE die
<1>1. die \in Nat \X (Nat \ {0}) /\ junction \in Nat \X (Nat \ {0})
  BY PowerSettings, HeatIsFraction
<1>2. heat \in Nat \X (Nat \ {0})
  BY <1>1 DEF Hotter
<1> HIDE DEF heat
<1>3. heat[1] \in Nat /\ heat[2] \in Nat \ {0}
  BY <1>2
<1>4. pct \in Int /\ LowPct <= pct /\ LowPct \in Int
  BY Percentages
<1>5. Derated(pct, heat[1], heat[2]) \in LowPct..pct
  BY <1>3, <1>4, DeratedRange
<1> QED
  BY <1>4, <1>5 DEF HeatPct, heat

-----------------------------------------------------------------------------
(* The lock.                                                               *)

\* A process has a file exactly where it should; who holds flock on an inode has
\* that inode open; and every open file is the one that the path names, unless
\* it was removed.
FilesInv ==
    /\ \A p \in Procs : p > starts => pc[p] = "off"
    /\ \A p \in Procs : fd[p] # None <=> pc[p] \in Holding \cup {"opened"}
    /\ \A p \in Procs : pc[p] \in Holding => owner[fd[p]] = p
    /\ \A i \in Inodes : owner[i] # None => pc[owner[i]] \in Holding /\ fd[owner[i]] = i
    /\ \A p \in Procs : fd[p] # None => fd[p] = path \/ fd[p] \in lost

\* Where a process has not yet set the limit.
Before == {"off", "built", "opened", "locked", "starting"}

\* As long as nothing was killed and no lock file lost: the limit is changed only
\* while a process mines or finalizes, which remembers the one to give back.
PowerInv ==
    /\ \A p \in Procs : pc[p] \in Before => original[p] = None
    /\ ~killed /\ lost = {} =>
        /\ \A p \in Procs : pc[p] = "mine" => original[p] = StockMw
        /\ \A p \in Procs : pc[p] = "finalize" => original[p] \in {None, StockMw}
        /\ limit # StockMw => \E p \in Procs : /\ pc[p] \in {"mine", "finalize"}
                                               /\ original[p] = StockMw

Inv == TypeOK /\ FilesInv /\ PowerInv

\* Two holders have two files, one of which the path does not name.
LEMMA HolderAlone == TypeOK /\ FilesInv => LockHolderAlone
<1> SUFFICES ASSUME TypeOK, FilesInv,
                    NEW p \in Procs, NEW q \in Procs, p # q,
                    pc[p] \in Holding, pc[q] \in Holding,
                    fd[p] \notin lost, fd[q] \notin lost
             PROVE  FALSE
  BY DEF LockHolderAlone
<1>1. fd[p] = path /\ fd[q] = path
  BY DEF FilesInv
<1> QED
  BY <1>1 DEF FilesInv

-----------------------------------------------------------------------------
(* The steps.                                                              *)

\* One step of process p.
Acts(p) ==
    \/ Step(p) \/ Construct(p) \/ MaxSeconds(p) \/ Signal(p) \/ Kill(p)
    \/ \E m \in Ms : SetDifficulty(p, m)
    \/ \E gpu \in GpuTemps, mem \in MemTemps : Tick(p, gpu, mem)

LEMMA GoneTypes ==
    ASSUME TypeOK, NEW p \in Procs, Gone(p)
    PROVE  /\ pc' \in [Procs -> Places] /\ running' \in [Procs -> BOOLEAN]
           /\ fd' \in [Procs -> Inodes \cup {None}]
           /\ owner' \in [Inodes -> Procs \cup {None}]
           /\ limit' \in MinMw..MaxMw
           /\ original' \in [Procs -> (MinMw..MaxMw) \cup {None}]
           /\ target' \in [Procs -> LowPct..HighPct]
           /\ starts' \in 0..MaxStarts
<1>1. HighPct \in LowPct..HighPct
  BY Percentages
<1> QED
  BY <1>1 DEF TypeOK, Gone, Go, Places

LEMMA TypeStep ==
    ASSUME TypeOK, FilesInv, NEW p \in Procs, Acts(p) PROVE TypeOK'
<1> USE DEF TypeOK, Go, Places, lock, power, history
<1>1. CASE Construct(p)
  BY <1>1, LifecycleAssumption DEF Construct, Procs
<1>2. CASE Open(p)
  BY <1>2 DEF Open, Inodes
<1>3. CASE Flock(p)
  <2>1. CASE UNCHANGED <<running, fd, power, starts>> /\ owner' = [owner EXCEPT ![fd[p]] = p]
             /\ Go(p, "locked")
    BY <1>3, <2>1 DEF Flock
  <2>2. CASE Gone(p)
    BY <1>3, <2>2, GoneTypes DEF Flock
  <2> QED
    BY <1>3, <2>1, <2>2 DEF Flock
<1>4. CASE NoAddress(p) \/ RunBegin(p) \/ EngineFails(p) \/ LoopEnds(p) \/ MaxSeconds(p)
           \/ Signal(p)
  BY <1>4 DEF NoAddress, RunBegin, EngineFails, LoopEnds, MaxSeconds, Signal
<1>5. CASE EngineStarted(p)
  <2>1. target[p] \in Int
    BY Percentages
  <2>2. Limit(target[p]) \in MinMw..MaxMw
    BY <2>1, LimitRange
  <2> QED
    BY <1>5, <2>2 DEF EngineStarted, ApplyPower
<1>6. CASE Restore(p)
  BY <1>6 DEF Restore, None
<1>7. CASE Unlock(p)
  BY <1>7 DEF Unlock
<1>8. CASE Remove(p)
  <2>1. lost' \in SUBSET Inodes
    BY <1>8, PowerSettings DEF Remove, None, Inodes, Procs
  <2> QED
    BY <1>8, <2>1, GoneTypes DEF Remove
<1>9. CASE Kill(p)
  BY <1>9, GoneTypes DEF Kill
<1>10. ASSUME NEW m \in Ms, SetDifficulty(p, m) PROVE TypeOK'
  <2>1. EffectivePct(m) \in LowPct..HighPct
    BY EffectiveRange, LifecycleAssumption
  <2> QED
    BY <1>10, <2>1 DEF SetDifficulty
<1>11. ASSUME NEW gpu \in GpuTemps, NEW mem \in MemTemps, Tick(p, gpu, mem) PROVE TypeOK'
  <2>1. HeatPct(target[p], gpu, mem) \in Int
    BY HeatPctIsInteger, LifecycleAssumption
  <2>2. Limit(HeatPct(target[p], gpu, mem)) \in MinMw..MaxMw
    BY <2>1, LimitRange
  <2> QED
    BY <1>11, <2>2 DEF Tick
<1> QED
  BY <1>1, <1>2, <1>3, <1>4, <1>5, <1>6, <1>7, <1>8, <1>9, <1>10, <1>11 DEF Acts, Step

\* The steps that touch no file: a holder stays a holder.
LEMMA FilesQuiet ==
    ASSUME TypeOK, FilesInv, UNCHANGED <<path, fd, owner, lost, starts>>, NEW p \in Procs,
           NEW place \in Places, Go(p, place) \/ UNCHANGED pc,
           pc[p] \in Holding, place \in Holding
    PROVE  FilesInv'
BY DEF TypeOK, FilesInv, Go, Holding

\* The end of a process leaves the files of the others.
LEMMA FilesGone ==
    ASSUME TypeOK, FilesInv, NEW p \in Procs, Gone(p), lost \subseteq lost',
           \A q \in Procs : q # p /\ fd[q] # None => fd[q] = path' \/ fd[q] \in lost'
    PROVE  FilesInv'
<1> USE DEF TypeOK, Gone, Go, Holding, Inodes
<1>1. \A q \in Procs : q # p => pc'[q] = pc[q] /\ fd'[q] = fd[q]
  OBVIOUS
<1>2. pc'[p] = "off" /\ fd'[p] = None /\ starts' = starts
  OBVIOUS
<1>3. \A i \in Inodes : owner'[i] = IF owner[i] = p THEN None ELSE owner[i]
  OBVIOUS
<1> QED
  BY <1>1, <1>2, <1>3 DEF FilesInv

LEMMA FilesStep ==
    ASSUME TypeOK, FilesInv, NEW p \in Procs, Acts(p) PROVE FilesInv'
<1> USE DEF lock, power, history
<1>1. CASE Construct(p)
  <2>1. pc[p] = "off" /\ fd[p] = None
    BY <1>1, LifecycleAssumption DEF Construct, FilesInv, Procs, TypeOK, Holding
  <2> QED
    BY <1>1, <2>1 DEF Construct, FilesInv, Go, Procs, TypeOK, Holding
<1>2. CASE Open(p)
  <2>1. pc[p] = "built" /\ fd[p] = None /\ path' # None /\ (path # None => path' = path)
    BY <1>2 DEF Open, FilesInv, Holding, Procs, None
  <2>2. /\ pc' = [pc EXCEPT ![p] = "opened"] /\ fd' = [fd EXCEPT ![p] = path']
        /\ UNCHANGED <<owner, lost, starts>>
    BY <1>2 DEF Open, Go
  <2>3. p <= starts
    BY <2>1 DEF FilesInv, TypeOK, Procs
  <2> QED
    BY <2>1, <2>2, <2>3 DEF FilesInv, TypeOK, Holding
<1>3. CASE Flock(p)
  <2>1. CASE Gone(p)
    BY <1>3, <2>1, FilesGone DEF Flock, FilesInv
  <2>2. CASE /\ owner[fd[p]] = None
             /\ owner' = [owner EXCEPT ![fd[p]] = p]
             /\ Go(p, "locked")
             /\ UNCHANGED <<running, fd, power, starts>>
    <3>1. pc[p] = "opened" /\ fd[p] \in Inodes /\ UNCHANGED <<path, lost>>
      BY <1>3 DEF Flock, FilesInv, TypeOK, Holding
    <3>2. \A q \in Procs : pc[q] \in Holding => fd[q] # fd[p]
      BY <2>2, <3>1 DEF FilesInv, None, Procs
    <3> QED
      BY <2>2, <3>1, <3>2 DEF FilesInv, TypeOK, Go, Holding
  <2> QED
    BY <1>3, <2>1, <2>2 DEF Flock
<1>4. CASE NoAddress(p) \/ RunBegin(p) \/ EngineFails(p) \/ LoopEnds(p) \/ MaxSeconds(p)
           \/ EngineStarted(p) \/ Restore(p)
  BY <1>4, FilesQuiet DEF NoAddress, RunBegin, EngineFails, LoopEnds, MaxSeconds,
     EngineStarted, Restore, Places, Holding
<1>5. CASE Signal(p)
  BY <1>5 DEF Signal, FilesInv
<1>6. CASE Unlock(p)
  <2>1. pc[p] = "restored" /\ fd[p] \in Inodes /\ owner[fd[p]] = p
    BY <1>6 DEF Unlock, FilesInv, TypeOK, Holding
  <2>2. \A q \in Procs : q # p /\ pc[q] \in Holding => fd[q] # fd[p]
    BY <2>1 DEF FilesInv
  <2>3. /\ pc' = [pc EXCEPT ![p] = "unlocked"] /\ fd' = [fd EXCEPT ![p] = None]
        /\ owner' = [owner EXCEPT ![fd[p]] = None]
        /\ UNCHANGED <<path, lost, starts>>
    BY <1>6 DEF Unlock, Go
  <2> QED
    BY <2>1, <2>2, <2>3 DEF FilesInv, TypeOK, Holding
<1>7. CASE Remove(p)
  <2>1. \A q \in Procs : fd[q] # None => fd[q] \in lost'
    BY <1>7 DEF Remove, FilesInv
  <2> QED
    BY <1>7, <2>1, FilesGone DEF Remove
<1>8. CASE Kill(p)
  BY <1>8, FilesGone DEF Kill, FilesInv
<1>9. ASSUME NEW m \in Ms, SetDifficulty(p, m) PROVE FilesInv'
  BY <1>9 DEF SetDifficulty, FilesInv
<1>10. ASSUME NEW gpu \in GpuTemps, NEW mem \in MemTemps, Tick(p, gpu, mem) PROVE FilesInv'
  BY <1>10 DEF Tick, FilesInv
<1> QED
  BY <1>1, <1>2, <1>3, <1>4, <1>5, <1>6, <1>7, <1>8, <1>9, <1>10 DEF Acts, Step

\* Where the limit may differ from the stock one.
Powered == {"mine", "finalize"}

\* While p starts, ends or works nobody else has changed the limit.
LEMMA OthersLeavePower ==
    ASSUME TypeOK, FilesInv, PowerInv, ~killed, lost = {},
           NEW p \in Procs, pc[p] \in Holding, NEW q \in Procs, pc[q] \in Powered
    PROVE  q = p
BY HolderAlone DEF LockHolderAlone, Holding, Powered

\* A step that moves p among the other places, with the limit and what p
\* remembers unchanged or forgotten.
LEMMA PowerQuiet ==
    ASSUME TypeOK, PowerInv, NEW p \in Procs, NEW place \in Places, Go(p, place),
           pc[p] \notin Powered, place \notin Powered,
           limit' = limit, original' \in {original, [original EXCEPT ![p] = None]},
           place \in Before => original'[p] = None,
           ~killed' /\ lost' = {} => ~killed /\ lost = {}
    PROVE  PowerInv'
<1>1. \A q \in Procs : q # p => pc'[q] = pc[q] /\ original'[q] = original[q]
  BY DEF TypeOK, Go
<1>2. pc'[p] = place
  BY DEF TypeOK, Go
<1> QED
  BY <1>1, <1>2 DEF PowerInv, Powered

LEMMA PowerStep ==
    ASSUME Inv, NEW p \in Procs, Acts(p) PROVE PowerInv'
<1> USE DEF lock, power, history, Inv
<1>1. CASE Construct(p) \/ Open(p) \/ RunBegin(p) \/ Unlock(p)
  <2> DEFINE place == IF Construct(p) THEN "built" ELSE IF Open(p) THEN "opened"
                      ELSE IF RunBegin(p) THEN "starting" ELSE "unlocked"
  <2>1. Go(p, place) /\ UNCHANGED <<limit, original, killed, lost>>
    BY <1>1 DEF Construct, Open, RunBegin, Unlock
  <2>2. /\ pc[p] \notin Powered
        /\ place \in Before => pc[p] \in Before
    BY <1>1, LifecycleAssumption
    DEF Construct, Open, RunBegin, Unlock, Powered, Before, FilesInv, Procs, TypeOK
  <2>3. place \in Places /\ place \notin Powered
    BY DEF Places, Powered
  <2> HIDE DEF place
  <2>4. place \in Before => original'[p] = None
    BY <2>1, <2>2 DEF PowerInv
  <2> QED
    BY <2>1, <2>2, <2>3, <2>4, PowerQuiet
<1>2. CASE Kill(p)
  BY <1>2 DEF Kill, Gone, Go, PowerInv, TypeOK, Before
<1>3. CASE Remove(p) \/ (Flock(p) /\ Gone(p))
  <2>1. Gone(p) /\ pc[p] \notin Powered /\ killed' = killed /\ lost \subseteq lost'
    BY <1>3 DEF Remove, Flock, Powered
  <2>2. Go(p, "off") /\ limit' = limit /\ original' = [original EXCEPT ![p] = None]
    BY <2>1 DEF Gone
  <2>3. original'[p] = None
    BY <2>2 DEF TypeOK
  <2> QED
    BY <2>1, <2>2, <2>3, PowerQuiet DEF Places, Powered
<1>4. CASE Flock(p) /\ ~Gone(p)
  BY <1>4, PowerQuiet DEF Flock, Places, Powered, PowerInv, Before
<1>5. CASE NoAddress(p) \/ EngineFails(p)
  <2>1. /\ pc[p] \in Before /\ pc' = [pc EXCEPT ![p] = "finalize"]
        /\ UNCHANGED <<limit, original, killed, lost>>
    BY <1>5 DEF NoAddress, EngineFails, Go, Before
  <2>2. original[p] = None /\ pc[p] \notin {"mine", "finalize"}
    BY <2>1 DEF PowerInv, Before
  <2> QED
    BY <2>1, <2>2 DEF PowerInv, TypeOK, Before
<1>6. CASE EngineStarted(p)
  <2>1. /\ pc[p] = "starting" /\ pc' = [pc EXCEPT ![p] = "mine"]
        /\ original' = [original EXCEPT ![p] = limit]
        /\ UNCHANGED <<killed, lost>>
    BY <1>6 DEF EngineStarted, ApplyPower, Go
  <2>2. \A q \in Procs : pc'[q] \in Before => original'[q] = None
    BY <2>1 DEF PowerInv, TypeOK, Before
  <2>3. SUFFICES ASSUME ~killed, lost = {}
                 PROVE  /\ \A q \in Procs : pc'[q] = "mine" => original'[q] = StockMw
                        /\ \A q \in Procs : pc'[q] = "finalize" =>
                                            original'[q] \in {None, StockMw}
                        /\ \E q \in Procs : /\ pc'[q] \in {"mine", "finalize"}
                                            /\ original'[q] = StockMw
    BY <2>1, <2>2 DEF PowerInv
  <2>4. limit = StockMw
    BY <2>1, <2>3, OthersLeavePower DEF PowerInv, Holding, Powered
  <2> QED
    BY <2>1, <2>3, <2>4 DEF PowerInv, TypeOK
<1>7. CASE LoopEnds(p) \/ MaxSeconds(p)
  BY <1>7 DEF LoopEnds, MaxSeconds, Go, PowerInv, TypeOK, Before
<1>8. CASE Restore(p)
  <2>1. /\ pc[p] = "finalize" /\ pc' = [pc EXCEPT ![p] = "restored"]
        /\ limit' = IF original[p] = None THEN limit ELSE original[p]
        /\ UNCHANGED <<original, killed, lost>>
    BY <1>8 DEF Restore, Go
  <2>2. ~killed /\ lost = {} => limit' = StockMw
    <3> SUFFICES ASSUME ~killed, lost = {} PROVE limit' = StockMw
      OBVIOUS
    <3>1. original[p] \in {None, StockMw}
      BY <2>1 DEF PowerInv
    <3>2. None # StockMw
      BY PowerSettings, LifecycleAssumption DEF None
    <3>3. CASE original[p] = StockMw
      BY <2>1, <3>2, <3>3
    <3>4. CASE original[p] = None
      BY <2>1, <3>2, <3>4, OthersLeavePower DEF PowerInv, Holding, Powered
    <3> QED
      BY <3>1, <3>3, <3>4
  <2> QED
    BY <2>1, <2>2 DEF PowerInv, TypeOK, Before
<1>9. CASE Signal(p)
  BY <1>9 DEF Signal, PowerInv
<1>10. ASSUME NEW m \in Ms, SetDifficulty(p, m) PROVE PowerInv'
  BY <1>10 DEF SetDifficulty, PowerInv
<1>11. ASSUME NEW gpu \in GpuTemps, NEW mem \in MemTemps, Tick(p, gpu, mem) PROVE PowerInv'
  BY <1>11 DEF Tick, PowerInv
<1> QED
  BY <1>1, <1>2, <1>3, <1>4, <1>5, <1>6, <1>7, <1>8, <1>9, <1>10, <1>11 DEF Acts, Step

LEMMA InvInit == Init => Inv
<1> SUFFICES ASSUME Init PROVE Inv
  OBVIOUS
<1>1. TypeOK
  <2>1. HighPct \in LowPct..HighPct /\ 0 \in 0..MaxStarts
    BY Percentages, LifecycleAssumption
  <2> QED
    BY <2>1, LifecycleAssumption DEF Init, TypeOK, Places
<1>2. FilesInv /\ PowerInv
  BY DEF Init, FilesInv, PowerInv, Holding, Before, Procs, Inodes
<1> QED
  BY <1>1, <1>2 DEF Inv

LEMMA InvStep == Inv /\ [Next]_vars => Inv'
<1>1. ASSUME Inv, NEW p \in Procs, Acts(p) PROVE Inv'
  BY <1>1, TypeStep, FilesStep, PowerStep DEF Inv
<1>2. ASSUME Inv, UNCHANGED vars PROVE Inv'
  BY <1>2 DEF Inv, TypeOK, FilesInv, PowerInv, vars, lock, power, history
<1> QED
  BY <1>1, <1>2 DEF Next, Acts

LEMMA Invariant == Spec => []Inv
BY InvInit, InvStep, PTL DEF Spec

\* The limit is always one the driver allows and the target between its bounds, for
\* any settings, difficulties and temperatures.
THEOREM TypeCorrect == Spec => []TypeOK
BY Invariant, PTL DEF Inv

\* Two processes hold the lock only after a lock file was removed under one of
\* them, however many are started, stopped and killed.
THEOREM OneHolder == Spec => []LockHolderAlone
<1>1. Inv => LockHolderAlone
  BY HolderAlone DEF Inv
<1> QED
  BY <1>1, Invariant, PTL

\* Sessions that are not killed and keep their lock give the card's limit back.
THEOREM PowerGivenBack == Spec => []LimitRestored
<1>1. Inv => LimitRestored
  BY DEF Inv, PowerInv, LimitRestored
<1> QED
  BY <1>1, Invariant, PTL
=============================================================================
