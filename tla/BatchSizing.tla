----------------------------- MODULE BatchSizing -----------------------------
(***************************************************************************)
(* How big a batch the card is given: CudaEngine's plan and thermal hunt   *)
(* (mining/cuda_engine.cpp, efficiency/thermal_policy.cpp) as the mining   *)
(* thread drives them - gpu_safety_tick, the cooldown after a VRAM         *)
(* emergency and the restart in Supervisor::run.                           *)
(*                                                                         *)
(* One step is one round of that thread's loop; nobody else touches this   *)
(* state.  Around it the card's temperatures, the memory other programs    *)
(* hold, the network difficulty and the driver's health change at will.    *)
(* Time is not counted: whether the settle time is over when a reading     *)
(* comes is a choice, and so is when a cooldown ends.                      *)
(*                                                                         *)
(* note_vram_emergency and set_occupied_vram_mib do nothing in this code;  *)
(* set_thermal_batch_scale, the lane caps and                              *)
(* restore_lane_cap_if_cool are not reached from the loop.                 *)
(***************************************************************************)
EXTENDS VramPlan

CONSTANTS
    MinScalePct, StartScalePct,    \* gpu_thermal_batch_min_scale, ..._start_scale
    BatchStep,                     \* thermal_batch_step
    TargetC, CapC, GpuCapC,        \* warn_mem_temp_c, max_mem_temp_c, max_gpu_temp_c
    GpuTemps, MemTemps,            \* readings; 0 of the junction is "no reading"
    OthersMib                      \* memory other programs may hold

ASSUME HuntSettings ==
    /\ MinScalePct \in 20..100 /\ StartScalePct \in 50..100
    /\ BatchStep \in Nat \ {0}
    /\ TargetC \in Nat /\ TargetC >= 40 /\ CapC \in Nat /\ CapC > TargetC
    /\ GpuCapC \in Nat
    /\ GpuTemps \subseteq Nat /\ MemTemps \subseteq Nat /\ OthersMib \subseteq Nat

VARIABLES
    m,          \* difficulty_
    running,    \* started_
    plan,       \* vram_plan_ with planned_batch_per_lane_: m, lanes, batch
    batch,      \* batch_per_lane_
    scale,      \* thermal_batch_scale_, a fraction <<a, b>>
    hunt,       \* thermal_hunt_
    idle,       \* thermal_idle_ms_
    cooling,    \* now < cooldown_until_
    others,     \* memory that other programs hold
    netM,       \* the difficulty the engine is to follow
    cudaOk      \* starting the engine succeeds

vars == <<m, running, plan, batch, scale, hunt, idle, cooling, others, netM, cudaOk>>
environment == <<others, netM, cudaOk>>

NoPlan == [m |-> 0, lanes |-> 1, batch |-> 0]
NoHunt == [batch |-> 0, seen |-> FALSE, temp |-> 0, floor |-> 0, ok |-> 0]

-----------------------------------------------------------------------------
(* The hunt: hunt_thermal_scale.                                           *)

\* apply_batch_scale
Scaled(n, f) == IF n <= 0 THEN 0 ELSE AtLeast(1, Round(n * f[1], f[2]))

MinBatch(planned) ==
    AtMost(AtLeast(BatchStep, Scaled(planned, <<MinScalePct, 100>>)), planned)

\* The junction if it reads, and the die once it is over its own cap and hotter.
Control(gpu, mem) ==
    LET c == IF mem > 0 THEN mem ELSE gpu IN
    IF GpuCapC > 0 /\ gpu >= GpuCapC /\ gpu > c THEN gpu ELSE c

Controls == {Control(gpu, mem) : gpu \in GpuTemps, mem \in MemTemps}

\* A drop by 12 degrees from the target or above is taken for a misreading.
Believed(last, c) == IF last >= TargetC /\ c > 0 /\ last - c >= 12 THEN last ELSE c

\* The first tick after a replan takes the start scale.
HuntBegun(planned) ==
    LET start == Scaled(planned, <<StartScalePct, 100>>) IN
    [NoHunt EXCEPT !.batch = start, !.floor = start, !.ok = start]

\* The clamps at the top of hunt_thermal_scale.
Normal(h, planned) ==
    [h EXCEPT !.batch = Clamp(@, MinBatch(planned), planned)]

Cool(h, temp) == temp <= TargetC /\ (h.temp > 0 => temp <= h.temp)
Hot(h, temp) == \/ temp >= CapC \/ temp >= TargetC + 2
                \/ temp >= TargetC /\ h.temp > 0 /\ temp > h.temp

\* Mutant: a raise is not held below the planned batch.
AppliedUnlimited(h, next, planned, settled) ==
    IF settled THEN AtLeast(next, MinBatch(planned)) ELSE h.batch

\* apply: nothing moves within the settle time.
Applied(h, next, planned, settled) ==
    IF settled THEN Clamp(next, MinBatch(planned), planned) ELSE h.batch

\* Mutant: a cut goes to the last good batch, wherever the floor is.
CutToLastOk(h, planned) == AtMost(AtLeast(h.ok, MinBatch(planned)), h.batch)

\* The batch a hot reading asks for: the last good one, or a step less, but
\* above the floor.
CutTo(h, planned) ==
    LET above(n) == IF n <= h.floor THEN h.floor + BatchStep ELSE n
        ok == above(h.ok)
        drop == above(IF ok >= h.batch THEN h.batch - BatchStep ELSE ok)
    IN  AtMost(AtLeast(drop, MinBatch(planned)), h.batch)

\* The floor rises to the batch also when apply did not move it.
Judged(h, temp, planned, settled) ==
    IF Cool(h, temp)
    THEN [h EXCEPT !.ok = h.batch,
                   !.batch = Applied(h, h.batch + BatchStep, planned, settled)]
    ELSE IF Hot(h, temp) /\ CutTo(h, planned) # h.batch
    THEN LET cut == Applied(h, CutTo(h, planned), planned, settled) IN
         [h EXCEPT !.batch = cut, !.floor = AtLeast(h.floor, cut)]
    ELSE h

\* Mutant: the idle time grows with the heat without a bound.
IdleUnbounded(temp) == IF temp >= TargetC THEN 12 * (temp - TargetC + 1) ELSE 0

IdleFor(temp) == IF temp >= TargetC THEN AtMost(80, 12 * (temp - TargetC + 1)) ELSE 0

\* The first reading only starts the observation; after that the settle time may
\* or may not be over.
HuntSteps(was, temp, planned) ==
    LET h == Normal(was, planned)
        floored == [h EXCEPT !.floor = AtLeast(@, MinBatch(planned))]
    IN  IF h.seen
        THEN {[Judged(floored, temp, planned, settled) EXCEPT !.temp = temp] :
              settled \in BOOLEAN}
        ELSE {[h EXCEPT !.seen = TRUE, !.temp = temp]}

-----------------------------------------------------------------------------
(* The engine.                                                             *)

\* Mutant: replan keeps the batch that the last plan gave.
ReplanKeepsBatch(d, s) ==
    /\ plan' = Plan[d]
    /\ batch' = AtLeast(batch, Scaled(Plan[d].batch, s))
    /\ hunt' = NoHunt /\ idle' = 0
    /\ m' = d /\ scale' = s

\* replan: a new plan at the scale the hunt left behind; the hunt starts over.
Replan(d, s) ==
    /\ plan' = Plan[d]
    /\ batch' = Scaled(Plan[d].batch, s)
    /\ hunt' = NoHunt /\ idle' = 0
    /\ m' = d /\ scale' = s

\* update_thermal_batch_from_temp: what it may leave behind.
Updates ==
    LET begins == hunt.batch <= 0
        was == IF begins THEN HuntBegun(plan.batch) ELSE hunt
        outcome(h, temp, new) ==
            [hunt |-> new,
             idle |-> IF h.seen THEN IdleFor(temp) ELSE 0,
             scale |-> IF new.batch # h.batch THEN <<new.batch, plan.batch>>
                       ELSE IF begins THEN <<StartScalePct, 100>> ELSE scale]
    IN  UNION {{outcome(h, temp, new) : new \in HuntSteps(h, temp, plan.batch)} :
               h \in {was}, temp \in {Believed(was.temp, c) : c \in Controls}}

Update(u) ==
    /\ hunt' = u.hunt /\ batch' = u.hunt.batch
    /\ idle' = u.idle /\ scale' = u.scale

\* One lane works in an arena for the planned batch, several in one for theirs.
Arena == IF plan.lanes = 1 THEN AtLeast(plan.batch, batch) ELSE batch

\* What the driver reports as used.
InUse == others + (IF running THEN UsedMib(Arena, plan.lanes, m) ELSE 0)

-----------------------------------------------------------------------------
(* The rounds of the mining thread.                                        *)

\* refresh_network with replan_engine: set_difficulty of a running engine.  When
\* the plan throws only difficulty_ is set, and the exception is logged.
FollowNetwork ==
    /\ running /\ netM # m
    /\ \/ netM \in Plannable /\ Replan(netM, scale)
       \/ netM \notin Plannable /\ m' = netM /\ UNCHANGED <<plan, batch, hunt, idle, scale>>
    /\ UNCHANGED <<running, cooling, environment>>

\* gpu_safety_tick finds too much memory in use: the engine stops for a while.
VramEmergency(u) ==
    /\ ~cooling
    /\ InUse >= Emergency
    /\ Update(u)
    /\ running' = FALSE /\ cooling' = TRUE
    /\ UNCHANGED <<m, plan, environment>>

\* An ordinary round: the hunt moves, then the running engine mines.
MineRound(u) ==
    /\ ~cooling /\ running
    /\ InUse < Emergency
    /\ Update(u)
    /\ UNCHANGED <<m, running, plan, cooling, environment>>

\* Mutant: only the cooldown starts an engine that an emergency stopped.
NoRestart(s) == running /\ Replan(m, s) /\ UNCHANGED <<running, cooling, environment>>

\* start() at the difficulty the engine knows, in a round that finds it stopped.
StartStopped(s) ==
    /\ ~running /\ running' = TRUE
    /\ Replan(m, s)
    /\ UNCHANGED <<cooling, environment>>

\* Without a reading gpu_safety_tick lets the round go on; with one the hunt has
\* moved before.
Restart ==
    /\ ~cooling /\ ~running
    /\ m \in Plannable /\ cudaOk
    /\ \/ StartStopped(scale)
       \/ InUse < Emergency /\ \E u \in Updates : StartStopped(u.scale)

\* The start fails, which is logged, and the round is over.
StartFails(u) ==
    /\ ~cooling /\ ~running
    /\ InUse < Emergency
    /\ m \notin Plannable \/ ~cudaOk
    /\ Update(u)
    /\ UNCHANGED <<m, running, plan, cooling, environment>>

\* mine_batch throws CUDA error 700: stop, reset the device, cool down.
MineFails ==
    /\ ~cooling /\ running /\ ~cudaOk
    /\ running' = FALSE /\ cooling' = TRUE
    /\ UNCHANGED <<m, plan, batch, scale, hunt, idle, environment>>

\* The cooldown runs out: start at the known difficulty, then take the network's.
\* When that throws, the engine is up and the cooldown starts again.
CooldownRestart ==
    /\ cooling /\ ~running
    /\ m \in Plannable /\ cudaOk
    /\ running' = TRUE
    /\ \/ netM \in Plannable /\ Replan(netM, scale) /\ cooling' = FALSE
       \/ /\ netM \notin Plannable
          /\ plan' = Plan[m] /\ batch' = Scaled(Plan[m].batch, scale)
          /\ hunt' = NoHunt /\ idle' = 0 /\ m' = netM
          /\ UNCHANGED <<scale, cooling>>
    /\ UNCHANGED environment

\* It runs out between two rounds, or with the engine already up.
CooldownPasses ==
    /\ cooling
    /\ cooling' = FALSE
    /\ UNCHANGED <<m, running, plan, batch, scale, hunt, idle, environment>>

Rounds ==
    \/ \E u \in Updates : VramEmergency(u) \/ MineRound(u) \/ StartFails(u)
    \/ Restart \/ FollowNetwork \/ MineFails
    \/ CooldownRestart \/ CooldownPasses

-----------------------------------------------------------------------------
(* Around the miner.                                                       *)

OthersMove == /\ others' \in OthersMib \ {others}
              /\ UNCHANGED <<m, running, plan, batch, scale, hunt, idle, cooling,
                             netM, cudaOk>>
NetworkMoves == /\ netM' \in Ms \ {netM}
                /\ UNCHANGED <<m, running, plan, batch, scale, hunt, idle, cooling,
                               others, cudaOk>>
DriverMoves == /\ cudaOk' = ~cudaOk
               /\ UNCHANGED <<m, running, plan, batch, scale, hunt, idle, cooling,
                              others, netM>>

\* run() has started the engine, at full scale.
Init ==
    /\ netM \in Plannable
    /\ m = netM /\ plan = Plan[netM] /\ batch = plan.batch
    /\ running = TRUE /\ cooling = FALSE
    /\ scale = <<1, 1>> /\ hunt = NoHunt /\ idle = 0
    /\ others \in OthersMib /\ cudaOk = TRUE

Next == Rounds \/ OthersMove \/ NetworkMoves \/ DriverMoves

\* The loop of run() goes round: a cooldown ends, and a round that finds the
\* engine stopped is not put off for ever.
Spec == Init /\ [][Next]_vars /\ WF_vars(CooldownPasses) /\ WF_vars(Restart)

-----------------------------------------------------------------------------
(* Properties.                                                             *)

Hunt == [batch : Nat, seen : BOOLEAN, temp : Nat, floor : Nat, ok : Nat]
Plans == [m : Ms, lanes : Nat \ {0}, batch : Nat \ {0}]

\* Types of the variables: there is always a plan that gives some work, and the
\* scale is a fraction of at most 1.
TypeOK ==
    /\ m \in Ms /\ netM \in Ms
    /\ {running, cooling, cudaOk} \subseteq BOOLEAN
    /\ plan \in Plans
    /\ batch \in Nat \ {0}
    /\ scale \in (Nat \ {0}) \X (Nat \ {0}) /\ scale[1] <= scale[2]
    /\ hunt \in Hunt
    /\ idle \in 0..80
    /\ others \in OthersMib

\* What the hunt of update_thermal_batch_from_temp believes is what the engine
\* hashes, and it stays between its rising floor and the plan - over
\* misread, missing and jumping temperatures, replans and restarts.
BatchInPlan ==
    /\ batch <= plan.batch
    /\ hunt.batch > 0 => /\ hunt.batch = batch
                         /\ hunt.floor <= AtLeast(batch, MinBatch(plan.batch))
                         /\ hunt.ok <= plan.batch

\* The memory the engine takes, whatever replans, hunts, emergencies and restarts
\* came before, leaves the caps of resolve_vram_caps alone - unless the network
\* asked for a difficulty that cannot be planned, whose exception leaves
\* the batch of the plan before it.
PackFitsCaps == running /\ m = plan.m => Fits(Arena, plan.lanes, m)

\* "Cuts never go to or below this [floor]" (thermal_policy.hpp): within one hunt
\* a smaller batch is above the floor, and the floor never sinks.
CutsStayAboveFloor ==
    [][hunt.seen /\ hunt'.seen =>
         /\ batch' < batch => batch' > hunt.floor
         /\ hunt'.floor >= hunt.floor]_vars

\* After VRAM emergencies and failures the card mines again for ever, once other
\* programs leave it the memory above its target and the driver works,
\* provided every difficulty the network asks for can be planned.
MiningComesBack ==
    /\ [](netM \in Plannable)
    /\ <>[](cudaOk /\ others + Target < Emergency)
    => []<>(running /\ ~cooling)
=============================================================================
