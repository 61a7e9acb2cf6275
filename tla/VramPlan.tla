------------------------------- MODULE VramPlan -------------------------------
(***************************************************************************)
(* How much video memory the miner allows itself and how many attempts fit *)
(* in it: resolve_vram_caps (efficiency/vram_policy.cpp) and               *)
(* plan_cuda_batch (mining/vram_batch.cpp).                                *)
(*                                                                         *)
(* Sizes are whole MiB as in the code; BytesPerMib and the cost of an      *)
(* attempt are parameters, so that the factor 1024 * 1.001 per unit of     *)
(* memory cost, a double, is part of the latter.  The 100 MiB that         *)
(* select_batch_size adds and memory_limited_batch_size takes off again    *)
(* cancel out.                                                             *)
(***************************************************************************)
EXTENDS Integers

CONSTANTS
    Ms,              \* memory costs ("difficulties")
    BytesPerMib,     \* 1024 * 1024
    AttemptBytes,    \* bytes_per_attempt of each of Ms
    TotalMib,        \* the card's memory
    TargetPct, HeadroomPct, EmergencyPct, OverheadPct,   \* [efficiency], in percent
    TargetMib, HeadroomMib, EmergencyMib, OverheadMib,   \* overrides, 0 is none
    OverheadFloorMib,
    ReferenceM,      \* vram_reference_difficulty
    HarvestM,        \* HARVEST_DIFFICULTY
    MaxLanes,        \* [cuda] max_lanes
    ExplicitBatch, ExplicitMaxBatch,                     \* 0 is automatic
    ShrinkRounds     \* the bound on the loop of clamp_plan_to_caps

ASSUME VramSizes ==
    /\ Ms \subseteq Nat \ {0}
    /\ BytesPerMib \in Nat \ {0}
    /\ AttemptBytes \in [Ms -> Nat \ {0, 1}]     \* m KiB and more
    /\ TotalMib \in Nat \ {0}

ASSUME VramSettings ==
    /\ {TargetPct, HeadroomPct, EmergencyPct, OverheadPct} \subseteq 0..100
    /\ {TargetMib, HeadroomMib, EmergencyMib, OverheadMib, OverheadFloorMib} \subseteq Nat
    /\ ReferenceM \in Nat /\ HarvestM \in Nat
    /\ MaxLanes \in Nat \ {0}
    /\ ExplicitBatch \in Nat /\ ExplicitMaxBatch \in Nat
    /\ ShrinkRounds \in Nat

AtLeast(a, b) == IF a >= b THEN a ELSE b     \* std::max
AtMost(a, b) == IF a <= b THEN a ELSE b      \* std::min
Clamp(v, lo, hi) == AtLeast(lo, AtMost(v, hi))

\* llround(a / b) of naturals: halves go up.
Round(a, b) == (2 * a + b) \div (2 * b)

-----------------------------------------------------------------------------
(* The caps.                                                               *)

Share(override, pct) == IF override > 0 THEN override ELSE Round(TotalMib * pct, 100)

Target == Clamp(Share(TargetMib, TargetPct), 1, TotalMib)
Headroom == Clamp(Share(HeadroomMib, HeadroomPct), 0, TotalMib)

Emergency == Clamp(Share(EmergencyMib, EmergencyPct), Target, TotalMib)
Overhead ==
    Clamp(IF OverheadMib > 0 THEN OverheadMib
          ELSE AtLeast(OverheadFloorMib, Share(0, OverheadPct)), 0, TotalMib)

-----------------------------------------------------------------------------
(* The plan.                                                               *)

\* cuda_lane_count: the harvest cost takes all lanes, a cost below the
\* reference as many as it is cheaper, any other a single one.
LaneCount(m) ==
    IF MaxLanes = 1 THEN 1
    ELSE IF m = HarvestM THEN MaxLanes
    ELSE IF m >= ReferenceM THEN 1
    ELSE AtLeast(1, AtMost(MaxLanes, ReferenceM \div m))

\* select_batch_size with fill_vram_cap: attempts that fit in `bytes`.
SelectBatch(bytes, m, cap) ==
    LET fit == bytes \div AttemptBytes[m] IN
    IF fit > 0 /\ cap > 0 THEN AtMost(fit, cap) ELSE fit

\* project: what the pack takes, what is used with it and what stays free.
PackMib(batch, lanes, m) == (batch * AttemptBytes[m] * lanes) \div BytesPerMib
UsedMib(batch, lanes, m) == PackMib(batch, lanes, m) + Overhead
FreeMib(batch, lanes, m) == AtLeast(0, TotalMib - UsedMib(batch, lanes, m))

\* CudaVramPlan::within_limits.
Fits(batch, lanes, m) ==
    /\ UsedMib(batch, lanes, m) <= Target
    /\ FreeMib(batch, lanes, m) >= Headroom

Budget ==
    AtMost(AtLeast(0, Target - Overhead), AtLeast(0, TotalMib - Headroom - Overhead))
    * BytesPerMib

PerLane(lanes) == AtLeast(1, Budget \div lanes)

FirstPlan(m) ==
    LET lanes == LaneCount(m)
        most == SelectBatch(PerLane(lanes), m, ExplicitMaxBatch) IN
    [m |-> m, lanes |-> lanes,
     batch |-> IF most > 0 /\ ExplicitBatch > 0 THEN AtMost(ExplicitBatch, most) ELSE most]

\* One round of clamp_plan_to_caps: 2% fewer attempts, then a lane less.
Shrink(p) ==
    IF p.batch > 1 THEN [p EXCEPT !.batch = AtLeast(1, (p.batch * 98) \div 100)]
    ELSE IF p.lanes > 1
         THEN [p EXCEPT !.lanes = p.lanes - 1,
                        !.batch = SelectBatch(PerLane(p.lanes - 1), p.m, 0)]
         ELSE p

Shrunk(p) ==
    LET after[n \in 0..ShrinkRounds] == IF n = 0 THEN p ELSE Shrink(after[n - 1])
    IN  after

FitsPlan(p) == Fits(p.batch, p.lanes, p.m)

\* clamp_plan_to_caps: the first round that fits, or else the plan as it was.
ClampToCaps(p) ==
    LET fitting == {n \in 0..ShrinkRounds : FitsPlan(Shrunk(p)[n])} IN
    IF FitsPlan(p) \/ fitting = {} THEN p
    ELSE Shrunk(p)[CHOOSE n \in fitting : \A k \in fitting : n <= k]

\* plan_cuda_batch.
Plan == [m \in Ms |-> ClampToCaps(FirstPlan(m))]

Plannable == {m \in Ms : Plan[m].batch > 0}    \* replan throws otherwise
=============================================================================
