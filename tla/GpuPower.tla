------------------------------- MODULE GpuPower -------------------------------
(***************************************************************************)
(* Which power limit the miner gives the card: GpuPowerBooster             *)
(* (efficiency/gpu_power.cpp) with difficulty_power_target_pct and         *)
(* normalize_power_range (efficiency/thermal_policy.cpp).                  *)
(*                                                                         *)
(* Percentages, milliwatts and degrees are integers as in the code; where  *)
(* it goes through doubles the quotients here are exact.                   *)
(***************************************************************************)
EXTENDS Integers

CONSTANTS
    PowerPct, PowerMinPct,     \* gpu_power_target_pct, gpu_power_min_pct
    ReferenceM,                \* vram_reference_difficulty
    FullRatioPct,              \* gpu_difficulty_power_full_ratio, in percent
    WarnC, MaxC,               \* warn_gpu_temp_c, max_gpu_temp_c
    WarnMemC, MaxMemC,         \* warn_mem_temp_c, max_mem_temp_c
    MinMw, MaxMw               \* the limits the driver allows

ASSUME PowerSettings ==
    /\ {PowerPct, PowerMinPct, FullRatioPct} \subseteq Nat
    /\ ReferenceM \in Nat \ {0}
    /\ {WarnC, MaxC, WarnMemC, MaxMemC} \subseteq Nat
    /\ MinMw \in Nat \ {0} /\ MaxMw \in Nat /\ MinMw <= MaxMw

AtLeast(a, b) == IF a >= b THEN a ELSE b     \* std::max
AtMost(a, b) == IF a <= b THEN a ELSE b      \* std::min

\* llround(a / b) of naturals: halves go up.
Round(a, b) == (2 * a + b) \div (2 * b)

\* normalize_power_range
HighPct == AtLeast(50, AtMost(PowerPct, 100))
LowPct == AtLeast(50, AtMost(PowerMinPct, HighPct))

\* A share a / b, from 0 to 1, of the way from `high` down to the lowest percentage.
Derated(high, a, b) == Round(high * b - AtMost(a, b) * (high - LowPct), b)

\* difficulty_power_target_pct: the further the memory cost is above the reference,
\* the lower, down to the minimum at the full ratio.
EffectivePct(m) ==
    IF m <= ReferenceM THEN HighPct
    ELSE Derated(HighPct, 100 * (m - ReferenceM),
                 ReferenceM * (AtLeast(101, FullRatioPct) - 100))

\* The share of the way from the warning to the maximum that a sensor has gone.
Heat(t, warn, max) ==
    IF t >= max THEN <<1, 1>>
    ELSE IF t >= warn THEN <<t - warn, AtLeast(1, max - warn)>> ELSE <<0, 1>>

Hotter(f, g) == IF g[1] * f[2] > f[1] * g[2] THEN g ELSE f

\* tick(): the hotter of die and junction decides; 0 is no reading of the junction.
HeatPct(pct, gpu, mem) ==
    LET die == Heat(gpu, WarnC, MaxC)
        heat == IF mem > 0 THEN Hotter(die, Heat(mem, WarnMemC, MaxMemC)) ELSE die
    IN  IF heat[1] >= heat[2] THEN LowPct
        ELSE IF heat[1] = 0 THEN pct
        ELSE Derated(pct, heat[1], heat[2])

\* Mutant: the percentage of the maximum is not held in the driver's range.
LimitUnclamped(pct) == Round(MaxMw * pct, 100)

\* What apply() and tick() ask the driver for.
Limit(pct) == AtLeast(MinMw, AtMost(Round(MaxMw * pct, 100), MaxMw))
=============================================================================
