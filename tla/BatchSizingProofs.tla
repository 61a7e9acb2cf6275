-------------------------- MODULE BatchSizingProofs --------------------------
(***************************************************************************)
(* Plan and thermal hunt for any card, settings, readings and difficulties.*)
(* IInv adds to the checked invariants that the plan in force is the one   *)
(* for its difficulty and that a hunt that observes has a batch.  That the *)
(* pack fits rests on the first plan being within the caps whenever it     *)
(* gives work (FirstPlanFits), so that the loop of clamp_plan_to_caps never*)
(* runs on it.  The loop is a recursive function all the same, and its type*)
(* needs an induction: the induction theorems of the library cannot be     *)
(* used, for they take operators, but its theorem on minimal elements of   *)
(* well-founded relations takes a set (SetInduction).                      *)
(***************************************************************************)
EXTENDS BatchSizing, WellFoundedInduction, TLAPS

-----------------------------------------------------------------------------
(* Arithmetic.                                                             *)

LEMMA Quotient ==
    ASSUME NEW a \in Nat, NEW d \in Nat \ {0}
    PROVE  a \div d \in Nat /\ d * (a \div d) <= a /\ a < d * (a \div d) + d
  OBVIOUS

LEMMA Products ==
    ASSUME NEW a \in Nat, NEW b \in Nat, NEW c \in Nat
    PROVE  a * c \in Nat /\ (a <= b => a * c <= b * c)
  OBVIOUS

\* Division by d is below q when the dividend is.
LEMMA QuotientBelow ==
    ASSUME NEW a \in Nat, NEW d \in Nat \ {0}, NEW q \in Nat, a <= q * d
    PROVE  a \div d <= q
  OBVIOUS

LEMMA QuotientStrict ==
    ASSUME NEW a \in Nat, NEW d \in Nat \ {0}, NEW q \in Nat, a < (q + 1) * d
    PROVE  a \div d <= q
<1>1. d * (a \div d) <= a /\ a \div d \in Nat
  BY Quotient
<1>2. SUFFICES ASSUME q + 1 <= a \div d PROVE FALSE
  BY <1>1
<1>3. (q + 1) * d <= (a \div d) * d
  BY <1>1, <1>2, Products
<1>4. (a \div d) * d = d * (a \div d)
  BY <1>1
<1> QED
  BY <1>1, <1>3, <1>4

LEMMA Rounding ==
    ASSUME NEW a \in Nat, NEW b \in Nat \ {0} PROVE Round(a, b) \in Nat
<1>1. 2 * a + b \in Nat /\ 2 * b \in Nat \ {0}
  OBVIOUS
<1> QED
  BY <1>1, Quotient DEF Round

\* Scaling by at most 1 keeps at least one attempt and adds none.
LEMMA ScaledBelow ==
    ASSUME NEW n \in Nat \ {0}, NEW f \in Nat \X (Nat \ {0}), f[1] <= f[2]
    PROVE  Scaled(n, f) \in 1..n
<1> DEFINE a == f[1]
           b == f[2]
           p == n * a
           r == n * b
<1>1. a \in Nat /\ b \in Nat \ {0} /\ a <= b
  OBVIOUS
<1>2. Scaled(n, f) = AtLeast(1, (2 * p + b) \div (2 * b))
  BY DEF Scaled, Round
<1> HIDE DEF a, b
<1>3. p \in Nat /\ r \in Nat /\ p <= r
  <2>1. a * n <= b * n /\ a * n \in Nat /\ b * n \in Nat
    BY <1>1, Products
  <2> QED
    BY <1>1, <2>1
<1>4. (n + 1) * (2 * b) = 2 * r + 2 * b
  BY <1>1
<1> HIDE DEF p, r
<1>5. 2 * p + b \in Nat /\ 2 * b \in Nat \ {0} /\ 2 * p + b < (n + 1) * (2 * b)
  BY <1>1, <1>3, <1>4
<1>6. (2 * p + b) \div (2 * b) <= n /\ (2 * p + b) \div (2 * b) \in Nat
  <2> DEFINE x == 2 * p + b
             y == 2 * b
  <2>1. x \in Nat /\ y \in Nat \ {0} /\ x < (n + 1) * y
    BY <1>5
  <2> HIDE DEF x, y
  <2>2. x \div y <= n /\ x \div y \in Nat
    BY <2>1, Quotient, QuotientStrict
  <2> QED
    BY <2>2 DEF x, y
<1> QED
  BY <1>2, <1>6 DEF AtLeast

-----------------------------------------------------------------------------
(* The plan.                                                               *)

LEMMA CapsAreNat == {Target, Headroom, Overhead} \subseteq Nat
<1>1. ASSUME NEW pct \in 0..100 PROVE Round(TotalMib * pct, 100) \in Nat
  <2>1. TotalMib \in Nat /\ pct \in Nat
    BY VramSizes
  <2>2. TotalMib * pct \in Nat
    BY <2>1, Products
  <2> QED
    BY <2>2, Rounding
<1>2. ASSUME NEW n \in Nat, NEW pct \in 0..100 PROVE Share(n, pct) \in Nat
  BY <1>1, <1>2 DEF Share
<1>3. ASSUME NEW v \in Nat, NEW lo \in Nat PROVE Clamp(v, lo, TotalMib) \in Nat
  BY <1>3, VramSizes DEF Clamp, AtLeast, AtMost
<1>4. Target \in Nat /\ Headroom \in Nat
  BY <1>2, <1>3, VramSettings DEF Target, Headroom
<1>5. Overhead \in Nat
  <2>1. Share(0, OverheadPct) \in Nat
    BY <1>2, VramSettings
  <2>2. AtLeast(OverheadFloorMib, Share(0, OverheadPct)) \in Nat
    BY <2>1, VramSettings DEF AtLeast
  <2> QED
    BY <1>3, <2>2, VramSettings DEF Overhead
<1> QED
  BY <1>4, <1>5

\* What may be spent beside the overhead.
Allowed == AtMost(AtLeast(0, Target - Overhead), AtLeast(0, TotalMib - Headroom - Overhead))

LEMMA AllowedFits ==
    ASSUME NEW pack \in Nat, pack <= Allowed, Allowed > 0
    PROVE  pack + Overhead <= Target /\ AtLeast(0, TotalMib - (pack + Overhead)) >= Headroom
<1>1. Target \in Nat /\ Headroom \in Nat /\ Overhead \in Nat /\ TotalMib \in Nat
  BY CapsAreNat, VramSizes
<1> QED
  BY <1>1 DEF Allowed, AtMost, AtLeast

LEMMA BudgetIsNat == Allowed \in Nat /\ Budget = Allowed * BytesPerMib /\ Budget \in Nat
<1>1. Target \in Nat /\ Headroom \in Nat /\ Overhead \in Nat /\ TotalMib \in Nat
  BY CapsAreNat, VramSizes
<1>2. Allowed \in Nat /\ Budget = Allowed * BytesPerMib
  BY <1>1 DEF Allowed, Budget, AtMost, AtLeast
<1> QED
  BY <1>2, Products, VramSizes

LEMMA PerLaneShare ==
    ASSUME NEW lanes \in Nat \ {0}
    PROVE  /\ PerLane(lanes) \in Nat \ {0}
           /\ PerLane(lanes) > 1 => PerLane(lanes) * lanes <= Budget
<1>1. Budget \div lanes \in Nat /\ lanes * (Budget \div lanes) <= Budget
  BY BudgetIsNat, Quotient
<1> DEFINE s == Budget \div lanes
<1>2. s \in Nat /\ lanes * s <= Budget /\ lanes * s = s * lanes
  BY <1>1
<1>3. PerLane(lanes) = AtLeast(1, s)
  BY DEF PerLane
<1> HIDE DEF s
<1> QED
  BY <1>2, <1>3 DEF AtLeast

LEMMA LaneCountType == \A d \in Ms : LaneCount(d) \in Nat \ {0}
<1> SUFFICES ASSUME NEW d \in Ms PROVE LaneCount(d) \in Nat \ {0}
  OBVIOUS
<1>1. d \in Nat \ {0} /\ ReferenceM \in Nat /\ MaxLanes \in Nat \ {0}
  BY VramSizes, VramSettings
<1>2. ReferenceM \div d \in Nat
  BY <1>1, Quotient
<1> QED
  BY <1>1, <1>2 DEF LaneCount, AtLeast, AtMost

LEMMA SelectBatchFits ==
    ASSUME NEW bytes \in Nat, NEW d \in Ms, NEW cap \in Nat
    PROVE  /\ SelectBatch(bytes, d, cap) \in Nat
           /\ SelectBatch(bytes, d, cap) * AttemptBytes[d] <= bytes
<1> DEFINE a == AttemptBytes[d]
           fit == bytes \div a
           s == SelectBatch(bytes, d, cap)
<1>1. a \in Nat \ {0}
  BY VramSizes
<1>2. fit \in Nat /\ a * fit <= bytes
  BY <1>1, Quotient
<1>3. s = IF fit > 0 /\ cap > 0 THEN AtMost(fit, cap) ELSE fit
  BY DEF SelectBatch
<1> HIDE DEF a, fit, s
<1>4. s \in Nat /\ s <= fit
  BY <1>2, <1>3 DEF AtMost
<1>5. s * a <= fit * a /\ fit * a = a * fit /\ fit * a \in Nat /\ s * a \in Nat
  BY <1>1, <1>2, <1>4, Products
<1>6. s * a <= bytes
  BY <1>1, <1>2, <1>5
<1> QED
  BY <1>4, <1>6 DEF s, a

\* A plan that FirstPlan or Shrink may come up with.
PlanTypes(d) == [m : {d}, lanes : Nat \ {0}, batch : Nat]

LEMMA FirstPlanType == \A d \in Ms : FirstPlan(d) \in PlanTypes(d)
<1> SUFFICES ASSUME NEW d \in Ms PROVE FirstPlan(d) \in PlanTypes(d)
  OBVIOUS
<1>1. LaneCount(d) \in Nat \ {0}
  BY LaneCountType
<1>2. SelectBatch(PerLane(LaneCount(d)), d, ExplicitMaxBatch) \in Nat
  BY <1>1, PerLaneShare, SelectBatchFits, VramSettings
<1> QED
  BY <1>1, <1>2, VramSettings DEF FirstPlan, PlanTypes, AtMost

LEMMA PackType ==
    ASSUME NEW d \in Ms, NEW attempts \in Nat, NEW lanes \in Nat
    PROVE  PackMib(attempts, lanes, d) \in Nat
<1> DEFINE n == attempts * AttemptBytes[d] * lanes
<1>1. attempts * AttemptBytes[d] \in Nat
  BY VramSizes, Products
<1>2. n \in Nat
  BY <1>1, Products
<1>3. PackMib(attempts, lanes, d) = n \div BytesPerMib
  BY DEF PackMib
<1> HIDE DEF n
<1> QED
  BY <1>2, <1>3, Quotient, VramSizes

\* The first plan is within the caps whenever it gives work at all.
LEMMA FirstPlanFits ==
    ASSUME NEW d \in Ms, FirstPlan(d).batch > 0 PROVE FitsPlan(FirstPlan(d))
<1> DEFINE lanes == LaneCount(d)
           most == SelectBatch(PerLane(lanes), d, ExplicitMaxBatch)
           b == FirstPlan(d).batch
           a == AttemptBytes[d]
<1>1. lanes \in Nat \ {0} /\ PerLane(lanes) \in Nat \ {0} /\ a \in Nat \ {0, 1}
  BY LaneCountType, PerLaneShare, VramSizes
<1>2. most \in Nat /\ most * a <= PerLane(lanes)
  BY <1>1, SelectBatchFits, VramSettings
<1>3. FirstPlan(d).lanes = lanes /\ FirstPlan(d).m = d
      /\ b = IF most > 0 /\ ExplicitBatch > 0 THEN AtMost(ExplicitBatch, most) ELSE most
  BY DEF FirstPlan
<1> HIDE DEF lanes, most, b, a
<1>4. b \in Nat \ {0} /\ b <= most
  <2>1. b > 0
    BY DEF b
  <2> QED
    BY <1>2, <1>3, <2>1, VramSettings DEF AtMost
<1> DEFINE p == PerLane(lanes)
           ba == b * a
           bal == ba * lanes
           pl == p * lanes
<1>5. ba \in Nat /\ ba <= most * a /\ most * a \in Nat /\ 1 * a <= ba
  BY <1>1, <1>2, <1>4, Products
<1>6. p \in Nat /\ ba <= p /\ p > 1
  BY <1>1, <1>2, <1>5
<1>7. pl <= Budget
  BY <1>1, <1>6, PerLaneShare
<1> HIDE DEF p, ba
<1>8. bal \in Nat /\ pl \in Nat /\ bal <= pl
  BY <1>1, <1>5, <1>6, Products
<1> HIDE DEF bal, pl
<1>9. bal <= Allowed * BytesPerMib /\ Allowed \in Nat
  BY <1>7, <1>8, BudgetIsNat
<1>10. bal \div BytesPerMib <= Allowed /\ bal \div BytesPerMib \in Nat
  BY <1>8, <1>9, VramSizes, QuotientBelow, Quotient
<1>11. Allowed > 0
  <2>1. ba * 1 <= bal /\ ba > 0
    <3>1. 1 * ba <= lanes * ba /\ lanes * ba = ba * lanes /\ 1 * ba = ba
      BY <1>1, <1>5, Products
    <3> QED
      BY <1>1, <1>5, <3>1 DEF bal
  <2>2. Allowed * BytesPerMib > 0
    BY <1>5, <1>8, <1>9, <2>1, BudgetIsNat
  <2> QED
    BY <1>9, <2>2, VramSizes
<1>12. PackMib(b, lanes, d) = bal \div BytesPerMib
  BY DEF PackMib, bal, ba, a
<1>13. Fits(b, lanes, d)
  BY <1>10, <1>11, <1>12, AllowedFits DEF Fits, UsedMib, FreeMib
<1> QED
  BY <1>3, <1>13 DEF FitsPlan, b

\* A smaller batch takes no more memory.
LEMMA SmallerFits ==
    ASSUME NEW d \in Ms, NEW lanes \in Nat, NEW a \in Nat, NEW b \in Nat, a <= b,
           Fits(b, lanes, d)
    PROVE  Fits(a, lanes, d)
<1> DEFINE c == AttemptBytes[d]
           x == a * c * lanes
           y == b * c * lanes
           p == x \div BytesPerMib
           r == y \div BytesPerMib
<1>1. c \in Nat /\ BytesPerMib \in Nat \ {0}
  BY VramSizes
<1> HIDE DEF c
<1>2. a * c \in Nat /\ b * c \in Nat /\ a * c <= b * c
  BY <1>1, Products
<1>3. x \in Nat /\ y \in Nat /\ x <= y
  BY <1>2, Products
<1>4. PackMib(a, lanes, d) = p /\ PackMib(b, lanes, d) = r
  BY DEF PackMib, c
<1> HIDE DEF x, y
<1>5. p \in Nat /\ r \in Nat /\ p <= r
  <2>1. /\ p \in Nat /\ r \in Nat
        /\ y < BytesPerMib * r + BytesPerMib
    BY <1>1, <1>3, Quotient
  <2>2. BytesPerMib * r + BytesPerMib = (r + 1) * BytesPerMib
    BY <1>1, <2>1
  <2>3. x < (r + 1) * BytesPerMib
    BY <1>1, <1>3, <2>1, <2>2
  <2> QED
    BY <1>1, <1>3, <2>1, <2>3, QuotientStrict
<1> HIDE DEF p, r
<1> QED
  BY <1>4, <1>5, CapsAreNat, VramSizes DEF Fits, UsedMib, FreeMib, AtLeast

-----------------------------------------------------------------------------
(* The loop of clamp_plan_to_caps, a recursive function: induction over its*)
(* rounds is the search for the least round at which a claim fails.        *)

LEMMA NatOrder == \E R : IsWellFoundedOn(R, Nat) /\ \A i, j \in Nat : i < j => <<i, j>> \in R
<1>1. IsWellFoundedOn({ss \in Nat \X Nat : ss[1] < ss[2]}, Nat)
  BY NatLessThanWellFounded DEF OpToRel
<1> QED
  BY <1>1

LEMMA LeastElement ==
    ASSUME NEW S \in SUBSET Nat, S # {}
    PROVE  \E i \in S : \A j \in S : i <= j
<1>1. PICK R : IsWellFoundedOn(R, Nat) /\ \A i, j \in Nat : i < j => <<i, j>> \in R
  BY NatOrder
<1>2. S \subseteq Nat /\ IsWellFoundedOn(R, Nat)
  BY <1>1
<1>3. \E i \in S : \A j \in S : ~(<<j, i>> \in R)
  BY <1>2, WFMin, Zenon
<1>4. PICK i \in S : \A j \in S : ~(<<j, i>> \in R)
  BY <1>3
<1>5. ASSUME NEW j \in S PROVE i <= j
  <2>1. i \in Nat /\ j \in Nat /\ ~(j < i)
    BY <1>1, <1>4
  <2> QED
    BY <2>1
<1> QED
  BY <1>5

LEMMA SetInduction ==
    ASSUME NEW S, 0 \in S, \A n \in Nat : n \in S => n + 1 \in S
    PROVE  Nat \subseteq S
<1> DEFINE rest == Nat \ S
<1> SUFFICES ASSUME rest # {} PROVE FALSE
  OBVIOUS
<1>1. PICK i \in rest : \A j \in rest : i <= j
  <2>1. rest \in SUBSET Nat
    OBVIOUS
  <2> HIDE DEF rest
  <2> QED
    BY <2>1, LeastElement
<1>2. i # 0 /\ i - 1 \in Nat
  BY <1>1
<1>3. i - 1 \in S
  BY <1>1, <1>2
<1> QED
  BY <1>1, <1>2, <1>3

LEMMA ShrinkType == \A d \in Ms : \A p \in PlanTypes(d) : Shrink(p) \in PlanTypes(d)
<1> SUFFICES ASSUME NEW d \in Ms, NEW p \in PlanTypes(d) PROVE Shrink(p) \in PlanTypes(d)
  OBVIOUS
<1>1. p.lanes \in Nat \ {0} /\ p.batch \in Nat /\ p.m = d
  BY DEF PlanTypes
<1>2. (p.batch * 98) \div 100 \in Nat
  BY <1>1, Quotient
<1>3. CASE p.batch > 1
  <2>1. Shrink(p) = [p EXCEPT !.batch = AtLeast(1, (p.batch * 98) \div 100)]
    BY <1>3 DEF Shrink
  <2>2. AtLeast(1, (p.batch * 98) \div 100) \in Nat
    BY <1>2 DEF AtLeast
  <2> QED
    BY <2>1, <2>2 DEF PlanTypes
<1>4. CASE ~(p.batch > 1) /\ p.lanes > 1
  <2>1. p.lanes - 1 \in Nat \ {0}
    BY <1>1, <1>4
  <2>2. SelectBatch(PerLane(p.lanes - 1), p.m, 0) \in Nat
    BY <1>1, <2>1, PerLaneShare, SelectBatchFits
  <2>3. Shrink(p) = [p EXCEPT !.lanes = p.lanes - 1,
                              !.batch = SelectBatch(PerLane(p.lanes - 1), p.m, 0)]
    BY <1>4 DEF Shrink
  <2> QED
    BY <2>1, <2>2, <2>3 DEF PlanTypes
<1>5. CASE ~(p.batch > 1) /\ ~(p.lanes > 1)
  BY <1>5 DEF Shrink
<1> QED
  BY <1>3, <1>4, <1>5

\* The recursive definition has a solution, of the right type.
LEMMA ShrunkType ==
    ASSUME NEW d \in Ms, NEW p \in PlanTypes(d)
    PROVE  \A n \in 0..ShrinkRounds : Shrunk(p)[n] \in PlanTypes(d)
<1> DEFINE Upto(k, f) == f[0] = p /\ \A n \in 1..k : f[n] = Shrink(f[n - 1])
           S == {k \in Nat : \E f \in [0..k -> PlanTypes(d)] : Upto(k, f)}
<1>1. 0 \in S
  <2> DEFINE f == [n \in 0..0 |-> p]
  <2>1. f \in [0..0 -> PlanTypes(d)] /\ Upto(0, f)
    OBVIOUS
  <2> QED
    BY <2>1
<1>2. ASSUME NEW k \in Nat, k \in S PROVE k + 1 \in S
  <2>1. PICK f \in [0..k -> PlanTypes(d)] : Upto(k, f)
    BY <1>2
  <2> DEFINE g == [n \in 0..(k + 1) |-> IF n = k + 1 THEN Shrink(f[k]) ELSE f[n]]
  <2>2. g[0] = p /\ \A n \in 0..k : g[n] = f[n]
    BY <2>1
  <2>3. g[k + 1] = Shrink(f[k]) /\ Shrink(f[k]) \in PlanTypes(d)
    BY ShrinkType
  <2>4. g \in [0..(k + 1) -> PlanTypes(d)]
    BY <2>3
  <2> HIDE DEF g
  <2>5. ASSUME NEW n \in 1..(k + 1) PROVE g[n] = Shrink(g[n - 1])
    <3>1. CASE n = k + 1
      BY <2>2, <2>3, <3>1
    <3>2. CASE n # k + 1
      <4>1. n \in 1..k /\ n - 1 \in 0..k /\ n \in 0..k
        BY <3>2
      <4> QED
        BY <2>1, <2>2, <4>1
    <3> QED
      BY <3>1, <3>2
  <2>6. Upto(k + 1, g)
    BY <2>2, <2>5
  <2> QED
    BY <2>4, <2>6
<1>3. ShrinkRounds \in S
  <2>1. ShrinkRounds \in Nat /\ \A n \in Nat : n \in S => n + 1 \in S
    BY <1>2, VramSettings
  <2> HIDE DEF S
  <2> QED
    BY <1>1, <2>1, SetInduction
<1>4. PICK f \in [0..ShrinkRounds -> PlanTypes(d)] : Upto(ShrinkRounds, f)
  BY <1>3
<1> DEFINE Rec(g) == [n \in 0..ShrinkRounds |-> IF n = 0 THEN p ELSE Shrink(g[n - 1])]
           s == Shrunk(p)
<1>5. f = Rec(f)
  <2>1. \A n \in 0..ShrinkRounds : f[n] = IF n = 0 THEN p ELSE Shrink(f[n - 1])
    BY <1>4
  <2> QED
    BY <2>1
<1>6. s = CHOOSE g : g = Rec(g)
  BY DEF Shrunk
<1>7. s = Rec(s)
  <2> HIDE DEF Rec, s
  <2> QED
    BY <1>5, <1>6
<1> HIDE DEF s
<1> DEFINE T == {n \in Nat : n \in 0..ShrinkRounds => s[n] \in PlanTypes(d)}
<1>8. 0 \in T
  BY <1>7
<1>9. ASSUME NEW n \in Nat, n \in T PROVE n + 1 \in T
  <2> SUFFICES ASSUME n + 1 \in 0..ShrinkRounds PROVE s[n + 1] \in PlanTypes(d)
    OBVIOUS
  <2>1. n \in 0..ShrinkRounds /\ (n + 1) - 1 = n /\ n + 1 # 0
    BY VramSettings
  <2>2. s[n] \in PlanTypes(d)
    BY <1>9, <2>1
  <2>3. s[n + 1] = Shrink(s[n])
    <3>1. Rec(s)[n + 1] = Shrink(s[n])
      BY <2>1
    <3> HIDE DEF Rec
    <3> QED
      BY <1>7, <3>1
  <2> QED
    BY <2>2, <2>3, ShrinkType
<1>10. Nat \subseteq T
  <2>1. \A n \in Nat : n \in T => n + 1 \in T
    BY <1>9
  <2> HIDE DEF T
  <2> QED
    BY <1>8, <2>1, SetInduction
<1> QED
  BY <1>10 DEF s

\* A plan that gives work is the first plan: the loop that shrinks plans never has
\* anything to shrink, and the plan is within the caps.
LEMMA PlanFits ==
    ASSUME NEW d \in Plannable
    PROVE  /\ d \in Ms /\ Plan[d].m = d
           /\ Plan[d].lanes \in Nat \ {0} /\ Plan[d].batch \in Nat \ {0}
           /\ Plan[d] = FirstPlan(d)
           /\ FitsPlan(Plan[d])
<1> DEFINE p == FirstPlan(d)
           fitting == {n \in 0..ShrinkRounds : FitsPlan(Shrunk(p)[n])}
<1>1. d \in Ms /\ Plan[d] = ClampToCaps(p) /\ Plan[d].batch > 0
  BY DEF Plannable, Plan
<1>2. p \in PlanTypes(d)
  BY <1>1, FirstPlanType
<1>3. ASSUME FitsPlan(p) \/ fitting = {} PROVE Plan[d] = p
  BY <1>1, <1>3 DEF ClampToCaps
<1>4. ASSUME ~FitsPlan(p) PROVE fitting = {}
  <2>1. p.batch = 0
    BY <1>1, <1>2, <1>4, FirstPlanFits DEF PlanTypes
  <2>2. ~(Overhead <= Target /\ AtLeast(0, TotalMib - Overhead) >= Headroom)
    <3>1. PackMib(0, p.lanes, d) = 0
      <4>1. p.lanes \in Nat /\ AttemptBytes[d] \in Nat
        BY <1>1, <1>2, VramSizes DEF PlanTypes
      <4>2. 0 * AttemptBytes[d] * p.lanes = 0
        BY <4>1
      <4>3. 0 \div BytesPerMib = 0
        BY VramSizes
      <4> QED
        BY <4>2, <4>3 DEF PackMib
    <3>2. p.m = d /\ 0 + Overhead = Overhead
      BY <1>2, CapsAreNat DEF PlanTypes
    <3> QED
      BY <1>4, <2>1, <3>1, <3>2 DEF FitsPlan, Fits, UsedMib, FreeMib
  <2>3. ASSUME NEW n \in 0..ShrinkRounds PROVE ~FitsPlan(Shrunk(p)[n])
    <3> DEFINE r == Shrunk(p)[n]
    <3>1. r \in PlanTypes(d)
      BY <1>1, <1>2, ShrunkType
    <3> HIDE DEF r
    <3>2. r.m = d /\ PackMib(r.batch, r.lanes, d) \in Nat
      BY <1>1, <3>1, PackType DEF PlanTypes
    <3>3. ~Fits(r.batch, r.lanes, d)
      BY <2>2, <3>2, CapsAreNat, VramSizes DEF Fits, UsedMib, FreeMib, AtLeast
    <3> QED
      BY <3>2, <3>3 DEF FitsPlan, r
  <2> QED
    BY <2>3
<1>5. Plan[d] = p
  BY <1>3, <1>4
<1> HIDE DEF fitting
<1>6. p.batch \in Nat \ {0} /\ p.lanes \in Nat \ {0} /\ p.m = d
  BY <1>1, <1>2, <1>5 DEF PlanTypes
<1> QED
  BY <1>1, <1>5, <1>6, FirstPlanFits

-----------------------------------------------------------------------------
(* The hunt.                                                               *)

LEMMA MinBatchBounds ==
    ASSUME NEW planned \in Nat \ {0} PROVE MinBatch(planned) \in 1..planned
<1>1. Scaled(planned, <<MinScalePct, 100>>) \in 1..planned
  <2>1. <<MinScalePct, 100>> \in Nat \X (Nat \ {0}) /\ MinScalePct <= 100
    BY HuntSettings
  <2> QED
    BY <2>1, ScaledBelow
<1> QED
  BY <1>1, HuntSettings DEF MinBatch, AtLeast, AtMost

\* Between the plan and the floor, as update_thermal_batch_from_temp leaves it.
Steady(h, planned) ==
    /\ h \in Hunt
    /\ h.batch \in 1..planned
    /\ h.floor <= AtLeast(h.batch, MinBatch(planned))
    /\ h.ok <= planned

LEMMA BegunIsSteady ==
    ASSUME NEW planned \in Nat \ {0}
    PROVE  Steady(HuntBegun(planned), planned) /\ ~HuntBegun(planned).seen
<1> DEFINE start == Scaled(planned, <<StartScalePct, 100>>)
<1>1. start \in 1..planned
  <2>1. <<StartScalePct, 100>> \in Nat \X (Nat \ {0}) /\ StartScalePct <= 100
    BY HuntSettings
  <2> QED
    BY <2>1, ScaledBelow
<1>2. HuntBegun(planned) = [NoHunt EXCEPT !.batch = start, !.floor = start, !.ok = start]
  BY DEF HuntBegun
<1>3. MinBatch(planned) \in 1..planned
  BY MinBatchBounds
<1> HIDE DEF start
<1> DEFINE h == HuntBegun(planned)
<1>4. h = [batch |-> start, seen |-> FALSE, temp |-> 0, floor |-> start, ok |-> start]
  BY <1>2 DEF NoHunt
<1> HIDE DEF h
<1>5. start \in Nat /\ h \in Hunt
  BY <1>1, <1>4 DEF Hunt
<1>6. h.batch = start /\ h.floor = start /\ h.ok = start /\ h.seen = FALSE
  BY <1>4
<1>7. start <= AtLeast(start, MinBatch(planned))
  BY <1>1, <1>3 DEF AtLeast
<1> QED
  BY <1>1, <1>5, <1>6, <1>7 DEF Steady, h

\* What Judged does to a hunt whose clamps hold: a raise stays within the plan, a
\* cut stays above the floor, and the floor only rises.
LEMMA JudgedHunt ==
    ASSUME NEW planned \in Nat \ {0}, NEW h \in Hunt, NEW temp \in Nat, NEW settled \in BOOLEAN,
           h.batch \in MinBatch(planned)..planned, h.floor <= h.batch, h.ok <= planned
    PROVE  LET new == Judged(h, temp, planned, settled) IN
           /\ new \in Hunt /\ new.batch \in MinBatch(planned)..planned
           /\ new.floor <= new.batch /\ new.ok <= planned
           /\ new.floor >= h.floor
           /\ new.batch < h.batch => new.batch > h.floor
<1> DEFINE low == MinBatch(planned)
           new == Judged(h, temp, planned, settled)
<1>1. low \in 1..planned
  BY MinBatchBounds
<1>2. /\ h.batch \in Nat /\ h.floor \in Nat /\ h.ok \in Nat /\ h.temp \in Nat /\ h.seen \in BOOLEAN
      /\ h.batch \in low..planned
  BY DEF Hunt
<1> HIDE DEF low
<1>3. CASE Cool(h, temp)
  <2> DEFINE b == Applied(h, h.batch + BatchStep, planned, settled)
  <2>1. b \in low..planned /\ b >= h.batch
    BY <1>1, <1>2, HuntSettings DEF Applied, Clamp, AtLeast, AtMost, low
  <2>2. new = [h EXCEPT !.ok = h.batch, !.batch = b]
    BY <1>3 DEF Judged
  <2> HIDE DEF b, new
  <2>3. new.batch = b /\ new.ok = h.batch /\ new.floor = h.floor
    BY <2>2 DEF Hunt
  <2>4. b \in Nat
    BY <1>1, <2>1
  <2>5. new \in Hunt
    BY <1>2, <2>2, <2>4 DEF Hunt
  <2> QED
    BY <1>1, <1>2, <2>1, <2>3, <2>5 DEF new, low
<1>4. CASE ~Cool(h, temp) /\ Hot(h, temp) /\ CutTo(h, planned) # h.batch
  <2> DEFINE to == CutTo(h, planned)
             cut == Applied(h, to, planned, settled)
  <2>1. (to \in Nat /\ to > h.floor) \/ to = h.batch
    BY <1>1, <1>2, HuntSettings DEF CutTo, AtLeast, AtMost, low
  <2>2. to > h.floor /\ to \in Nat
    BY <1>4, <2>1
  <2> HIDE DEF to
  <2>3. /\ cut \in low..planned /\ cut >= h.floor
        /\ cut < h.batch => cut > h.floor
    BY <1>1, <1>2, <2>2 DEF Applied, Clamp, AtLeast, AtMost, low
  <2>4. new = [h EXCEPT !.batch = cut, !.floor = AtLeast(h.floor, cut)]
    BY <1>4 DEF Judged, to
  <2> HIDE DEF cut, new
  <2>5. new.batch = cut /\ new.ok = h.ok /\ new.floor = AtLeast(h.floor, cut)
    BY <2>4 DEF Hunt
  <2>6. AtLeast(h.floor, cut) = cut /\ cut \in Nat
    BY <1>1, <1>2, <2>3 DEF AtLeast
  <2>7. new \in Hunt
    BY <1>2, <2>4, <2>6 DEF Hunt
  <2> QED
    BY <1>1, <1>2, <2>3, <2>5, <2>6, <2>7 DEF new, low
<1>5. CASE ~Cool(h, temp) /\ ~(Hot(h, temp) /\ CutTo(h, planned) # h.batch)
  <2>1. new = h
    BY <1>5 DEF Judged
  <2> HIDE DEF new
  <2> QED
    BY <1>1, <1>2, <2>1 DEF new, low
<1> QED
  BY <1>3, <1>4, <1>5

LEMMA HuntStep ==
    ASSUME NEW planned \in Nat \ {0}, NEW was, Steady(was, planned), NEW temp \in Nat,
           NEW new \in HuntSteps(was, temp, planned)
    PROVE  /\ Steady(new, planned) /\ new.seen
           /\ new.floor >= was.floor
           /\ new.batch < was.batch => new.batch > was.floor
<1> DEFINE low == MinBatch(planned)
           h == Normal(was, planned)
           floored == [h EXCEPT !.floor = AtLeast(@, low)]
<1>1. low \in 1..planned
  BY MinBatchBounds
<1>2. /\ was.batch \in Nat /\ was.floor \in Nat /\ was.ok \in Nat /\ was.temp \in Nat
      /\ was.seen \in BOOLEAN /\ was \in Hunt
      /\ was.batch \in 1..planned /\ was.ok <= planned /\ was.floor <= AtLeast(was.batch, low)
  BY DEF Steady, Hunt
<1> DEFINE b == Clamp(was.batch, low, planned)
<1>3. b \in low..planned /\ b >= was.batch /\ b = AtLeast(was.batch, low) /\ was.floor <= b
  BY <1>1, <1>2 DEF Clamp, AtLeast, AtMost, low
<1>4. h = [was EXCEPT !.batch = b]
  BY DEF Normal
<1> HIDE DEF low, b, h
<1>5. h \in Hunt /\ h.batch = b /\ h.floor = was.floor /\ h.ok = was.ok /\ h.seen = was.seen
  BY <1>1, <1>2, <1>3, <1>4 DEF Hunt
<1>6. /\ floored \in Hunt /\ floored.batch = b /\ floored.ok = was.ok
      /\ floored.floor = AtLeast(was.floor, low)
  BY <1>1, <1>2, <1>5 DEF Hunt, AtLeast
<1> DEFINE Settle(s) == [Judged(floored, temp, planned, s) EXCEPT !.temp = temp]
<1>7. new \in IF h.seen THEN {Settle(s) : s \in BOOLEAN}
              ELSE {[h EXCEPT !.seen = TRUE, !.temp = temp]}
  BY DEF HuntSteps, h, low
<1> HIDE DEF floored
<1>8. CASE h.seen
  <2> DEFINE J(s) == Judged(floored, temp, planned, s)
  <2>1. PICK s \in BOOLEAN : new = Settle(s)
    <3> HIDE DEF Settle
    <3> QED
      BY <1>7, <1>8
  <2>2. floored.floor <= floored.batch /\ floored.floor >= was.floor
    BY <1>1, <1>2, <1>3, <1>6 DEF AtLeast
  <2>3. /\ J(s) \in Hunt /\ J(s).batch \in low..planned
        /\ J(s).floor <= J(s).batch /\ J(s).ok <= planned
        /\ J(s).floor >= floored.floor
        /\ J(s).batch < floored.batch => J(s).batch > floored.floor
    BY <1>2, <1>3, <1>6, <2>2, JudgedHunt DEF low
  <2> DEFINE j == J(s)
  <2>4. new = [j EXCEPT !.temp = temp]
    BY <2>1
  <2>5. /\ j \in Hunt /\ j.batch \in low..planned
        /\ j.floor <= j.batch /\ j.ok <= planned
        /\ j.floor >= floored.floor
        /\ j.batch < floored.batch => j.batch > floored.floor
    BY <2>3
  <2>6. j.seen = floored.seen /\ floored.seen = TRUE
    BY <1>2, <1>5, <1>6, <1>8 DEF Judged, floored, Hunt
  <2> HIDE DEF j, J, Settle
  <2>7. /\ new \in Hunt /\ new.batch = j.batch /\ new.floor = j.floor /\ new.ok = j.ok
        /\ new.seen = TRUE
    BY <2>4, <2>5, <2>6 DEF Hunt
  <2>8. j.batch \in Nat /\ j.floor \in Nat /\ floored.floor \in Nat
    BY <1>6, <2>5 DEF Hunt
  <2>9. new.batch \in 1..planned /\ new.floor <= AtLeast(new.batch, low) /\ new.ok <= planned
    BY <1>1, <2>5, <2>7, <2>8 DEF AtLeast
  <2>10. new.floor >= was.floor /\ (new.batch < was.batch => new.batch > was.floor)
    BY <1>2, <1>3, <1>6, <2>2, <2>5, <2>7, <2>8
  <2> QED
    BY <2>7, <2>9, <2>10 DEF Steady, low
<1>9. CASE ~h.seen
  <2>1. new = [h EXCEPT !.seen = TRUE, !.temp = temp]
    BY <1>7, <1>9
  <2>2. /\ new \in Hunt /\ new.batch = b /\ new.floor = was.floor /\ new.ok = was.ok
        /\ new.seen = TRUE
    BY <1>5, <2>1 DEF Hunt
  <2>3. new.batch \in 1..planned /\ new.floor <= AtLeast(new.batch, low)
    BY <1>1, <1>2, <1>3, <2>2 DEF AtLeast
  <2> QED
    BY <1>2, <1>3, <2>2, <2>3 DEF Steady, low
<1> QED
  BY <1>8, <1>9

-----------------------------------------------------------------------------
(* The invariant.                                                          *)

\* The plan in force is the one for its difficulty, and a hunt that observes has
\* a batch.
PlanInForce == plan.m \in Plannable /\ plan = Plan[plan.m]
Observes == hunt.seen => hunt.batch > 0

IInv == TypeOK /\ PlanInForce /\ BatchInPlan /\ Observes

LEMMA PlanIsRecord ==
    ASSUME NEW d \in Plannable PROVE Plan[d] \in Plans
<1>1. Plan[d] = FirstPlan(d) /\ d \in Ms /\ Plan[d].lanes \in Nat \ {0} /\ Plan[d].batch \in Nat \ {0}
  BY PlanFits
<1>2. FirstPlan(d) \in PlanTypes(d)
  BY <1>1, FirstPlanType
<1> QED
  BY <1>1, <1>2 DEF PlanTypes, Plans

LEMMA HuntIsSteady ==
    ASSUME IInv, hunt.batch > 0 PROVE Steady(hunt, plan.batch)
<1>1. plan.batch \in Nat \ {0} /\ batch \in Nat \ {0} /\ hunt \in Hunt
  BY DEF IInv, TypeOK, Plans
<1>2. /\ batch <= plan.batch /\ hunt.batch = batch
      /\ hunt.floor <= AtLeast(batch, MinBatch(plan.batch)) /\ hunt.ok <= plan.batch
  BY DEF IInv, BatchInPlan
<1> QED
  BY <1>1, <1>2 DEF Steady

LEMMA UpdateStep ==
    ASSUME IInv, NEW u \in Updates
    PROVE  /\ Steady(u.hunt, plan.batch)
           /\ u.idle \in 0..80
           /\ u.scale \in (Nat \ {0}) \X (Nat \ {0}) /\ u.scale[1] <= u.scale[2]
           /\ hunt.seen => u.hunt.floor >= hunt.floor
           /\ hunt.seen => (u.hunt.batch < hunt.batch => u.hunt.batch > hunt.floor)
<1> DEFINE begins == hunt.batch <= 0
           was == IF begins THEN HuntBegun(plan.batch) ELSE hunt
           outcome(h, temp, new) ==
               [hunt |-> new,
                idle |-> IF h.seen THEN IdleFor(temp) ELSE 0,
                scale |-> IF new.batch # h.batch THEN <<new.batch, plan.batch>>
                          ELSE IF begins THEN <<StartScalePct, 100>> ELSE scale]
<1>1. PICK temp, new : /\ temp \in {Believed(was.temp, c) : c \in Controls}
                       /\ new \in HuntSteps(was, temp, plan.batch)
                       /\ u = outcome(was, temp, new)
  BY DEF Updates
<1>2. plan.batch \in Nat \ {0} /\ hunt.batch \in Nat
  BY DEF IInv, TypeOK, Plans, Hunt
<1>3. Steady(was, plan.batch)
  BY <1>2, BegunIsSteady, HuntIsSteady
<1>4. hunt.seen => was = hunt
  BY <1>2 DEF IInv, Observes
<1>5. temp \in Nat
  <2>1. was.temp \in Nat
    BY <1>3 DEF Steady, Hunt
  <2>2. \A c \in Controls : c \in Nat
    BY HuntSettings DEF Controls, Control
  <2> HIDE DEF was
  <2> QED
    BY <1>1, <2>1, <2>2 DEF Believed
<1>6. u.hunt = new /\ u.idle \in {IdleFor(temp), 0}
      /\ u.scale \in {<<new.batch, plan.batch>>, <<StartScalePct, 100>>, scale}
  BY <1>1
<1> HIDE DEF was, outcome
<1>7. /\ Steady(new, plan.batch)
      /\ new.floor >= was.floor
      /\ new.batch < was.batch => new.batch > was.floor
  BY <1>1, <1>2, <1>3, <1>5, HuntStep
<1>8. IdleFor(temp) \in 0..80
  BY <1>5, HuntSettings DEF IdleFor, AtMost
<1>9. new.batch \in Nat \ {0} /\ new.batch <= plan.batch
  BY <1>2, <1>7 DEF Steady
<1>10. u.scale \in (Nat \ {0}) \X (Nat \ {0}) /\ u.scale[1] <= u.scale[2]
  <2>1. CASE u.scale = <<new.batch, plan.batch>>
    BY <1>2, <1>9, <2>1
  <2>2. CASE u.scale = <<StartScalePct, 100>>
    BY <2>2, HuntSettings
  <2>3. CASE u.scale = scale
    BY <2>3 DEF IInv, TypeOK
  <2> QED
    BY <1>6, <2>1, <2>2, <2>3
<1> QED
  BY <1>4, <1>6, <1>7, <1>8, <1>10

\* An update that keeps the plan.
LEMMA UpdateKeeps ==
    ASSUME IInv, NEW u \in Updates, Update(u), UNCHANGED <<m, plan, environment>>,
           running' \in BOOLEAN, cooling' \in BOOLEAN
    PROVE  IInv'
<1>1. /\ hunt' = u.hunt /\ batch' = u.hunt.batch /\ idle' = u.idle /\ scale' = u.scale
      /\ m' = m /\ plan' = plan /\ netM' = netM /\ others' = others /\ cudaOk' = cudaOk
  BY DEF Update, environment
<1>2. Steady(hunt', plan.batch) /\ plan.batch \in Nat \ {0}
  BY <1>1, UpdateStep DEF IInv, TypeOK, Plans
<1>3. TypeOK'
  BY <1>1, <1>2, UpdateStep DEF IInv, TypeOK, Steady
<1>4. PlanInForce'
  BY <1>1 DEF IInv, PlanInForce
<1>5. BatchInPlan'
  BY <1>1, <1>2 DEF BatchInPlan, Steady
<1>6. Observes'
  BY <1>2 DEF Observes, Steady
<1> QED
  BY <1>3, <1>4, <1>5, <1>6 DEF IInv

\* A replan at a scale that some update left behind.
LEMMA ReplanKeeps ==
    ASSUME IInv, NEW d \in Plannable, NEW s \in (Nat \ {0}) \X (Nat \ {0}), s[1] <= s[2],
           plan' = Plan[d], batch' = Scaled(Plan[d].batch, s),
           hunt' = NoHunt, idle' = 0, m' \in Ms, scale' \in {s, scale},
           running' \in BOOLEAN, cooling' \in BOOLEAN, UNCHANGED environment
    PROVE  IInv'
<1>1. Plan[d] \in Plans /\ Plan[d].batch \in Nat \ {0} /\ Plan[d].m = d
  BY PlanIsRecord, PlanFits
<1>2. batch' \in 1..Plan[d].batch
  BY <1>1, ScaledBelow
<1>3. /\ NoHunt \in Hunt /\ NoHunt.batch = 0 /\ NoHunt.seen = FALSE
  <2>1. NoHunt.batch = 0 /\ NoHunt.seen = FALSE
    BY DEF NoHunt
  <2>2. NoHunt \in Hunt
    BY DEF NoHunt, Hunt
  <2> QED
    BY <2>1, <2>2
<1>4. TypeOK'
  BY <1>1, <1>2, <1>3 DEF IInv, TypeOK, environment
<1>5. PlanInForce'
  BY <1>1 DEF PlanInForce
<1>6. BatchInPlan'
  BY <1>1, <1>2, <1>3 DEF BatchInPlan
<1>7. Observes'
  BY <1>3 DEF Observes
<1> QED
  BY <1>4, <1>5, <1>6, <1>7 DEF IInv

LEMMA InvInit == Init => IInv
<1> SUFFICES ASSUME Init PROVE IInv
  OBVIOUS
<1>1. /\ netM \in Plannable /\ m = netM /\ plan = Plan[netM] /\ batch = plan.batch
      /\ running = TRUE /\ cooling = FALSE /\ cudaOk = TRUE
      /\ scale = <<1, 1>> /\ hunt = NoHunt /\ idle = 0 /\ others \in OthersMib
  BY DEF Init
<1>2. plan \in Plans /\ plan.batch \in Nat \ {0} /\ plan.m = netM /\ netM \in Ms
  BY <1>1, PlanIsRecord, PlanFits
<1>3. hunt.batch = 0 /\ hunt.seen = FALSE
  BY <1>1 DEF NoHunt
<1>4. hunt \in Hunt
  BY <1>1 DEF NoHunt, Hunt
<1>5. TypeOK
  <2>1. scale \in (Nat \ {0}) \X (Nat \ {0}) /\ scale[1] <= scale[2]
    BY <1>1
  <2>2. m \in Ms /\ netM \in Ms /\ plan \in Plans /\ batch \in Nat \ {0} /\ idle \in 0..80
    BY <1>1, <1>2
  <2>3. {running, cooling, cudaOk} \subseteq BOOLEAN /\ others \in OthersMib
    BY <1>1
  <2> QED
    BY <1>4, <2>1, <2>2, <2>3 DEF TypeOK
<1>6. PlanInForce
  BY <1>1, <1>2 DEF PlanInForce
<1>7. BatchInPlan
  BY <1>1, <1>2, <1>3 DEF BatchInPlan
<1>8. Observes
  BY <1>3 DEF Observes
<1> QED
  BY <1>5, <1>6, <1>7, <1>8 DEF IInv

\* Steps that leave the engine's sizes alone.
LEMMA SizesKept ==
    ASSUME IInv, UNCHANGED <<plan, batch, hunt, scale, idle>>,
           m' \in Ms, netM' \in Ms, others' \in OthersMib,
           running' \in BOOLEAN, cooling' \in BOOLEAN, cudaOk' \in BOOLEAN
    PROVE  IInv'
<1>1. TypeOK'
  BY DEF IInv, TypeOK
<1>2. PlanInForce' /\ BatchInPlan' /\ Observes'
  BY DEF IInv, PlanInForce, BatchInPlan, Observes
<1> QED
  BY <1>1, <1>2 DEF IInv

LEMMA NextKeeps == IInv /\ [Next]_vars => IInv'
<1> SUFFICES ASSUME IInv, [Next]_vars PROVE IInv'
  OBVIOUS
<1>1. /\ m \in Ms /\ netM \in Ms /\ others \in OthersMib
      /\ running \in BOOLEAN /\ cooling \in BOOLEAN /\ cudaOk \in BOOLEAN
      /\ scale \in (Nat \ {0}) \X (Nat \ {0}) /\ scale[1] <= scale[2]
  BY DEF IInv, TypeOK
<1>2. \A d \in Plannable : d \in Ms
  BY DEF Plannable
<1>3. ASSUME NEW u \in Updates, VramEmergency(u) \/ MineRound(u) \/ StartFails(u) PROVE IInv'
  <2>1. /\ Update(u) /\ UNCHANGED <<m, plan, environment>>
        /\ running' \in {running, FALSE} /\ cooling' \in {cooling, TRUE}
    BY <1>3 DEF VramEmergency, MineRound, StartFails
  <2> QED
    BY <1>1, <2>1, UpdateKeeps
<1>4. CASE Restart
  <2>1. ASSUME NEW s \in (Nat \ {0}) \X (Nat \ {0}), s[1] <= s[2], StartStopped(s),
               m \in Plannable
        PROVE  IInv'
    <3>1. /\ plan' = Plan[m] /\ batch' = Scaled(Plan[m].batch, s)
          /\ hunt' = NoHunt /\ idle' = 0 /\ m' = m /\ scale' = s
          /\ running' = TRUE /\ cooling' = cooling /\ UNCHANGED environment
      BY <2>1 DEF StartStopped, Replan
    <3> QED
      BY <1>1, <2>1, <3>1, ReplanKeeps
  <2>2. m \in Plannable
    BY <1>4 DEF Restart
  <2>3. CASE StartStopped(scale)
    BY <1>1, <2>1, <2>2, <2>3
  <2>4. ASSUME NEW u \in Updates, StartStopped(u.scale) PROVE IInv'
    BY <2>1, <2>2, <2>4, UpdateStep
  <2> QED
    BY <1>4, <2>3, <2>4 DEF Restart
<1>5. CASE FollowNetwork
  <2>1. CASE netM \in Plannable /\ Replan(netM, scale)
    <3>1. /\ plan' = Plan[netM] /\ batch' = Scaled(Plan[netM].batch, scale)
          /\ hunt' = NoHunt /\ idle' = 0 /\ m' = netM /\ scale' = scale
          /\ running' = running /\ cooling' = cooling /\ UNCHANGED environment
      BY <1>5, <2>1 DEF FollowNetwork, Replan
    <3> QED
      BY <1>1, <2>1, <3>1, ReplanKeeps
  <2>2. CASE netM \notin Plannable
    <3>1. /\ m' = netM /\ UNCHANGED <<plan, batch, hunt, idle, scale>>
          /\ UNCHANGED <<running, cooling, others, netM, cudaOk>>
      BY <1>5, <2>2 DEF FollowNetwork, environment
    <3> QED
      BY <1>1, <3>1, SizesKept
  <2> QED
    BY <1>5, <2>1, <2>2 DEF FollowNetwork
<1>6. CASE CooldownRestart
  <2>1. CASE netM \in Plannable /\ Replan(netM, scale) /\ cooling' = FALSE
    <3>1. /\ plan' = Plan[netM] /\ batch' = Scaled(Plan[netM].batch, scale)
          /\ hunt' = NoHunt /\ idle' = 0 /\ m' = netM /\ scale' = scale
          /\ running' = TRUE /\ UNCHANGED environment
      BY <1>6, <2>1 DEF CooldownRestart, Replan
    <3> QED
      BY <1>1, <2>1, <3>1, ReplanKeeps
  <2>2. CASE netM \notin Plannable
    <3>1. /\ m \in Plannable /\ plan' = Plan[m] /\ batch' = Scaled(Plan[m].batch, scale)
          /\ hunt' = NoHunt /\ idle' = 0 /\ m' = netM /\ scale' = scale
          /\ running' = TRUE /\ cooling' = cooling /\ UNCHANGED environment
      BY <1>6, <2>2 DEF CooldownRestart
    <3> QED
      BY <1>1, <3>1, ReplanKeeps
  <2> QED
    BY <1>6, <2>1, <2>2 DEF CooldownRestart
<1>7. CASE MineFails \/ CooldownPasses
  <2>1. /\ UNCHANGED <<m, plan, batch, hunt, scale, idle, others, netM, cudaOk>>
        /\ running' \in {running, FALSE} /\ cooling' \in BOOLEAN
    BY <1>7 DEF MineFails, CooldownPasses, environment
  <2> QED
    BY <1>1, <2>1, SizesKept
<1>8. CASE OthersMove \/ NetworkMoves \/ DriverMoves \/ UNCHANGED vars
  <2>1. /\ UNCHANGED <<m, plan, batch, hunt, scale, idle, running, cooling>>
        /\ others' \in OthersMib /\ netM' \in Ms /\ cudaOk' \in {cudaOk, ~cudaOk}
    BY <1>1, <1>8 DEF OthersMove, NetworkMoves, DriverMoves, vars
  <2> QED
    BY <1>1, <2>1, SizesKept
<1> QED
  BY <1>3, <1>4, <1>5, <1>6, <1>7, <1>8 DEF Next, Rounds

LEMMA Invariance == Spec => []IInv
  BY InvInit, NextKeeps, PTL DEF Spec

-----------------------------------------------------------------------------
(* The theorems.                                                           *)

\* The variables of the engine's plan and of the hunt keep their types; batch and
\* scale never get to zero (replan, hunt_thermal_scale).
THEOREM TypeCorrect == Spec => []TypeOK
<1>1. IInv => TypeOK
  BY DEF IInv
<1> QED
  BY <1>1, Invariance, PTL

\* For any settings, readings and steps, the hunt stays between its floor and the
\* plan.
THEOREM HuntStaysInPlan == Spec => []BatchInPlan
<1>1. IInv => BatchInPlan
  BY DEF IInv
<1> QED
  BY <1>1, Invariance, PTL

\* A plan that gives work is what plan_cuda_batch computes first: it is within the
\* caps, and the loop of clamp_plan_to_caps has nothing to shrink.
THEOREM PlansAreNeverShrunk ==
    \A d \in Plannable : Plan[d] = FirstPlan(d) /\ FitsPlan(FirstPlan(d))
<1>1. ASSUME NEW d \in Plannable PROVE Plan[d] = FirstPlan(d) /\ FitsPlan(FirstPlan(d))
  BY PlanFits
<1> QED
  BY <1>1

\* Whatever the hunt, the network, other programs and the driver did, the engine's
\* arena is within the caps of resolve_vram_caps while it mines for its own plan.
THEOREM PackStaysInCaps == Spec => []PackFitsCaps
<1>1. IInv => PackFitsCaps
  <2> SUFFICES ASSUME IInv, m = plan.m PROVE Fits(Arena, plan.lanes, m)
    BY DEF PackFitsCaps
  <2>1. m \in Plannable /\ plan = Plan[m]
    BY DEF IInv, PlanInForce
  <2>2. m \in Ms /\ plan.lanes \in Nat \ {0} /\ plan.batch \in Nat \ {0}
        /\ Fits(plan.batch, plan.lanes, m)
    BY <2>1, PlanFits DEF FitsPlan
  <2>3. Arena \in Nat /\ Arena <= plan.batch
    BY <2>2 DEF IInv, TypeOK, BatchInPlan, Arena, AtLeast
  <2> QED
    BY <2>2, <2>3, SmallerFits
<1> QED
  BY <1>1, Invariance, PTL

\* "Cuts never go to or below this [floor]": for any step size, planned batch and
\* sequence of readings.
THEOREM FloorHolds == Spec => CutsStayAboveFloor
<1> DEFINE Cut == hunt.seen /\ hunt'.seen =>
                    /\ batch' < batch => batch' > hunt.floor
                    /\ hunt'.floor >= hunt.floor
<1>1. IInv /\ IInv' /\ [Next]_vars => Cut
  <2> SUFFICES ASSUME IInv, IInv', [Next]_vars, hunt.seen, hunt'.seen
               PROVE  /\ batch' < batch => batch' > hunt.floor
                      /\ hunt'.floor >= hunt.floor
    OBVIOUS
  <2>1. /\ hunt.batch > 0 /\ hunt.batch = batch
        /\ hunt.floor \in Nat /\ batch \in Nat
    BY DEF IInv, Observes, BatchInPlan, TypeOK, Hunt
  <2>2. ASSUME NEW u \in Updates, Update(u)
        PROVE  /\ batch' < batch => batch' > hunt.floor
               /\ hunt'.floor >= hunt.floor
    BY <2>1, <2>2, UpdateStep DEF Update
  <2>3. ASSUME UNCHANGED <<batch, hunt>>
        PROVE  /\ batch' < batch => batch' > hunt.floor
               /\ hunt'.floor >= hunt.floor
    BY <2>1, <2>3
  <2>4. hunt' # NoHunt
    BY DEF NoHunt
  <2>5. CASE Restart
    BY <2>4, <2>5 DEF Restart, StartStopped, Replan
  <2>6. CASE FollowNetwork \/ CooldownRestart
    BY <2>3, <2>4, <2>6 DEF FollowNetwork, CooldownRestart, Replan
  <2>7. CASE MineFails \/ CooldownPasses
    BY <2>3, <2>7 DEF MineFails, CooldownPasses
  <2>8. CASE OthersMove \/ NetworkMoves \/ DriverMoves \/ UNCHANGED vars
    BY <2>3, <2>8 DEF OthersMove, NetworkMoves, DriverMoves, vars
  <2>9. ASSUME NEW u \in Updates, VramEmergency(u) \/ MineRound(u) \/ StartFails(u)
        PROVE  Update(u)
    BY <2>9 DEF VramEmergency, MineRound, StartFails
  <2> QED
    BY <2>2, <2>5, <2>6, <2>7, <2>8, <2>9 DEF Next, Rounds
<1> QED
  BY <1>1, Invariance, PTL DEF Spec, CutsStayAboveFloor
=============================================================================
