------------------------------ MODULE MatchDrain ------------------------------
(***************************************************************************)
(* The match flush: while an oracle shows the memory cost of the bag, the  *)
(* supervisor drains the bag to the pool and may park the GPU for it       *)
(* (update_match_drain, should_park_cuda and the loop of run(), all in     *)
(* app/supervisor.cpp).                                                    *)
(*                                                                         *)
(* Three parties share the beliefs about the network: the mining thread    *)
(* goes through its loop (refresh, decide about the flush, park or mine),  *)
(* the submit worker sends eligible blocks, and both absorb answers of     *)
(* /difficulty and of lastblock.  How they do that is the subject of       *)
(* NetworkWatch and PaperWatch; here a belief may change at any time, also *)
(* between two steps of a pass.  The reads of the beliefs inside           *)
(* update_match_drain are one step.                                        *)
(*                                                                         *)
(* Parking stops mine_batch, not the workers of several lanes: these hash  *)
(* on by themselves (module CudaEngine) until their rings are full.  Of    *)
(* the engine only the number of lanes and the places where matches wait   *)
(* are kept; cooldowns and new plans, which rebuild it, are the subject of *)
(* BatchSizing.  Order, waves and rotation of the flush are in FlushWave:  *)
(* here the pool accepts an offered block or not.  Back-off and deferral   *)
(* end by the clock and are part of "not yet accepted".                    *)
(***************************************************************************)
EXTENDS Integers, FiniteSets

CONSTANTS
    Ms,         \* memory costs
    ForceMs,    \* values of force_mine_memory_cost; 0 is classic mode
    Limits,     \* can match_drain_max_s end a flush (its default, 0, cannot)?
    MinQueue,   \* match_drain_min_queue
    Blocks      \* blocks that may be in the bag

ASSUME MatchDrainAssumption ==
    /\ Ms \subseteq Nat \ {0}
    /\ ForceMs \subseteq Ms \cup {0}
    /\ Limits \subseteq BOOLEAN
    /\ MinQueue \in Nat \ {0}
    /\ Blocks \subseteq [m : Ms, kind : {"XNM", "XUNI"}]
    /\ IsFiniteSet(Blocks)

VARIABLES
    force,      \* settings_.force_mine_memory_cost
    limit,      \* settings_.match_drain_max_s > 0
    netOk,      \* network_ok_
    netM,       \* network_difficulty_
    paperOk,    \* paper_ok_
    paperM,     \* paper_newest_m_
    bag,        \* the store's pending blocks
    xuniOpen,   \* in_xuni_submit_window()
    active,     \* match_drain_active_
    expired,    \* now >= match_drain_until_
    parked,     \* match_drain_gpu_parked_
    pack,       \* "one" lane, "several", or "hashing": several, and workers that go on
    held,       \* where the engine may hold matches: lanes' snapshots, rings
    hashedOn,   \* history: such workers were at work when the card was parked
    loop        \* where the mining thread's pass is

config == <<force, limit>>
beliefs == <<netOk, netM, paperOk, paperM>>
drain == <<active, expired, parked>>
card == <<pack, held, hashedOn>>
drainVars == <<config, beliefs, bag, xuniOpen, drain, card, loop>>

-----------------------------------------------------------------------------
(* The oracles.                                                            *)

Hybrid == force # 0                         \* force_mine_mode
BagM == IF Hybrid THEN force ELSE netM      \* bag_target_m

NetSays(m) == netOk /\ netM = m
PaperSays(m) == paperOk /\ paperM = m
OracleSays(m) == NetSays(m) \/ PaperSays(m)
OracleLeft(m) == ~OracleSays(m) /\ (netOk \/ paperOk)

\* submit_target_m: /difficulty first, then the paper, then the last good m=.
SubmitM == IF netOk THEN netM ELSE IF paperOk THEN paperM ELSE netM

\* pending_eligible_m counts XUNI blocks and blocks that the pool holds, too.
Eligible(m) == {b \in bag : b.m >= m}

\* should_park_cuda: /difficulty decides; without it the paper does.
ShouldPark == active /\ IF netOk THEN netM = BagM ELSE PaperSays(BagM)

-----------------------------------------------------------------------------
(* Mining thread.                                                          *)

\* The rotation mark of the flush starts over, too (FlushWave).
StartDrain ==
    /\ ~active
    /\ OracleSays(BagM) /\ Cardinality(Eligible(BagM)) >= MinQueue
    /\ active' = TRUE /\ parked' = FALSE /\ expired' = FALSE

\* Mutant: a flush goes on until its queue is clear or the oracles leave.
OverWithoutBudget ==
    (OracleSays(BagM) /\ Eligible(BagM) = {}) \/ OracleLeft(BagM)

Over ==
    \/ OracleSays(BagM) /\ Eligible(BagM) = {}      \* "queue clear"
    \/ limit /\ expired                             \* "time budget"
    \/ OracleLeft(BagM)                             \* "oracles left bag m="

\* The snapshot is saved too (BlockStore's Flush).
EndDrain ==
    /\ active /\ Over
    /\ active' = FALSE /\ parked' = FALSE /\ expired' = FALSE

\* update_match_drain
UpdateMatchDrain ==
    /\ loop = "drain" /\ loop' = "gpu"
    /\ \/ StartDrain
       \/ EndDrain
       \/ /\ IF active THEN ~Over
             ELSE ~(OracleSays(BagM) /\ Cardinality(Eligible(BagM)) >= MinQueue)
          /\ UNCHANGED drain
    /\ UNCHANGED <<config, beliefs, bag, xuniOpen, card>>

\* A hit goes to the bag, or to the pool with the next live submit.
Found(b) == bag' \in {bag, bag \cup {b}}

\* Parking: drain_pipeline returns the last wave of each lane, once, and this is
\* handled first.  Results in the rings stay.
Park ==
    /\ loop = "gpu" /\ loop' = "drain"
    /\ ShouldPark
    /\ parked' = TRUE
    /\ IF parked THEN UNCHANGED <<bag, held, hashedOn>>
       ELSE /\ held' = held \ {"snapshots"} /\ hashedOn' = (pack = "hashing")
            /\ \E b \in Blocks : Found(b)
    /\ UNCHANGED <<config, beliefs, xuniOpen, active, expired, pack>>

\* mine_batch keeps the new wave in the lane's snapshot; several lanes get workers,
\* which put the results of the waves before into rings.
MineWave ==
  /\ UNCHANGED hashedOn
  /\ IF pack = "one" THEN UNCHANGED pack /\ held' = {"snapshots"}
     ELSE pack' = "hashing" /\ held' = {"snapshots", "rings"}

\* Mutant: "resumed" is noted only when a flush begins or ends.
MineKeepsParked ==
    /\ loop = "gpu" /\ loop' = "drain"
    /\ ~ShouldPark
    /\ MineWave
    /\ \E b \in Blocks : Found(b)
    /\ UNCHANGED <<config, beliefs, xuniOpen, drain>>

\* mine_batch: its matches are those of the wave before.
Mine ==
    /\ loop = "gpu" /\ loop' = "drain"
    /\ ~ShouldPark
    /\ parked' = FALSE
    /\ MineWave
    /\ \E b \in Blocks : Found(b)
    /\ UNCHANGED <<config, beliefs, xuniOpen, active, expired>>

MiningLoop == UpdateMatchDrain \/ Park \/ Mine

\* lane_worker_loop: a worker ends a wave and begins the next, parked or not.
LaneHashes ==
    /\ pack = "hashing"
    /\ held' = {"snapshots", "rings"}
    /\ UNCHANGED <<config, beliefs, bag, xuniOpen, drain, pack, hashedOn, loop>>

\* set_difficulty, in classic mode, with another number of lanes: workers end with
\* the wave in hand and their mailboxes are emptied; the lanes keep their snapshots.
LanesReplanned ==
    /\ loop = "drain" /\ ~Hybrid
    /\ pack' \in {"one", "several"}
    /\ held' = IF pack = "hashing" THEN {"snapshots"} ELSE held
    /\ UNCHANGED <<config, beliefs, bag, xuniOpen, drain, hashedOn, loop>>

\* The engine stops, for a cooldown or after an error, and starts with the lanes of
\* a new plan; what it held is gone.
EngineRestarts ==
    /\ pack' \in {"one", "several"}
    /\ held' = {}
    /\ UNCHANGED <<config, beliefs, bag, xuniOpen, drain, hashedOn, loop>>

Engine == LaneHashes \/ LanesReplanned \/ EngineRestarts

-----------------------------------------------------------------------------
(* Submit worker, pool, network and clock.                                 *)

\* try_flush_pending gets as far as its wave: without a live /difficulty an
\* oracle has to show the bag's m=.
FlushAllowed == netOk \/ OracleSays(BagM)

\* ready_to_flush
Ready(b) == b.kind = "XUNI" => xuniOpen

\* A wave holds b and the pool accepts it.
PoolAccepts(b) ==
    /\ FlushAllowed
    /\ b \in Eligible(SubmitM) /\ Ready(b)
    /\ bag' = bag \ {b}
    /\ UNCHANGED <<config, beliefs, xuniOpen, drain, card, loop>>

\* refresh_network in either thread, and what submits teach about the network.
NetChanges ==
    /\ netOk' \in BOOLEAN /\ netM' \in Ms
    /\ UNCHANGED <<config, paperOk, paperM, bag, xuniOpen, drain, card, loop>>

\* refresh_paper in either thread.
PaperChanges ==
    /\ paperOk' \in BOOLEAN /\ paperM' \in Ms
    /\ UNCHANGED <<config, netOk, netM, bag, xuniOpen, drain, card, loop>>

WindowTurns ==
    /\ xuniOpen' = ~xuniOpen
    /\ UNCHANGED <<config, beliefs, bag, drain, card, loop>>

\* match_drain_until_ passes.
BudgetRunsOut ==
    /\ active /\ limit /\ ~expired
    /\ expired' = TRUE
    /\ UNCHANGED <<config, beliefs, bag, xuniOpen, active, parked, card, loop>>

Surroundings ==
    \/ \E b \in Blocks : PoolAccepts(b)
    \/ NetChanges \/ PaperChanges \/ WindowTurns \/ BudgetRunsOut

-----------------------------------------------------------------------------
\* run() is about to loop; the bag is what earlier runs left.  Before its first
\* answer the paper is not ok, whatever paperM.
DrainInit ==
    /\ force \in ForceMs /\ limit \in Limits
    /\ netOk \in BOOLEAN /\ netM \in Ms
    /\ paperOk = FALSE /\ paperM \in Ms
    /\ bag \in SUBSET Blocks
    /\ xuniOpen \in BOOLEAN
    /\ active = FALSE /\ expired = FALSE /\ parked = FALSE
    /\ pack \in {"one", "several"} /\ held = {} /\ hashedOn = FALSE
    /\ loop = "drain"

DrainNext == MiningLoop \/ Engine \/ Surroundings

\* The mining thread's loop goes on, and time passes.
Fairness == WF_drainVars(MiningLoop) /\ WF_drainVars(BudgetRunsOut)

DrainSpec == DrainInit /\ [][DrainNext]_drainVars /\ Fairness
-----------------------------------------------------------------------------
(* Properties.                                                             *)

DrainTypeOK ==
    /\ force \in ForceMs /\ limit \in Limits
    /\ netOk \in BOOLEAN /\ netM \in Ms
    /\ paperOk \in BOOLEAN /\ paperM \in Ms
    /\ bag \in SUBSET Blocks /\ xuniOpen \in BOOLEAN
    /\ active \in BOOLEAN /\ expired \in BOOLEAN /\ parked \in BOOLEAN
    /\ pack \in {"one", "several", "hashing"} /\ held \subseteq {"snapshots", "rings"}
    /\ hashedOn \in BOOLEAN /\ loop \in {"drain", "gpu"}

\* However the oracles move between passes, flushes begin and end, parking comes
\* and goes within one flush and replans change the number of lanes: a parked card
\* keeps matches back only if several lanes were hashing by themselves when it was
\* parked.  A single lane keeps none for the time of the flush.
HitsHandedOver == parked /\ held # {} => hashedOn

\* The pool takes a block that it is offered again and again.
PoolTakesBag == \A b \in Blocks : SF_drainVars(PoolAccepts(b))

\* What is believed about the network does not change any more.
BeliefsSettle == <>[][UNCHANGED beliefs]_drainVars

\* A match flush holds up mining for a while only: with a time budget whatever
\* the pool does, without one when the pool takes what it is offered and the
\* XUNI window opens again and again.
MiningResumes ==
    (limit \/ (PoolTakesBag /\ BeliefsSettle /\ []<>xuniOpen)) =>
        []<><<Mine>>_drainVars
=============================================================================
