----------------------------- MODULE NetworkWatch -----------------------------
(***************************************************************************)
(* What the miner believes about the network difficulty and how the engine *)
(* follows it: NetworkPoller (network/difficulty.cpp) publishes answers of *)
(* /difficulty, and Supervisor::refresh_network (app/supervisor.cpp)       *)
(* absorbs them - in the mining thread, which may replan the engine, and in*)
(* the submit worker, which may not.                                       *)
(*                                                                         *)
(* A snapshot is copied under the poller's mutex, compared with the last   *)
(* one under state_mu_ and applied under state_mu_ again: three steps,     *)
(* between which the other thread may do the same with an older or a newer *)
(* snapshot.  Sequence numbers are only tested for equality: a poll        *)
(* renumbers those still remembered, in their order.  Any time may pass    *)
(* between two steps, so an answer may be too old whenever that is asked.  *)
(* Back-off, deferral and the newest sealed block ("paper") decide what is *)
(* sent, not what is believed here; SubmitPipeline and FlushWave take that *)
(* as a choice.  The blocking refresh of the last flush comes when mining  *)
(* is over and is left out.                                                *)
(***************************************************************************)
EXTENDS Integers, FiniteSets

CONSTANTS
    Ms,               \* memory costs
    ForceMs,          \* values of force_mine_memory_cost to consider; 0 is classic
    Noise,            \* numbers outside the accepted range that the server may send
    FailBudget,       \* failed polls that take the network down: 3,
    MatchFailBudget   \*   6 while a hybrid miner matches

ASSUME NetworkWatchAssumption ==
    /\ Ms \subseteq Nat \ {0}
    /\ ForceMs \subseteq Ms \cup {0}
    /\ Noise \subseteq Int \ (Ms \cup {-1})
    /\ FailBudget \in Nat /\ MatchFailBudget \in Nat
    /\ 0 < FailBudget /\ FailBudget <= MatchFailBudget

Threads == {"main", "worker"}

NoAnswer == -1      \* the poll failed

\* 0 before the first poll; two copies, the last one absorbed and the newest.
Seqs == 0..4
Status == [m : Ms \cup {NoAnswer} \cup Noise, seq : Seqs]
Nothing == [m |-> NoAnswer, seq |-> 0]

VARIABLES
    force,      \* settings_.force_mine_memory_cost
    serverM,    \* memory cost the pool asks for
    status,     \* NetworkPoller::status_
    \* last_poll_seq_, network_difficulty_, network_ok_, difficulty_fail_streak_
    lastSeq, netM, netOk, streak,
    \* engine_->difficulty(), is_running(); history: a change was absorbed that
    \* the engine has not been told
    engineM, engineOn, stranded,
    \* place, and copy of the snapshot, per thread
    pc, copy

netVars == <<lastSeq, netM, netOk, streak>>
engineVars == <<engineM, engineOn, stranded>>
vars == <<force, serverM, status, netVars, engineVars, pc, copy>>

Hybrid == force # 0                            \* force_mine_mode
MiningM == IF Hybrid THEN force ELSE netM      \* what the engine is to hash at

-----------------------------------------------------------------------------
(* The network and the poller's thread.                                    *)

ServerMoves ==
    /\ serverM' \in Ms \ {serverM}
    /\ UNCHANGED <<force, status, netVars, engineVars, pc, copy>>

Remembered == ({lastSeq} \cup {copy[t].seq : t \in Threads}) \ {0}
Renumbered(s) == Cardinality({r \in Remembered : r <= s})

\* What a poll may bring: the truth, nothing, or a number that makes no sense.  The
\* leaderboard, which is asked when /difficulty fails, is part of it.
Answers == {serverM, NoAnswer} \cup Noise

\* poll_once.
Poll ==
    /\ \E m \in Answers : status' = [m |-> m, seq |-> Cardinality(Remembered) + 1]
    /\ lastSeq' = Renumbered(lastSeq)
    /\ copy' = [t \in Threads |-> [m |-> copy[t].m, seq |-> Renumbered(copy[t].seq)]]
    /\ UNCHANGED <<force, serverM, netM, netOk, streak, engineVars, pc>>

-----------------------------------------------------------------------------
(* refresh_network, by either thread.                                      *)

\* From "read" to "mark", "apply" and "after".
Goto(t, place) == pc' = [pc EXCEPT ![t] = place]

CopyStatus(t) ==
    /\ pc[t] = "read" /\ Goto(t, "mark")
    /\ copy' = [copy EXCEPT ![t] = status]
    /\ UNCHANGED <<force, serverM, status, netVars, engineVars>>

\* The refresh is over and its copy out of scope.
EndRefresh(t) ==
    /\ Goto(t, "after")
    /\ copy' = [copy EXCEPT ![t] = Nothing]
    /\ UNCHANGED <<force, serverM, status, lastSeq, engineOn>>

\* Absorbed before: a parked card asks every 50 ms and must not count one failure
\* again and again.
SkipStatus(t) ==
    /\ pc[t] = "mark" /\ copy[t].seq \in {0, lastSeq}
    /\ EndRefresh(t)
    /\ UNCHANGED <<netM, netOk, streak, engineM, stranded>>

\* The copy's number has served its turn.
MarkStatus(t) ==
    /\ pc[t] = "mark" /\ copy[t].seq \notin {0, lastSeq} /\ Goto(t, "apply")
    /\ lastSeq' = copy[t].seq
    /\ copy' = [copy EXCEPT ![t] = [m |-> copy[t].m, seq |-> 0]]
    /\ UNCHANGED <<force, serverM, status, netM, netOk, streak, engineVars>>

\* Mutant: a lower difficulty passes for nonsense.
AcceptHigher(raw) == IF raw < netM THEN netM ELSE raw

\* accept_network_difficulty.
Accept(raw) == IF raw \in Noise THEN netM ELSE raw

\* Mutant: the mining thread records the change for the engine and tells it nothing.
TellEngineLater(t) == stranded' = FALSE /\ UNCHANGED engineM

\* Only the mining thread may touch the engine, and only while it runs.
TellEngine(t) ==
    IF t = "main" /\ engineOn
      THEN engineM' = netM' /\ stranded' = FALSE
      ELSE stranded' = TRUE /\ UNCHANGED engineM

\* Mutant: the network comes up only when its difficulty changes.
ApplyChange(t) ==
    /\ pc[t] = "apply" /\ copy[t].m # NoAnswer
    /\ netM' = Accept(copy[t].m) /\ netOk' = (netOk \/ netM' # netM) /\ streak' = 0
    /\ IF netM' # netM /\ ~Hybrid THEN TellEngine(t) ELSE UNCHANGED <<engineM, stranded>>
    /\ EndRefresh(t)

\* An answer: a classic miner follows a change of difficulty.
ApplyAnswer(t) ==
    /\ pc[t] = "apply" /\ copy[t].m # NoAnswer
    /\ netM' = Accept(copy[t].m) /\ netOk' = TRUE /\ streak' = 0
    /\ IF netM' # netM /\ ~Hybrid THEN TellEngine(t) ELSE UNCHANGED <<engineM, stranded>>
    /\ EndRefresh(t)

\* Failed polls that the last good answer survives.
Budget == IF Hybrid /\ netM = force THEN MatchFailBudget ELSE FailBudget

\* No answer: within the budget, and while it is not too old, the last good answer
\* counts.  Beyond the larger budget the number of failures makes no difference.
ApplyFailure(t) ==
    /\ pc[t] = "apply" /\ copy[t].m = NoAnswer
    /\ streak' = (IF streak < MatchFailBudget THEN streak + 1 ELSE streak)
    /\ \E young \in BOOLEAN : netOk' = (young /\ streak' < Budget)
    /\ EndRefresh(t)
    /\ UNCHANGED <<netM, engineM, stranded>>

Refresh(t) ==
    CopyStatus(t) \/ SkipStatus(t) \/ MarkStatus(t) \/ ApplyAnswer(t) \/ ApplyFailure(t)

-----------------------------------------------------------------------------
(* Mining thread: what run() does with the engine after the refresh.       *)

\* mine_batch, or parking for a match flush.  An engine that is off is started
\* first, with the difficulty it had.
Mine ==
    /\ pc["main"] = "after" /\ Goto("main", "read")
    /\ engineOn' = TRUE
    /\ UNCHANGED <<force, serverM, status, netVars, engineM, stranded, copy>>

\* A VRAM emergency or CUDA error 700 stops the engine for a cooldown, which goes on.
Cool ==
    /\ pc["main"] = "after" /\ Goto("main", "read")
    /\ engineOn' = FALSE
    /\ UNCHANGED <<force, serverM, status, netVars, engineM, stranded, copy>>

\* Mutant: the engine comes back with the network's difficulty in either mode.
RestartAtNetM ==
    /\ pc["main"] = "after" /\ ~engineOn /\ Goto("main", "read")
    /\ engineOn' = TRUE /\ engineM' = netM /\ stranded' = FALSE
    /\ UNCHANGED <<force, serverM, status, netVars, copy>>

\* The cooldown is over: start, then lock the forced or follow the network's m=.
Restart ==
    /\ pc["main"] = "after" /\ ~engineOn /\ Goto("main", "read")
    /\ engineOn' = TRUE /\ engineM' = MiningM /\ stranded' = FALSE
    /\ UNCHANGED <<force, serverM, status, netVars, copy>>

Main == Refresh("main") \/ Mine \/ Cool \/ Restart

-----------------------------------------------------------------------------
(* Submit worker: after the refresh it sends a live hit or a flush wave.   *)

\* Nothing is sent, or the pool holds or refuses: nothing is learned.
NothingLearned ==
    /\ pc["worker"] = "after" /\ Goto("worker", "read")
    /\ UNCHANGED <<force, serverM, status, netVars, engineVars, copy>>

\* A block is accepted: the network is up.
Accepted ==
    /\ pc["worker"] = "after" /\ Goto("worker", "read")
    /\ netOk' = TRUE
    /\ UNCHANGED <<force, serverM, status, lastSeq, netM, streak, engineVars, copy>>

\* note_submit_transport_failure: the network keeps its good name after a rate
\* limit or while an oracle (the poller or the paper) says the forced memory cost.
SubmitFails ==
    /\ pc["worker"] = "after" /\ Goto("worker", "read")
    /\ \E spared \in BOOLEAN :
          netOk' = (netOk /\ (spared \/ (Hybrid /\ netM = force)))
    /\ UNCHANGED <<force, serverM, status, lastSeq, netM, streak, engineVars, copy>>

Worker == Refresh("worker") \/ NothingLearned \/ Accepted \/ SubmitFails

-----------------------------------------------------------------------------
(* The specification.                                                      *)

\* After the start-up probe, whose answer has been absorbed.  When it made no sense
\* or there was none, the miner takes the network for the configured memory cost.
Init ==
    /\ force \in ForceMs /\ serverM \in Ms
    /\ \E m \in Answers :
          /\ status = [m |-> m, seq |-> 1]
          /\ netM \in (IF m = serverM THEN {m} ELSE Ms)
          /\ netOk = (m # NoAnswer)
          /\ streak = (IF m = NoAnswer THEN 1 ELSE 0)
    /\ lastSeq = 1
    /\ engineM = MiningM /\ engineOn = TRUE /\ stranded = FALSE
    /\ pc = [t \in Threads |-> "read"]
    /\ copy = [t \in Threads |-> Nothing]

Next == ServerMoves \/ Poll \/ Main \/ Worker

Spec == Init /\ [][Next]_vars

\* The poller and the mining thread loop; every wait and every HTTP call has a limit.
\* The worker refreshes only when it has something to send.
FairSpec == Spec /\ WF_vars(Poll) /\ WF_vars(Main)

-----------------------------------------------------------------------------
(* Properties.                                                             *)

TypeOK ==
    /\ force \in ForceMs /\ serverM \in Ms /\ status \in Status
    /\ lastSeq \in Seqs /\ netM \in Ms /\ netOk \in BOOLEAN /\ streak \in 0..MatchFailBudget
    /\ engineM \in Ms /\ engineOn \in BOOLEAN /\ stranded \in BOOLEAN
    /\ pc \in [Threads -> {"read", "mark", "apply", "after"}]
    /\ copy \in [Threads -> Status]

\* The engine hashes at the forced memory cost, whatever the network does, and in
\* classic mode at the believed difficulty - unless a change was absorbed by the
\* worker or while the engine was off, and neither a restart nor a further change
\* came since.
EngineAtTarget == IF Hybrid THEN engineM = force ELSE stranded \/ engineM = netM

\* The poller has the truth from some time on.
NewsStaysGood == <>[](status.m = serverM)

\* Although the threads may overwrite a newer snapshot with an older one, failures
\* count and noise arrives: once the poller has the truth for good, so has the
\* miner.
BeliefCatchesUp == NewsStaysGood => <>[](netM = serverM)

\* A lost poll, a stale snapshot or a failed submit takes the network down for a
\* while only: it stays up once the news stays good and submits go through.
NetworkComesUp == NewsStaysGood /\ <>[][SubmitFails => (netOk => netOk')]_vars => <>[]netOk

\* "Auto-follow difficulty - mines at the network's current minimum": a classic
\* miner ends up hashing at the difficulty that the network keeps.
EngineFollows == NewsStaysGood => <>[](~Hybrid => engineM = serverM)
=============================================================================
