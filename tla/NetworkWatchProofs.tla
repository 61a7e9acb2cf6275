-------------------------- MODULE NetworkWatchProofs --------------------------
(* Theorems about NetworkWatch, for every set of memory costs and budgets. *)
EXTENDS NetworkWatch, FiniteSetTheorems, TLAPS

USE DEF Threads, NoAnswer, Seqs, Nothing

-----------------------------------------------------------------------------
(* Renumbering keeps the sequence numbers within 0..4.                     *)

\* Removing 0 from three numbers leaves at most three.
LEMMA ThreeAtMost ==
    ASSUME NEW a, NEW b, NEW c
    PROVE  LET S == ({a} \cup {b, c}) \ {0}
           IN  IsFiniteSet(S) /\ Cardinality(S) \in 0..3
<1> DEFINE S == ({a} \cup {b, c}) \ {0}
<1> DEFINE C == ({} \cup {c})
<1> DEFINE B == C \cup {b}
<1> DEFINE A == B \cup {a}
<1>0. IsFiniteSet({}) /\ Cardinality({}) = 0
  BY FS_EmptySet
<1>1. IsFiniteSet(C) /\ Cardinality(C) \in 0..1
  BY <1>0, FS_AddElement
<1> HIDE DEF C
<1>2. IsFiniteSet(B) /\ Cardinality(B) \in 0..2
  BY <1>1, FS_AddElement
<1> HIDE DEF B
<1>3. IsFiniteSet(A) /\ Cardinality(A) \in 0..3
  BY <1>2, FS_AddElement
<1>4. S \subseteq A
  BY DEF A, B, C
<1> HIDE DEF A, S
<1>5. IsFiniteSet(S) /\ Cardinality(S) \in Nat /\ Cardinality(S) <= Cardinality(A)
  BY <1>3, <1>4, FS_Subset, FS_CardinalityType
<1>6. Cardinality(S) \in 0..3
  BY <1>3, <1>5
<1> QED
  BY <1>5, <1>6 DEF S

\* So a poll finds a number in 0..4, and the remembered ones stay there.
LEMMA NumbersFit ==
    /\ Cardinality(Remembered) + 1 \in Seqs
    /\ \A s : Renumbered(s) \in Seqs
<1>1. {copy[t].seq : t \in Threads} = {copy["main"].seq, copy["worker"].seq}
  OBVIOUS
<1>2. IsFiniteSet(Remembered) /\ Cardinality(Remembered) \in 0..3
  BY <1>1, ThreeAtMost DEF Remembered
<1>3. ASSUME NEW s
      PROVE  Renumbered(s) \in 0..3
  <2> DEFINE R == {r \in Remembered : r <= s}
  <2>1. R \subseteq Remembered
    OBVIOUS
  <2> HIDE DEF R
  <2>2. IsFiniteSet(R) /\ Cardinality(R) \in Nat /\ Cardinality(R) <= Cardinality(Remembered)
    BY <1>2, <2>1, FS_Subset, FS_CardinalityType
  <2>3. Cardinality(R) \in 0..3
    BY <1>2, <2>2
  <2> QED
    BY <2>3 DEF R, Renumbered
<1>4. \A s : Renumbered(s) \in Seqs
  BY <1>3
<1>5. Cardinality(Remembered) + 1 \in Seqs
  BY <1>2
<1> QED
  BY <1>4, <1>5

-----------------------------------------------------------------------------
(* Types.                                                                  *)

LEMMA TypeInit == Init => TypeOK
<1> SUFFICES ASSUME Init PROVE TypeOK
  OBVIOUS
<1> USE NetworkWatchAssumption
<1>1. engineM \in Ms
  BY DEF Init, MiningM, Hybrid
<1>2. status \in Status /\ netM \in Ms /\ netOk \in BOOLEAN /\ streak \in 0..MatchFailBudget
  BY DEF Init, Answers, Status
<1>3. copy \in [Threads -> Status]
  BY DEF Init, Status
<1>4. engineOn \in BOOLEAN /\ stranded \in BOOLEAN
  BY DEF Init
<1>5. force \in ForceMs /\ serverM \in Ms /\ lastSeq \in Seqs
      /\ pc \in [Threads -> {"read", "mark", "apply", "after"}]
  BY DEF Init
<1> QED
  BY <1>1, <1>2, <1>3, <1>4, <1>5 DEF TypeOK

\* One thread's refresh.
LEMMA TypeRefresh ==
    ASSUME TypeOK, NEW t \in Threads, Refresh(t)
    PROVE  TypeOK'
<1> USE NetworkWatchAssumption
<1> USE DEF Goto, Status, netVars, engineVars
<1>1. CASE CopyStatus(t)
  BY <1>1 DEF CopyStatus, TypeOK
<1>2. CASE SkipStatus(t)
  BY <1>2 DEF SkipStatus, EndRefresh, TypeOK
<1>3. CASE MarkStatus(t)
  BY <1>3 DEF MarkStatus, TypeOK
<1>4. CASE ApplyAnswer(t)
  <2>1. netM' \in Ms
    BY <1>4 DEF ApplyAnswer, Accept, TypeOK
  <2>2. engineM' \in Ms /\ stranded' \in BOOLEAN
    BY <1>4, <2>1 DEF ApplyAnswer, TellEngine, TypeOK
  <2> QED
    BY <1>4, <2>1, <2>2 DEF ApplyAnswer, EndRefresh, TypeOK
<1>5. CASE ApplyFailure(t)
  <2>1. streak' \in 0..MatchFailBudget
    BY <1>5 DEF ApplyFailure, TypeOK
  <2>2. netOk' \in BOOLEAN
    BY <1>5 DEF ApplyFailure
  <2> QED
    BY <1>5, <2>1, <2>2 DEF ApplyFailure, EndRefresh, TypeOK
<1> QED
  BY <1>1, <1>2, <1>3, <1>4, <1>5 DEF Refresh

LEMMA TypeNext == TypeOK /\ [Next]_vars => TypeOK'
<1> SUFFICES ASSUME TypeOK, [Next]_vars PROVE TypeOK'
  OBVIOUS
<1> USE NetworkWatchAssumption
<1> USE DEF Goto, netVars, engineVars
<1>1. CASE ServerMoves
  BY <1>1 DEF ServerMoves, TypeOK
<1>2. CASE Poll
  <2>1. status' \in Status
    BY <1>2, NumbersFit DEF Poll, Answers, Status, TypeOK
  <2>2. lastSeq' \in Seqs
    BY <1>2, NumbersFit DEF Poll
  <2>3. copy' \in [Threads -> Status]
    BY <1>2, NumbersFit DEF Poll, Status, TypeOK
  <2> QED
    BY <1>2, <2>1, <2>2, <2>3 DEF Poll, TypeOK
<1>3. ASSUME NEW t \in Threads, Refresh(t) PROVE TypeOK'
  BY <1>3, TypeRefresh
<1>4. CASE Mine
  BY <1>4 DEF Mine, TypeOK
<1>5. CASE Cool
  BY <1>5 DEF Cool, TypeOK
<1>6. CASE Restart
  <2>1. MiningM \in Ms
    BY DEF MiningM, Hybrid, TypeOK
  <2> QED
    BY <1>6, <2>1 DEF Restart, TypeOK
<1>7. CASE NothingLearned
  BY <1>7 DEF NothingLearned, TypeOK
<1>8. CASE Accepted
  BY <1>8 DEF Accepted, TypeOK
<1>9. CASE SubmitFails
  <2>1. netOk' \in BOOLEAN
    BY <1>9 DEF SubmitFails
  <2> QED
    BY <1>9, <2>1 DEF SubmitFails, TypeOK
<1>10. CASE UNCHANGED vars
  BY <1>10 DEF vars, TypeOK
<1> QED
  BY <1>1, <1>2, <1>3, <1>4, <1>5, <1>6, <1>7, <1>8, <1>9, <1>10
  DEF Next, Main, Worker

\* The types hold in every reachable state: the number of remembered snapshots,
\* hence of sequence numbers, is bounded, and the count of failures as well.
THEOREM TypeCorrect == Spec => []TypeOK
  BY TypeInit, TypeNext, PTL DEF Spec

-----------------------------------------------------------------------------
(* What the engine hashes at.                                              *)

LEMMA TargetRefresh ==
    ASSUME TypeOK, EngineAtTarget, NEW t \in Threads, Refresh(t)
    PROVE  EngineAtTarget'
<1> USE DEF EngineAtTarget, Hybrid, netVars, engineVars
<1>1. CASE CopyStatus(t)
  BY <1>1 DEF CopyStatus
<1>2. CASE SkipStatus(t)
  BY <1>2 DEF SkipStatus, EndRefresh
<1>3. CASE MarkStatus(t)
  BY <1>3 DEF MarkStatus
<1>4. CASE ApplyAnswer(t)
  <2>1. CASE netM' # netM /\ ~Hybrid
    BY <1>4, <2>1 DEF ApplyAnswer, EndRefresh, TellEngine
  <2>2. CASE ~(netM' # netM /\ ~Hybrid)
    BY <1>4, <2>2 DEF ApplyAnswer, EndRefresh
  <2> QED
    BY <2>1, <2>2
<1>5. CASE ApplyFailure(t)
  BY <1>5 DEF ApplyFailure, EndRefresh
<1> QED
  BY <1>1, <1>2, <1>3, <1>4, <1>5 DEF Refresh

LEMMA TargetNext == TypeOK /\ EngineAtTarget /\ [Next]_vars => EngineAtTarget'
<1> SUFFICES ASSUME TypeOK, EngineAtTarget, [Next]_vars PROVE EngineAtTarget'
  OBVIOUS
<1> USE DEF EngineAtTarget, Hybrid, netVars, engineVars
<1>1. CASE ServerMoves
  BY <1>1 DEF ServerMoves
<1>2. CASE Poll
  BY <1>2 DEF Poll
<1>3. ASSUME NEW t \in Threads, Refresh(t) PROVE EngineAtTarget'
  BY <1>3, TargetRefresh
<1>4. CASE Mine
  BY <1>4 DEF Mine
<1>5. CASE Cool
  BY <1>5 DEF Cool
<1>6. CASE Restart
  BY <1>6 DEF Restart, MiningM
<1>7. CASE NothingLearned
  BY <1>7 DEF NothingLearned
<1>8. CASE Accepted
  BY <1>8 DEF Accepted
<1>9. CASE SubmitFails
  BY <1>9 DEF SubmitFails
<1>10. CASE UNCHANGED vars
  BY <1>10 DEF vars
<1> QED
  BY <1>1, <1>2, <1>3, <1>4, <1>5, <1>6, <1>7, <1>8, <1>9, <1>10
  DEF Next, Main, Worker

\* In hybrid mode the engine hashes at the forced memory cost whatever polls, cooldowns
\* and restarts do; in classic mode it differs from the believed difficulty only
\* after a change that was absorbed by the worker or while the engine was off.
THEOREM EngineTarget == Spec => []EngineAtTarget
<1>1. Init => EngineAtTarget
  BY DEF Init, EngineAtTarget, MiningM, Hybrid
<1> QED
  BY <1>1, TypeCorrect, TargetNext, PTL DEF Spec
=============================================================================
