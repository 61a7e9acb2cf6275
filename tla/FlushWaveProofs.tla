--------------------------- MODULE FlushWaveProofs ---------------------------
(***************************************************************************)
(* For any bag, wave size and parallelism, with any answers of the pool: no*)
(* block leaves the bag unaccepted, no accepted block is sent again, and no*)
(* wave is short.  The last needs to count: a cut by rank in a total order *)
(* has as many blocks as asked, or all (FirstPlaces).                      *)
(***************************************************************************)
EXTENDS FlushWave, TLAPS, FiniteSetTheorems

\* What the safety argument needs of the types.
Types ==
    /\ bag \subseteq Block /\ nextId \in 1..(MaxId + 1)
    /\ acceptedIds \subseteq 1..MaxId /\ accepted \subseteq 1..MaxId

Inv == Types /\ WaveInBag /\ OnlyAcceptedLeave /\ AcceptedNotResent

\* A batch is taken from the bag, whatever the skip mark, limit and order are.
LEMMA BatchInBag ==
    ASSUME NEW limit PROVE ListFlushBatch(limit) \subseteq bag
BY DEF ListFlushBatch, Oldest, Eligible

\* Cutting the work list or a chunk off takes elements of the list.
LEMMA FirstIsSubset ==
    ASSUME NEW S, NEW n PROVE FirstToFlush(S, n) \subseteq S
BY DEF FirstToFlush

\* Starting a wave from blocks of the bag keeps the invariant.
LEMMA BeginKeeps ==
    ASSUME Inv, pc = "idle", NEW batch, batch \subseteq bag, Begin(batch)
    PROVE  Inv'
<1>1. /\ UNCHANGED <<bag, nextId, chunk, acceptedIds, accepted>>
      /\ work' = batch /\ pc' = "send"
  BY DEF Begin
<1>2. Types' /\ OnlyAcceptedLeave'
  BY <1>1 DEF Inv, Types, OnlyAcceptedLeave, IdsOf
<1>3. WaveInBag'
  BY <1>1 DEF Inv, WaveInBag
<1>4. AcceptedNotResent'
  <2>1. accepted \cap IdsOf(bag) = {} /\ chunk = {}
    BY DEF Inv, WaveInBag, AcceptedNotResent
  <2> QED
    BY <1>1, <2>1 DEF Inv, AcceptedNotResent, IdsOf
<1> QED
  BY <1>2, <1>3, <1>4 DEF Inv

\* A new block gets an id that nothing accepted and nothing in the bag has.
LEMMA EnqueueKeeps ==
    ASSUME Inv, NEW kind \in Kinds, NEW m \in Ms, Enqueue(kind, m)
    PROVE  Inv'
<1> DEFINE new == [id |-> nextId, kind |-> kind, m |-> m]
<1>1. /\ bag' = bag \cup {new} /\ nextId' = nextId + 1 /\ nextId \in 1..MaxId
      /\ UNCHANGED <<work, chunk, pc, acceptedIds, accepted>>
  BY FlushWaveAssumption DEF Enqueue, wave, Inv, Types
<1>2. new \in Block /\ new.id = nextId
  BY <1>1 DEF Block
<1> HIDE DEF new
<1>3. Types'
  BY <1>1, <1>2, FlushWaveAssumption DEF Inv, Types
<1>4. \A b \in bag : b.id \in 1..MaxId /\ b.id < nextId
  BY DEF Inv, Types, WaveInBag, Block
<1>5. WaveInBag'
  BY <1>1, <1>2, <1>4 DEF Inv, WaveInBag, Types
<1>6. IdsOf(bag)' = IdsOf(bag) \cup {nextId}
  BY <1>1, <1>2 DEF IdsOf
<1>7. OnlyAcceptedLeave'
  <2>1. \A i \in 1..(nextId' - 1) : i = nextId \/ i \in 1..(nextId - 1)
    BY <1>1
  <2> QED
    BY <1>1, <1>6, <2>1 DEF Inv, OnlyAcceptedLeave
<1>8. AcceptedNotResent'
  <2>1. nextId \notin accepted
    BY <1>1 DEF Inv, WaveInBag, Types
  <2> QED
    BY <1>1, <1>6, <2>1 DEF Inv, AcceptedNotResent, IdsOf
<1> QED
  BY <1>3, <1>5, <1>7, <1>8 DEF Inv

\* Sending a chunk moves blocks from the work list to the chunk.
LEMMA SendKeeps ==
    ASSUME Inv, SendChunk PROVE Inv'
<1>1. /\ chunk' \subseteq work /\ work' = work \ chunk' /\ pc = "send" /\ pc' = "answers"
      /\ UNCHANGED <<bag, nextId, acceptedIds, accepted>>
  BY FirstIsSubset DEF SendChunk
<1>2. Types' /\ OnlyAcceptedLeave'
  BY <1>1 DEF Inv, Types, OnlyAcceptedLeave, IdsOf
<1>3. WaveInBag'
  BY <1>1 DEF Inv, WaveInBag
<1>4. AcceptedNotResent'
  BY <1>1 DEF Inv, AcceptedNotResent, IdsOf
<1> QED
  BY <1>2, <1>3, <1>4 DEF Inv

\* Reading an answer takes its block out of the chunk; only an acceptance moves
\* its id to acceptedIds, and no other block of the wave has that id.
LEMMA AnswerKeeps ==
    ASSUME Inv, NEW outcome \in Outcomes, Answer(outcome) PROVE Inv'
<1>1. PICK b \in FirstToFlush(chunk, 1) :
          /\ chunk' = chunk \ {b}
          /\ acceptedIds' = IF outcome = "accepted" THEN acceptedIds \cup {b.id} ELSE acceptedIds
          /\ accepted' = IF outcome = "accepted" THEN accepted \cup {b.id} ELSE accepted
  BY DEF Answer
<1>2. b \in chunk /\ b \in bag /\ b \notin work
  BY <1>1, FirstIsSubset DEF Inv, WaveInBag
<1>3. pc = "answers" /\ pc' = "answers" /\ UNCHANGED <<bag, nextId, work>>
  BY DEF Answer
<1>4. b.id \in 1..MaxId /\ b.id < nextId
  BY <1>2 DEF Inv, Types, WaveInBag, Block
<1>5. Types'
  BY <1>1, <1>3, <1>4 DEF Inv, Types
<1>6. WaveInBag'
  BY <1>1, <1>3, <1>4 DEF Inv, WaveInBag
<1>7. OnlyAcceptedLeave'
  BY <1>1, <1>3 DEF Inv, OnlyAcceptedLeave, IdsOf
<1>8. b.id \notin IdsOf(work \cup chunk') /\ b.id \in IdsOf(bag)
  BY <1>1, <1>2 DEF Inv, WaveInBag, IdsOf
<1>9. IdsOf(work' \cup chunk') \subseteq IdsOf(work \cup chunk)
  BY <1>1, <1>3 DEF IdsOf
<1>10. AcceptedNotResent'
  <2>1. accepted' \cap IdsOf(work \cup chunk)' = {}
    BY <1>1, <1>3, <1>8, <1>9 DEF Inv, AcceptedNotResent, IdsOf
  <2>2. accepted' \cap IdsOf(bag)' = acceptedIds'
    BY <1>1, <1>3, <1>8 DEF Inv, AcceptedNotResent, IdsOf
  <2> QED
    BY <2>1, <2>2 DEF AcceptedNotResent
<1> QED
  BY <1>5, <1>6, <1>7, <1>10 DEF Inv

\* Marking takes exactly the accepted blocks out of the bag.
LEMMA MarkKeeps ==
    ASSUME Inv, MarkSubmitted PROVE Inv'
<1>1. /\ bag' = {b \in bag : b.id \notin acceptedIds} /\ acceptedIds' = {} /\ chunk = {}
      /\ pc' = "send" /\ UNCHANGED <<nextId, work, chunk, accepted>>
  BY DEF MarkSubmitted
<1>2. acceptedIds \subseteq accepted
  BY DEF Inv, AcceptedNotResent
<1>3. Types'
  BY <1>1 DEF Inv, Types
<1>4. WaveInBag'
  <2>1. work \subseteq bag'
    BY <1>1, <1>2 DEF Inv, WaveInBag, AcceptedNotResent, IdsOf
  <2> QED
    BY <1>1, <2>1 DEF Inv, WaveInBag
<1>5. OnlyAcceptedLeave'
  BY <1>1, <1>2 DEF Inv, OnlyAcceptedLeave, IdsOf
<1>6. AcceptedNotResent'
  BY <1>1 DEF Inv, AcceptedNotResent, IdsOf
<1> QED
  BY <1>3, <1>4, <1>5, <1>6 DEF Inv

\* The end of a wave forgets the rest of its work list, never a block.
LEMMA EndKeeps ==
    ASSUME Inv, EndWave PROVE Inv'
<1>1. /\ pc = "send" /\ pc' \in {"idle", "closed"} /\ work' = {}
      /\ UNCHANGED <<bag, nextId, chunk, acceptedIds, accepted>>
  BY DEF EndWave
<1>2. Types' /\ OnlyAcceptedLeave'
  BY <1>1 DEF Inv, Types, OnlyAcceptedLeave, IdsOf
<1>3. WaveInBag' /\ AcceptedNotResent'
  BY <1>1 DEF Inv, WaveInBag, AcceptedNotResent, IdsOf
<1> QED
  BY <1>2, <1>3 DEF Inv

\* The steps that touch neither bag nor wave keep the invariant.
LEMMA OthersKeep ==
    ASSUME Inv, MatchDrain \/ EnvironmentChanges \/ BackoffEnds \/ UNCHANGED vars
    PROVE  Inv'
<1>1. UNCHANGED <<bag, nextId, work, chunk, pc, acceptedIds, accepted>>
  BY DEF MatchDrain, EnvironmentChanges, BackoffEnds, vars, wave
<1> QED
  BY <1>1 DEF Inv, Types, WaveInBag, OnlyAcceptedLeave, AcceptedNotResent, IdsOf

\* The invariant holds in every reachable state.
LEMMA Invariant == Spec => []Inv
<1>1. Init => Inv
  BY FlushWaveAssumption
  DEF Init, Inv, Types, WaveInBag, OnlyAcceptedLeave, AcceptedNotResent, IdsOf
<1>2. Inv /\ [Next]_vars => Inv'
  <2> SUFFICES ASSUME Inv, [Next]_vars PROVE Inv'
    OBVIOUS
  <2>1. CASE StartWave
    <3>1. FirstToFlush(ListFlushBatch(2 * Wave), Wave) \subseteq bag
      BY BatchInBag, FirstIsSubset
    <3> QED
      BY <2>1, <3>1, BeginKeeps DEF StartWave
  <2>2. CASE StartClosingWave
    BY <2>2, BatchInBag, BeginKeeps DEF StartClosingWave
  <2> QED
    BY <2>1, <2>2, EnqueueKeeps, SendKeeps, AnswerKeeps, MarkKeeps, EndKeeps, OthersKeep
    DEF Next, Flush
<1> QED
  BY <1>1, <1>2, PTL DEF Spec

\* Nothing that the pool did not accept leaves the bag.
THEOREM NothingDropped == Spec => []OnlyAcceptedLeave
BY Invariant, PTL DEF Inv

\* What the pool accepted is not sent again.
THEOREM NoResend == Spec => []AcceptedNotResent
BY Invariant, PTL DEF Inv

\* The wave stays a part of a bag with distinct ids.
THEOREM WaveStaysInBag == Spec => []WaveInBag
BY Invariant, PTL DEF Inv

-----------------------------------------------------------------------------
(* How many blocks a cut of a list has, and that a list has a last block.  *)

\* The place of each element in a finite set with a strict total order, given by
\* the elements that come before each: places are 0 to the size less one, each taken.
LEMMA Places ==
    ASSUME NEW S, IsFiniteSet(S), NEW before \in [S -> SUBSET S],
           \A b \in S : b \notin before[b],
           \A b, c \in S : b \in before[c] => before[b] \subseteq before[c],
           \A b, c \in S : b # c => b \in before[c] \/ c \in before[b]
    PROVE  LET place == [b \in S |-> Cardinality(before[b])] IN
           /\ Cardinality(S) \in Nat
           /\ place \in [S -> 0..(Cardinality(S) - 1)]
           /\ \A b, c \in S : place[b] = place[c] => b = c
           /\ \A i \in 0..(Cardinality(S) - 1) : \E b \in S : place[b] = i
<1> DEFINE place == [b \in S |-> Cardinality(before[b])]
           n == Cardinality(S)
<1>1. n \in Nat
  BY FS_CardinalityType
<1>2. ASSUME NEW b \in S
      PROVE  IsFiniteSet(before[b]) /\ place[b] \in 0..(n - 1)
  <2>1. IsFiniteSet(S \ {b}) /\ Cardinality(S \ {b}) = n - 1
    BY FS_RemoveElement
  <2>2. before[b] \in SUBSET (S \ {b})
    OBVIOUS
  <2>3. IsFiniteSet(before[b]) /\ Cardinality(before[b]) <= n - 1
    BY <2>1, <2>2, FS_Subset
  <2>4. Cardinality(before[b]) \in Nat
    BY <2>3, FS_CardinalityType
  <2> QED
    BY <1>1, <2>3, <2>4
<1>3. ASSUME NEW b \in S, NEW c \in S, b \in before[c] PROVE place[b] # place[c]
  <2>1. before[b] \in SUBSET before[c] /\ before[b] # before[c]
    BY <1>3
  <2>2. IsFiniteSet(before[c])
    BY <1>2
  <2>3. Cardinality(before[c]) # Cardinality(before[b])
    BY <2>1, <2>2, FS_Subset
  <2> QED
    BY <2>3
<1>4. \A b, c \in S : place[b] = place[c] => b = c
  BY <1>3
<1>5. place \in [S -> 0..(n - 1)]
  BY <1>2
<1> DEFINE T == 0..(n - 1)
<1>6. IsFiniteSet(T) /\ Cardinality(T) = n
  <2>1. 0 \in Int /\ n - 1 \in Int
    BY <1>1
  <2>2. IsFiniteSet(0..(n - 1)) /\ Cardinality(0..(n - 1)) = IF 0 > n - 1 THEN 0 ELSE n - 1 - 0 + 1
    BY <2>1, FS_Interval
  <2> QED
    BY <1>1, <2>2
<1>7. place \in Injection(S, T)
  BY <1>4, <1>5 DEF Injection, IsInjective
<1>8. place \in Surjection(S, T)
  <2> HIDE DEF place, T
  <2> QED
    BY <1>6, <1>7, FS_Injection
<1>9. \A i \in T : \E b \in S : place[b] = i
  BY <1>8 DEF Surjection
<1> QED
  BY <1>1, <1>4, <1>5, <1>9

\* The elements with the first k places are k, or all.
LEMMA FirstPlaces ==
    ASSUME NEW S, IsFiniteSet(S), NEW before \in [S -> SUBSET S],
           \A b \in S : b \notin before[b],
           \A b, c \in S : b \in before[c] => before[b] \subseteq before[c],
           \A b, c \in S : b # c => b \in before[c] \/ c \in before[b],
           NEW k \in Nat
    PROVE  LET first == {b \in S : Cardinality(before[b]) < k} IN
           /\ IsFiniteSet(first)
           /\ Cardinality(first) = IF Cardinality(S) < k THEN Cardinality(S) ELSE k
<1> DEFINE first == {b \in S : Cardinality(before[b]) < k}
           place == [b \in S |-> Cardinality(before[b])]
           size == Cardinality(S)
           n == IF size < k THEN size ELSE k
<1>1. /\ size \in Nat
      /\ place \in [S -> 0..(size - 1)]
      /\ \A b, c \in S : place[b] = place[c] => b = c
      /\ \A i \in 0..(size - 1) : \E b \in S : place[b] = i
  BY Places
<1>2. first \in SUBSET S /\ IsFiniteSet(first)
  BY FS_Subset
<1>3. first = {b \in S : place[b] < k}
  OBVIOUS
<1> HIDE DEF place, first, size
<1>4. n \in Nat /\ n <= size /\ \A i \in 0..(size - 1) : i < k <=> i \in 0..(n - 1)
  BY <1>1
<1> DEFINE f == [b \in first |-> place[b]]
           T == 0..(n - 1)
<1>5. f \in [first -> T]
  BY <1>1, <1>2, <1>3, <1>4
<1>6. \A b, c \in first : f[b] = f[c] => b = c
  BY <1>1, <1>2
<1>7. ASSUME NEW i \in T PROVE \E b \in first : f[b] = i
  <2>1. i \in 0..(size - 1) /\ i < k
    BY <1>1, <1>4
  <2>2. PICK b \in S : place[b] = i
    BY <1>1, <2>1
  <2> QED
    BY <1>3, <2>1, <2>2
<1>8. f \in Bijection(first, T)
  BY <1>5, <1>6, <1>7 DEF Bijection, Injection, IsInjective, Surjection
<1>9. Cardinality(T) = Cardinality(first)
  <2>1. ExistsBijection(first, T)
    BY <1>8 DEF ExistsBijection
  <2> HIDE DEF T
  <2> QED
    BY <1>2, <2>1, FS_Bijection
<1>10. Cardinality(T) = n
  <2>1. 0 \in Int /\ n - 1 \in Int
    BY <1>4
  <2>2. Cardinality(0..(n - 1)) = IF 0 > n - 1 THEN 0 ELSE n - 1 - 0 + 1
    BY <2>1, FS_Interval
  <2> QED
    BY <1>4, <2>2
<1> QED
  BY <1>2, <1>9, <1>10 DEF first, size

\* A finite set that is not empty has a last element.
LEMMA LastPlace ==
    ASSUME NEW S, IsFiniteSet(S), S # {}, NEW before \in [S -> SUBSET S],
           \A b \in S : b \notin before[b],
           \A b, c \in S : b \in before[c] => before[b] \subseteq before[c],
           \A b, c \in S : b # c => b \in before[c] \/ c \in before[b]
    PROVE  \E b \in S : \A c \in S \ {b} : c \in before[b]
<1> DEFINE size == Cardinality(S)
           place == [b \in S |-> Cardinality(before[b])]
<1>1. size \in Nat /\ \A i \in 0..(size - 1) : \E b \in S : place[b] = i
  BY Places
<1>2. size - 1 \in 0..(size - 1)
  BY <1>1, FS_EmptySet
<1>3. PICK b \in S : Cardinality(before[b]) = size - 1
  BY <1>1, <1>2
<1>4. IsFiniteSet(S \ {b}) /\ Cardinality(S \ {b}) = size - 1 /\ before[b] \in SUBSET (S \ {b})
  BY FS_RemoveElement
<1>5. before[b] = S \ {b}
  BY <1>3, <1>4, FS_Subset
<1> QED
  BY <1>5

\* A set of blocks with distinct ids, as the bag and its parts are.
BlockSet(S) == S \subseteq Block /\ \A b, c \in S : b.id = c.id => b = c

\* Such a set is finite, and no larger than the ids there are.
LEMMA BlocksAreFinite == ASSUME NEW S, BlockSet(S) PROVE IsFiniteSet(S)
<1> DEFINE f == [b \in S |-> b.id]
           T == 1..MaxId
<1>1. IsFiniteSet(T)
  BY FS_Interval, FlushWaveAssumption
<1>2. f \in [S -> T]
  BY DEF BlockSet, Block
<1>3. f \in Injection(S, T)
  BY <1>2 DEF Injection, IsInjective, BlockSet
<1> HIDE DEF f, T
<1> QED
  BY <1>1, <1>3, FS_Injection

\* Age and flush order are strict total orders on such a set.
LEMMA AgeOrder ==
    ASSUME NEW S, BlockSet(S)
    PROVE  /\ \A b \in S : ~Older(b, b)
           /\ \A a, b, c \in S : Older(a, b) /\ Older(b, c) => Older(a, c)
           /\ \A b, c \in S : b # c => Older(b, c) \/ Older(c, b)
<1>1. \A b \in S : b.id \in 1..MaxId
  BY DEF BlockSet, Block
<1> QED
  BY <1>1, FlushWaveAssumption DEF BlockSet, Older

LEMMA FlushOrder ==
    ASSUME NEW S, BlockSet(S)
    PROVE  /\ \A b \in S : ~FlushedBefore(b, b)
           /\ \A a, b, c \in S :
                  FlushedBefore(a, b) /\ FlushedBefore(b, c) => FlushedBefore(a, c)
           /\ \A b, c \in S : b # c => FlushedBefore(b, c) \/ FlushedBefore(c, b)
<1>1. \A b \in S : b.kind \in {"XNM", "XBLK", "XUNI"}
  BY FlushWaveAssumption DEF BlockSet, Block
<1>2. \A b \in S : Priority(b.kind) \in 0..2
  BY <1>1 DEF Priority
<1> HIDE DEF Priority
<1>3. /\ \A b \in S : ~Older(b, b)
      /\ \A a, b, c \in S : Older(a, b) /\ Older(b, c) => Older(a, c)
      /\ \A b, c \in S : b # c => Older(b, c) \/ Older(c, b)
  BY AgeOrder
<1> HIDE DEF Older
<1> QED
  BY <1>2, <1>3 DEF FlushedBefore

\* Cutting a list by age or by flush order gives as many blocks as asked, or all.
LEMMA OldestCount ==
    ASSUME NEW S, BlockSet(S), NEW n \in Nat
    PROVE  /\ IsFiniteSet(Oldest(S, n))
           /\ Cardinality(Oldest(S, n)) = IF Cardinality(S) < n THEN Cardinality(S) ELSE n
<1> DEFINE before == [b \in S |-> {c \in S : Older(c, b)}]
           first == {b \in S : Cardinality(before[b]) < n}
<1>1. /\ \A b \in S : ~Older(b, b)
      /\ \A a, b, c \in S : Older(a, b) /\ Older(b, c) => Older(a, c)
      /\ \A b, c \in S : b # c => Older(b, c) \/ Older(c, b)
  BY AgeOrder
<1>2. IsFiniteSet(S)
  BY BlocksAreFinite
<1>3. before \in [S -> SUBSET S]
  OBVIOUS
<1>4. /\ \A b \in S : b \notin before[b]
      /\ \A b, c \in S : b \in before[c] => before[b] \subseteq before[c]
      /\ \A b, c \in S : b # c => b \in before[c] \/ c \in before[b]
  BY <1>1
<1>5. Oldest(S, n) = first
  BY DEF Oldest
<1> HIDE DEF before
<1>6. /\ IsFiniteSet(first)
      /\ Cardinality(first) = IF Cardinality(S) < n THEN Cardinality(S) ELSE n
  BY <1>2, <1>3, <1>4, FirstPlaces
<1> QED
  BY <1>5, <1>6

LEMMA FirstToFlushCount ==
    ASSUME NEW S, BlockSet(S), NEW n \in Nat
    PROVE  Cardinality(FirstToFlush(S, n)) = IF Cardinality(S) < n THEN Cardinality(S) ELSE n
<1> DEFINE before == [b \in S |-> {c \in S : FlushedBefore(c, b)}]
           first == {b \in S : Cardinality(before[b]) < n}
<1>1. /\ \A b \in S : ~FlushedBefore(b, b)
      /\ \A a, b, c \in S :
             FlushedBefore(a, b) /\ FlushedBefore(b, c) => FlushedBefore(a, c)
      /\ \A b, c \in S : b # c => FlushedBefore(b, c) \/ FlushedBefore(c, b)
  BY FlushOrder
<1>2. IsFiniteSet(S)
  BY BlocksAreFinite
<1>3. before \in [S -> SUBSET S]
  OBVIOUS
<1>4. /\ \A b \in S : b \notin before[b]
      /\ \A b, c \in S : b \in before[c] => before[b] \subseteq before[c]
      /\ \A b, c \in S : b # c => b \in before[c] \/ c \in before[b]
  BY <1>1
<1>5. FirstToFlush(S, n) = first
  BY DEF FirstToFlush
<1> HIDE DEF before
<1>6. Cardinality(first) = IF Cardinality(S) < n THEN Cardinality(S) ELSE n
  BY <1>2, <1>3, <1>4, FirstPlaces
<1> QED
  BY <1>5, <1>6

\* The last block of a work list, whose id the rotation goes on from, is in the list.
LEMMA LastIsInList ==
    ASSUME NEW S, BlockSet(S), S # {} PROVE LastToFlush(S) \in S
<1> DEFINE before == [b \in S |-> {c \in S : FlushedBefore(c, b)}]
<1>1. /\ \A b \in S : ~FlushedBefore(b, b)
      /\ \A a, b, c \in S :
             FlushedBefore(a, b) /\ FlushedBefore(b, c) => FlushedBefore(a, c)
      /\ \A b, c \in S : b # c => FlushedBefore(b, c) \/ FlushedBefore(c, b)
  BY FlushOrder
<1>2. IsFiniteSet(S)
  BY BlocksAreFinite
<1>3. before \in [S -> SUBSET S]
  OBVIOUS
<1>4. /\ \A b \in S : b \notin before[b]
      /\ \A b, c \in S : b \in before[c] => before[b] \subseteq before[c]
      /\ \A b, c \in S : b # c => b \in before[c] \/ c \in before[b]
  BY <1>1
<1>5. \A b, c \in S : c \in before[b] => FlushedBefore(c, b)
  OBVIOUS
<1> HIDE DEF before
<1>6. \E b \in S : \A c \in S \ {b} : c \in before[b]
  BY <1>2, <1>3, <1>4, LastPlace
<1>7. \E b \in S : \A c \in S \ {b} : FlushedBefore(c, b)
  BY <1>5, <1>6
<1> QED
  BY <1>7 DEF LastToFlush

-----------------------------------------------------------------------------
(* Types, and the size of a wave.                                          *)

\* The bag and its parts are such sets.
LEMMA PartsOfBag == ASSUME Inv, NEW S, S \subseteq bag PROVE BlockSet(S)
BY DEF Inv, Types, WaveInBag, BlockSet

\* The mark that a wave of holds leaves is one past a block of the wave, or stays.
LEMMA BeginTypes ==
    ASSUME Inv, TypeOK, NEW batch, batch \subseteq bag, Begin(batch), closing' \in BOOLEAN
    PROVE  TypeOK'
<1>1. /\ batch # {} /\ pc' = "send" /\ work' = batch /\ lastId' = LastToFlush(batch).id
      /\ flushed' = FALSE /\ holds' = FALSE /\ failed' = FALSE
      /\ UNCHANGED <<netM, xuniOpen, pool, bag, nextId, draining, skip, backoff, chunk,
                     acceptedIds, accepted>>
  BY DEF Begin, env
<1>2. BlockSet(batch)
  BY PartsOfBag
<1>3. LastToFlush(batch) \in Block
  BY <1>1, <1>2, LastIsInList DEF BlockSet
<1>4. lastId' \in 0..MaxId
  BY <1>1, <1>3, FlushWaveAssumption DEF Block
<1>5. work' \subseteq Block
  BY <1>1, <1>2 DEF BlockSet
<1> QED
  BY <1>1, <1>4, <1>5 DEF TypeOK

LEMMA AnswerTypes ==
    ASSUME Inv, TypeOK, NEW outcome \in Outcomes, Answer(outcome) PROVE TypeOK'
<1>1. PICK b \in FirstToFlush(chunk, 1) :
          /\ chunk' = chunk \ {b}
          /\ acceptedIds' = IF outcome = "accepted" THEN acceptedIds \cup {b.id} ELSE acceptedIds
          /\ accepted' = IF outcome = "accepted" THEN accepted \cup {b.id} ELSE accepted
  BY DEF Answer
<1>2. b \in Block
  BY <1>1, FirstIsSubset DEF TypeOK
<1>3. b.id \in 1..MaxId
  BY <1>2 DEF Block
<1>4. chunk' \subseteq Block /\ acceptedIds' \subseteq 1..MaxId /\ accepted' \subseteq 1..MaxId
  BY <1>1, <1>3 DEF TypeOK
<1>5. flushed' \in BOOLEAN /\ holds' \in BOOLEAN /\ failed' \in BOOLEAN
  BY DEF Answer, TypeOK
<1>6. backoff' \in BOOLEAN
  BY Zenon DEF Answer, TypeOK
<1>7. UNCHANGED <<netM, xuniOpen, pool, bag, nextId, draining, skip, pc, closing, work, lastId>>
  BY DEF Answer, env
<1> QED
  BY <1>4, <1>5, <1>6, <1>7 DEF TypeOK

\* Every step keeps the types.
LEMMA TypesStep == ASSUME Inv, Inv', TypeOK, [Next]_vars PROVE TypeOK'
<1>1. ASSUME NEW kind \in Kinds, NEW m \in Ms, Enqueue(kind, m) PROVE TypeOK'
  BY <1>1 DEF Enqueue, TypeOK, Inv, Types, env, wave
<1>2. CASE MatchDrain
  <2>1. skip' \in 0..(MaxId + 1)
    BY <1>2, FlushWaveAssumption DEF MatchDrain, TypeOK
  <2> QED
    BY <1>2, <2>1 DEF MatchDrain, TypeOK, env, wave
<1>3. CASE EnvironmentChanges
  BY <1>3 DEF EnvironmentChanges, TypeOK, wave
<1>4. CASE BackoffEnds
  BY <1>4 DEF BackoffEnds, TypeOK, env, wave
<1>5. CASE StartClosingWave
  <2>1. ListFlushBatch(Cardinality(bag)) \subseteq bag
    BY BatchInBag
  <2> QED
    BY <1>5, <2>1, BeginTypes DEF StartClosingWave
<1>6. CASE StartWave
  <2>1. FirstToFlush(ListFlushBatch(2 * Wave), Wave) \subseteq bag
    BY BatchInBag, FirstIsSubset
  <2>2. closing' \in BOOLEAN
    BY <1>6 DEF StartWave, TypeOK
  <2> QED
    BY <1>6, <2>1, <2>2, BeginTypes DEF StartWave
<1>7. CASE SendChunk
  <2>1. chunk' \subseteq work
    BY <1>7, FirstIsSubset DEF SendChunk
  <2> QED
    BY <1>7, <2>1 DEF SendChunk, TypeOK, env
<1>8. CASE MarkSubmitted
  BY <1>8 DEF MarkSubmitted, TypeOK, env
<1>9. CASE EndWave
  <2>1. skip' \in 0..(MaxId + 1)
    BY <1>9, FlushWaveAssumption DEF EndWave, TypeOK
  <2>2. backoff' \in BOOLEAN /\ pc' \in {"idle", "send", "answers", "closed"}
    BY <1>9 DEF EndWave, TypeOK
  <2> QED
    BY <1>9, <2>1, <2>2 DEF EndWave, TypeOK, env
<1>10. CASE UNCHANGED vars
  BY <1>10 DEF vars, TypeOK, env, wave
<1> QED
  BY <1>1, <1>2, <1>3, <1>4, <1>5, <1>6, <1>7, <1>8, <1>9, <1>10, AnswerTypes DEF Next, Flush

\* The types hold: a wave always has a last block, so the skip mark is the id of a
\* block, one more, or 0.
THEOREM TypeCorrect == Spec => []TypeOK
<1>1. Init => TypeOK
  <2> SUFFICES ASSUME Init PROVE TypeOK
    OBVIOUS
  <2>1. 0 \in 0..MaxId /\ 0 \in 0..(MaxId + 1) /\ 1 \in 1..(MaxId + 1)
    BY FlushWaveAssumption
  <2>2. netM \in NetMs \cup {0} /\ xuniOpen \in BOOLEAN /\ pool \in Pools
    BY DEF Init
  <2>3. nextId \in 1..(MaxId + 1) /\ skip \in 0..(MaxId + 1) /\ lastId \in 0..MaxId
    BY <2>1 DEF Init
  <2> QED
    BY <2>2, <2>3 DEF Init, TypeOK
<1>2. Inv /\ Inv' /\ TypeOK /\ [Next]_vars => TypeOK'
  BY TypesStep
<1> QED
  BY <1>1, <1>2, Invariant, PTL DEF Spec

\* What the two cuts of list_flush_batch add up to.
LEMMA FillUp ==
    ASSUME NEW after \in Nat, NEW older \in Nat, NEW limit \in Nat,
           NEW first, first = IF after < limit THEN after ELSE limit,
           NEW second, second = IF older < limit - first THEN older ELSE limit - first
    PROVE  first + second = IF after + older < limit THEN after + older ELSE limit
<1>1. CASE after < limit
  BY <1>1
<1>2. CASE ~(after < limit)
  BY <1>2
<1> QED
  BY <1>1, <1>2

\* list_flush_batch returns `limit` blocks, or all that are eligible: what comes
\* before the skip mark fills up what comes after it.
LEMMA BatchCount ==
    ASSUME Inv, skip \in Int, NEW limit \in Nat
    PROVE  Cardinality(ListFlushBatch(limit)) =
               IF Cardinality(Eligible) < limit THEN Cardinality(Eligible) ELSE limit
<1> DEFINE after == {b \in Eligible : b.id >= skip}
           older == {b \in Eligible : b.id < skip}
           preferred == Oldest(after, limit)
           rest == limit - Cardinality(preferred)
           wrapped == Oldest(older, rest)
<1>1. Eligible \subseteq bag /\ after \subseteq bag /\ older \subseteq bag
  BY DEF Eligible
<1>2. BlockSet(Eligible) /\ BlockSet(after) /\ BlockSet(older)
  BY <1>1, PartsOfBag
<1>3. IsFiniteSet(after) /\ IsFiniteSet(older)
  BY <1>2, BlocksAreFinite
<1>4. Cardinality(after) \in Nat /\ Cardinality(older) \in Nat
  BY <1>3, FS_CardinalityType
<1>5. after \cap older = {} /\ after \cup older = Eligible
  <2>1. \A b \in Eligible : b.id \in Int
    BY <1>2 DEF BlockSet, Block
  <2> QED
    BY <2>1
<1>6. preferred \subseteq after /\ wrapped \subseteq older
  BY DEF Oldest
<1>7. ListFlushBatch(limit) = preferred \cup wrapped
  BY DEF ListFlushBatch
<1> HIDE DEF after, older
<1>8. /\ IsFiniteSet(preferred)
      /\ Cardinality(preferred) =
             IF Cardinality(after) < limit THEN Cardinality(after) ELSE limit
  BY <1>2, OldestCount
<1>9. rest \in Nat
  BY <1>4, <1>8
<1> HIDE DEF preferred, rest
<1>10. /\ IsFiniteSet(wrapped)
       /\ Cardinality(wrapped) = IF Cardinality(older) < rest THEN Cardinality(older) ELSE rest
  BY <1>2, <1>9, OldestCount
<1> HIDE DEF wrapped
<1>11. preferred \cap wrapped = {}
  BY <1>5, <1>6
<1>12. Cardinality(preferred \cup wrapped) =
           Cardinality(preferred) + Cardinality(wrapped) - Cardinality(preferred \cap wrapped)
  BY <1>8, <1>10, FS_Union
<1>13. Cardinality(after \cup older) =
           Cardinality(after) + Cardinality(older) - Cardinality(after \cap older)
  BY <1>3, FS_Union
<1>14. Cardinality(preferred \cap wrapped) = 0 /\ Cardinality(after \cap older) = 0
  BY <1>5, <1>11, FS_EmptySet
<1>15. rest = limit - Cardinality(preferred)
  BY DEF rest
<1>16. Cardinality(Eligible) = Cardinality(after) + Cardinality(older)
  <2> DEFINE all == Cardinality(after \cup older)
  <2>1. all = Cardinality(Eligible)
    BY <1>5, Zenon
  <2>2. all = Cardinality(after) + Cardinality(older) - 0
    BY <1>13, <1>14, Zenon
  <2> HIDE DEF all
  <2> QED
    BY <1>4, <2>1, <2>2
<1>17. Cardinality(ListFlushBatch(limit)) = Cardinality(preferred) + Cardinality(wrapped)
  <2>1. Cardinality(preferred) \in Nat /\ Cardinality(wrapped) \in Nat
    BY <1>8, <1>10, FS_CardinalityType
  <2> QED
    BY <1>7, <1>12, <1>14, <2>1
<1> QED
  <2> DEFINE a == Cardinality(after)
             o == Cardinality(older)
             p == Cardinality(preferred)
             w == Cardinality(wrapped)
  <2>1. a \in Nat /\ o \in Nat
    BY <1>4
  <2>2. p = IF a < limit THEN a ELSE limit
    BY <1>8
  <2>3. w = IF o < limit - p THEN o ELSE limit - p
    BY <1>10, <1>15
  <2> HIDE DEF a, o, p, w
  <2>4. p + w = IF a + o < limit THEN a + o ELSE limit
    BY <2>1, <2>2, <2>3, FillUp
  <2>5. Cardinality(Eligible) = a + o
    BY <1>16 DEF a, o
  <2>6. Cardinality(ListFlushBatch(limit)) = p + w
    BY <1>17 DEF p, w
  <2> QED
    BY <2>4, <2>5, <2>6

\* An ordinary wave is never short, whatever the skip mark, the bag and the match
\* flush did since the last one.
THEOREM NoShortWave == Spec => WavesAreFull
<1>1. ASSUME Inv, TypeOK, StartWave
      PROVE  Cardinality(work') = (IF Cardinality(Eligible) < Wave
                                      THEN Cardinality(Eligible) ELSE Wave)
  <2> DEFINE batch == ListFlushBatch(2 * Wave)
             count == Cardinality(Eligible)
  <2>1. work' = FirstToFlush(batch, Wave)
    BY <1>1 DEF StartWave, Begin
  <2>2. Wave \in Nat \ {0} /\ 2 * Wave \in Nat /\ 2 * Wave > Wave
    BY FlushWaveAssumption
  <2>3. BlockSet(batch)
    BY <1>1, BatchInBag, PartsOfBag
  <2>4. count \in Nat
    <3>1. BlockSet(Eligible)
      BY <1>1, PartsOfBag DEF Eligible
    <3> QED
      BY <3>1, BlocksAreFinite, FS_CardinalityType
  <2>5. Cardinality(batch) = IF count < 2 * Wave THEN count ELSE 2 * Wave
    <3>1. skip \in Int
      BY <1>1 DEF TypeOK
    <3> QED
      BY <1>1, <2>2, <3>1, BatchCount
  <2> HIDE DEF batch, count
  <2>6. Cardinality(work') = IF Cardinality(batch) < Wave THEN Cardinality(batch) ELSE Wave
    BY <2>1, <2>2, <2>3, FirstToFlushCount
  <2>7. Cardinality(work') = IF count < Wave THEN count ELSE Wave
    BY <2>2, <2>4, <2>5, <2>6
  <2> QED
    BY <2>7 DEF count
<1>2. Inv /\ TypeOK =>
          (StartWave => Cardinality(work') = (IF Cardinality(Eligible) < Wave
                                                 THEN Cardinality(Eligible) ELSE Wave))
  BY <1>1
<1> QED
  BY <1>2, Invariant, TypeCorrect, PTL DEF WavesAreFull
=============================================================================
