------------------------- MODULE SubmitPipelineProofs -------------------------
(***************************************************************************)
(* No hit that the GPU returned is lost or held twice, for any set of hits *)
(* and any interleaving of mining thread, submit worker and signal handler.*)
(***************************************************************************)
EXTENDS SubmitPipeline, TLAPS

\* Every step of every thread keeps the types.
LEMMA TypeStep == TypeOK /\ [Next]_vars => TypeOK'
<1> SUFFICES ASSUME TypeOK, [Next]_vars PROVE TypeOK'
  OBVIOUS
<1> USE DEF TypeOK, Persisters, Threads, Locks, MainPlaces, WorkerPlaces, PersistPlaces,
           world, flags, store, mainVars, workVars, persVars
<1>1. CASE FindHits
  BY <1>1 DEF FindHits
<1>2. CASE NetworkChanges
  BY <1>2 DEF NetworkChanges
<1>3. ASSUME NEW t \in Threads, Signal(t) PROVE TypeOK'
  <2>1. signals' \in 0..MaxSignals
    BY <1>3, SubmitPipelineAssumption DEF Signal, SignalAt
  <2>2. ppc' \in [Persisters -> PersistPlaces]
    BY <1>3 DEF Signal
  <2> QED
    BY <1>3, <2>1, <2>2 DEF Signal, SignalAt
<1>41. ASSUME NEW t \in Threads, NEW lock \in Locks, SignalCatches(t, lock)
      PROVE TypeOK'
  <2>1. signals' \in 0..MaxSignals
    BY <1>41, SubmitPipelineAssumption DEF SignalCatches, SignalAt
  <2>2. ppc' \in [Persisters -> PersistPlaces] /\ caught' \subseteq Locks
    BY <1>41 DEF SignalCatches
  <2> QED
    BY <1>41, <2>1, <2>2 DEF SignalCatches, SignalAt
<1>4. CASE LoopTest
  BY <1>4 DEF LoopTest
<1>5. CASE UpdateFound
  BY <1>5 DEF UpdateFound
<1>6. CASE MineBatch
  BY <1>6 DEF MineBatch
<1>7. CASE EngineStops
  BY <1>7 DEF EngineStops
<1>8. CASE EnqueueLiveSubmit
  BY <1>8 DEF EnqueueLiveSubmit
<1>9. CASE HandleDone
  BY <1>9 DEF HandleDone
<1>10. CASE GracefulStart
  BY <1>10 DEF GracefulStart
<1>11. CASE GracefulDrain
  BY <1>11 DEF GracefulDrain
<1>12. CASE GracefulDrained
  BY <1>12 DEF GracefulDrained
<1>13. CASE SwapLiveQueue
  BY <1>13 DEF SwapLiveQueue
<1>14. CASE FinalSwap
  BY <1>14 DEF FinalSwap
<1>15. CASE StopSubmitWorker
  BY <1>15 DEF StopSubmitWorker
<1>16. CASE JoinWorker
  BY <1>16 DEF JoinWorker
<1>17. CASE FinalStop
  BY <1>17 DEF FinalStop
<1>18. CASE WorkerSwap
  BY <1>18 DEF WorkerSwap
<1>19. CASE WorkerDispatch
  BY <1>19 DEF WorkerDispatch
<1>20. CASE ProcessGate
  BY <1>20 DEF ProcessGate
<1>21. CASE SubmitReturns
  BY <1>21 DEF SubmitReturns
<1>22. CASE BatchDone
  BY <1>22 DEF BatchDone
<1>23. CASE ServiceQueue
  BY <1>23 DEF ServiceQueue
<1>24. CASE FlushSend
  BY <1>24 DEF FlushSend
<1>25. CASE FlushReplies
  BY <1>25 DEF FlushReplies
<1>26. CASE FlushMark
  BY <1>26 DEF FlushMark
<1>27. CASE FlushEnds
  BY <1>27 DEF FlushEnds
<1>28. CASE WorkerCheck
  BY <1>28 DEF WorkerCheck
<1>29. CASE LastGate
  BY <1>29 DEF LastGate
<1>30. ASSUME NEW h \in Hits, HandleToDisk(h) PROVE TypeOK'
  BY <1>30 DEF HandleToDisk
<1>31. ASSUME NEW h \in Hits, HandleDecideLive(h) PROVE TypeOK'
  BY <1>31 DEF HandleDecideLive
<1>32. ASSUME NEW h \in Hits, BagSwapped(h) PROVE TypeOK'
  BY <1>32 DEF BagSwapped
<1>33. ASSUME NEW h \in Hits, WorkerBags(h) PROVE TypeOK'
  BY <1>33 DEF WorkerBags
<1>34. ASSUME NEW h \in Hits, ProcessShutdown(h) PROVE TypeOK'
  BY <1>34 DEF ProcessShutdown
<1>35. ASSUME NEW h \in Hits, ProcessPoll(h) PROVE TypeOK'
  BY <1>35 DEF ProcessPoll
<1>36. ASSUME NEW p \in Persisters, mpc # "exit", PersistFlags(p) PROVE TypeOK'
  BY <1>36 DEF PersistFlags
<1>37. ASSUME NEW p \in Persisters, mpc # "exit", PersistSwap(p) PROVE TypeOK'
  BY <1>37 DEF PersistSwap
<1>38. ASSUME NEW p \in Persisters, mpc # "exit", PersistDefer(p) PROVE TypeOK'
  BY <1>38 DEF PersistDefer
<1>39. ASSUME NEW p \in Persisters, NEW h \in Hits, mpc # "exit", PersistBag(p, h)
      PROVE TypeOK'
  BY <1>39 DEF PersistBag
<1>40. CASE UNCHANGED vars
  BY <1>40 DEF vars
<1> HIDE DEF TypeOK, Persisters, Threads, Locks, MainPlaces, WorkerPlaces, PersistPlaces,
           world, flags, store, mainVars, workVars, persVars
<1> QED
  BY <1>1, <1>2, <1>3, <1>4, <1>5, <1>6, <1>7, <1>8, <1>9, <1>10, <1>11,
     <1>12, <1>13, <1>14, <1>15, <1>16, <1>17, <1>18, <1>19, <1>20, <1>21,
     <1>22, <1>23, <1>24, <1>25, <1>26, <1>27, <1>28, <1>29, <1>30, <1>31,
     <1>32, <1>33, <1>34, <1>35, <1>36, <1>37, <1>38, <1>39, <1>40, <1>41
  DEF Next, Main, MainInBody, Worker, Persist

\* No step lets a local container go out of scope with hits in it.
LEMMA LocalsStep == TypeOK /\ LocalsEmptied /\ [Next]_vars => LocalsEmptied'
<1> SUFFICES ASSUME TypeOK, LocalsEmptied, [Next]_vars PROVE LocalsEmptied'
  OBVIOUS
<1> USE DEF LocalsEmptied, TypeOK, Persisters, Threads, Locks, MainPlaces, WorkerPlaces, PersistPlaces,
           world, flags, store, mainVars, workVars, persVars
<1>1. CASE FindHits
  BY <1>1 DEF FindHits
<1>2. CASE NetworkChanges
  BY <1>2 DEF NetworkChanges
<1>3. ASSUME NEW t \in Threads, Signal(t) PROVE LocalsEmptied'
  BY <1>3 DEF Signal, SignalAt
<1>41. ASSUME NEW t \in Threads, NEW lock \in Locks, SignalCatches(t, lock)
      PROVE LocalsEmptied'
  BY <1>41 DEF SignalCatches, SignalAt
<1>4. CASE LoopTest
  BY <1>4 DEF LoopTest
<1>5. CASE UpdateFound
  BY <1>5 DEF UpdateFound
<1>6. CASE MineBatch
  BY <1>6 DEF MineBatch
<1>7. CASE EngineStops
  BY <1>7 DEF EngineStops
<1>8. CASE EnqueueLiveSubmit
  BY <1>8 DEF EnqueueLiveSubmit
<1>9. CASE HandleDone
  BY <1>9 DEF HandleDone
<1>10. CASE GracefulStart
  BY <1>10 DEF GracefulStart
<1>11. CASE GracefulDrain
  BY <1>11 DEF GracefulDrain
<1>12. CASE GracefulDrained
  BY <1>12 DEF GracefulDrained
<1>13. CASE SwapLiveQueue
  BY <1>13 DEF SwapLiveQueue
<1>14. CASE FinalSwap
  BY <1>14 DEF FinalSwap
<1>15. CASE StopSubmitWorker
  BY <1>15 DEF StopSubmitWorker
<1>16. CASE JoinWorker
  BY <1>16 DEF JoinWorker
<1>17. CASE FinalStop
  BY <1>17 DEF FinalStop
<1>18. CASE WorkerSwap
  BY <1>18 DEF WorkerSwap
<1>19. CASE WorkerDispatch
  BY <1>19 DEF WorkerDispatch
<1>20. CASE ProcessGate
  BY <1>20 DEF ProcessGate
<1>21. CASE SubmitReturns
  BY <1>21 DEF SubmitReturns
<1>22. CASE BatchDone
  BY <1>22 DEF BatchDone
<1>23. CASE ServiceQueue
  BY <1>23 DEF ServiceQueue
<1>24. CASE FlushSend
  BY <1>24 DEF FlushSend
<1>25. CASE FlushReplies
  BY <1>25 DEF FlushReplies
<1>26. CASE FlushMark
  BY <1>26 DEF FlushMark
<1>27. CASE FlushEnds
  BY <1>27 DEF FlushEnds
<1>28. CASE WorkerCheck
  BY <1>28 DEF WorkerCheck
<1>29. CASE LastGate
  BY <1>29 DEF LastGate
<1>30. ASSUME NEW h \in Hits, HandleToDisk(h) PROVE LocalsEmptied'
  BY <1>30 DEF HandleToDisk
<1>31. ASSUME NEW h \in Hits, HandleDecideLive(h) PROVE LocalsEmptied'
  BY <1>31 DEF HandleDecideLive
<1>32. ASSUME NEW h \in Hits, BagSwapped(h) PROVE LocalsEmptied'
  BY <1>32 DEF BagSwapped
<1>33. ASSUME NEW h \in Hits, WorkerBags(h) PROVE LocalsEmptied'
  BY <1>33 DEF WorkerBags
<1>34. ASSUME NEW h \in Hits, ProcessShutdown(h) PROVE LocalsEmptied'
  BY <1>34 DEF ProcessShutdown
<1>35. ASSUME NEW h \in Hits, ProcessPoll(h) PROVE LocalsEmptied'
  BY <1>35 DEF ProcessPoll
<1>36. ASSUME NEW p \in Persisters, mpc # "exit", PersistFlags(p) PROVE LocalsEmptied'
  BY <1>36 DEF PersistFlags
<1>37. ASSUME NEW p \in Persisters, mpc # "exit", PersistSwap(p) PROVE LocalsEmptied'
  BY <1>37 DEF PersistSwap
<1>38. ASSUME NEW p \in Persisters, mpc # "exit", PersistDefer(p) PROVE LocalsEmptied'
  BY <1>38 DEF PersistDefer
<1>39. ASSUME NEW p \in Persisters, NEW h \in Hits, mpc # "exit", PersistBag(p, h)
      PROVE LocalsEmptied'
  BY <1>39 DEF PersistBag
<1>40. CASE UNCHANGED vars
  BY <1>40 DEF vars
<1> HIDE DEF LocalsEmptied, TypeOK, Persisters, Threads, Locks, MainPlaces, WorkerPlaces, PersistPlaces,
           world, flags, store, mainVars, workVars, persVars
<1> QED
  BY <1>1, <1>2, <1>3, <1>4, <1>5, <1>6, <1>7, <1>8, <1>9, <1>10, <1>11,
     <1>12, <1>13, <1>14, <1>15, <1>16, <1>17, <1>18, <1>19, <1>20, <1>21,
     <1>22, <1>23, <1>24, <1>25, <1>26, <1>27, <1>28, <1>29, <1>30, <1>31,
     <1>32, <1>33, <1>34, <1>35, <1>36, <1>37, <1>38, <1>39, <1>40, <1>41
  DEF Next, Main, MainInBody, Worker, Persist

\* No step breaks the exclusion of persist_mu_, or ends a thread that a handler uses.
LEMMA ExcludesStep ==
    TypeOK /\ LocalsEmptied /\ PersistExcludes /\ [Next]_vars => PersistExcludes'
<1> SUFFICES ASSUME TypeOK, LocalsEmptied, PersistExcludes, [Next]_vars PROVE PersistExcludes'
  OBVIOUS
<1> USE DEF PersistExcludes, Runs, TypeOK, Persisters, Threads, Locks, MainPlaces, WorkerPlaces, PersistPlaces,
           world, flags, store, mainVars, workVars, persVars
<1>1. CASE FindHits
  BY <1>1 DEF FindHits
<1>2. CASE NetworkChanges
  BY <1>2 DEF NetworkChanges
<1>3. ASSUME NEW t \in Threads, Signal(t) PROVE PersistExcludes'
  BY <1>3 DEF Signal, SignalAt
<1>41. ASSUME NEW t \in Threads, NEW lock \in Locks, SignalCatches(t, lock)
      PROVE PersistExcludes'
  BY <1>41 DEF SignalCatches, SignalAt
<1>4. CASE LoopTest
  BY <1>4 DEF LoopTest
<1>5. CASE UpdateFound
  BY <1>5 DEF UpdateFound
<1>6. CASE MineBatch
  BY <1>6 DEF MineBatch
<1>7. CASE EngineStops
  BY <1>7 DEF EngineStops
<1>8. CASE EnqueueLiveSubmit
  BY <1>8 DEF EnqueueLiveSubmit
<1>9. CASE HandleDone
  BY <1>9 DEF HandleDone
<1>10. CASE GracefulStart
  BY <1>10 DEF GracefulStart
<1>11. CASE GracefulDrain
  BY <1>11 DEF GracefulDrain
<1>12. CASE GracefulDrained
  BY <1>12 DEF GracefulDrained
<1>13. CASE SwapLiveQueue
  BY <1>13 DEF SwapLiveQueue
<1>14. CASE FinalSwap
  BY <1>14 DEF FinalSwap
<1>15. CASE StopSubmitWorker
  BY <1>15 DEF StopSubmitWorker
<1>16. CASE JoinWorker
  BY <1>16 DEF JoinWorker
<1>17. ASSUME Runs("main"), FinalStop PROVE PersistExcludes'
  BY <1>17 DEF FinalStop
<1>18. CASE WorkerSwap
  BY <1>18 DEF WorkerSwap
<1>19. CASE WorkerDispatch
  BY <1>19 DEF WorkerDispatch
<1>20. CASE ProcessGate
  BY <1>20 DEF ProcessGate
<1>21. CASE SubmitReturns
  BY <1>21 DEF SubmitReturns
<1>22. CASE BatchDone
  BY <1>22 DEF BatchDone
<1>23. CASE ServiceQueue
  BY <1>23 DEF ServiceQueue
<1>24. CASE FlushSend
  BY <1>24 DEF FlushSend
<1>25. CASE FlushReplies
  BY <1>25 DEF FlushReplies
<1>26. CASE FlushMark
  BY <1>26 DEF FlushMark
<1>27. ASSUME Runs("worker"), FlushEnds PROVE PersistExcludes'
  BY <1>27 DEF FlushEnds
<1>28. CASE WorkerCheck
  BY <1>28 DEF WorkerCheck
<1>29. ASSUME Runs("worker"), LastGate PROVE PersistExcludes'
  BY <1>29 DEF LastGate
<1>30. ASSUME NEW h \in Hits, HandleToDisk(h) PROVE PersistExcludes'
  BY <1>30 DEF HandleToDisk
<1>31. ASSUME NEW h \in Hits, HandleDecideLive(h) PROVE PersistExcludes'
  BY <1>31 DEF HandleDecideLive
<1>32. ASSUME NEW h \in Hits, BagSwapped(h) PROVE PersistExcludes'
  BY <1>32 DEF BagSwapped
<1>33. ASSUME NEW h \in Hits, WorkerBags(h) PROVE PersistExcludes'
  BY <1>33 DEF WorkerBags
<1>34. ASSUME NEW h \in Hits, ProcessShutdown(h) PROVE PersistExcludes'
  BY <1>34 DEF ProcessShutdown
<1>35. ASSUME NEW h \in Hits, ProcessPoll(h) PROVE PersistExcludes'
  BY <1>35 DEF ProcessPoll
<1>36. ASSUME NEW p \in Persisters, mpc # "exit", PersistFlags(p) PROVE PersistExcludes'
  BY <1>36 DEF PersistFlags
<1>37. ASSUME NEW p \in Persisters, mpc # "exit", PersistSwap(p) PROVE PersistExcludes'
  BY <1>37 DEF PersistSwap
<1>38. ASSUME NEW p \in Persisters, mpc # "exit", PersistDefer(p) PROVE PersistExcludes'
  BY <1>38 DEF PersistDefer
<1>39. ASSUME NEW p \in Persisters, NEW h \in Hits, mpc # "exit", PersistBag(p, h)
      PROVE PersistExcludes'
  BY <1>39 DEF PersistBag
<1>40. CASE UNCHANGED vars
  BY <1>40 DEF vars
<1> HIDE DEF PersistExcludes, Runs, TypeOK, Persisters, Threads, Locks, MainPlaces, WorkerPlaces, PersistPlaces,
           world, flags, store, mainVars, workVars, persVars
<1> QED
  BY <1>1, <1>2, <1>3, <1>4, <1>5, <1>6, <1>7, <1>8, <1>9, <1>10, <1>11,
     <1>12, <1>13, <1>14, <1>15, <1>16, <1>17, <1>18, <1>19, <1>20, <1>21,
     <1>22, <1>23, <1>24, <1>25, <1>26, <1>27, <1>28, <1>29, <1>30, <1>31,
     <1>32, <1>33, <1>34, <1>35, <1>36, <1>37, <1>38, <1>39, <1>40, <1>41
  DEF Next, Main, MainInBody, Worker, Persist

\* A flush wave stays within the bag: only the worker removes entries, and only
\* those of its own chunk, which FlushSend took out of the wave.
LEMMA WaveStep == TypeOK /\ LocalsEmptied /\ WaveIsPending /\ [Next]_vars => WaveIsPending'
<1> SUFFICES ASSUME TypeOK, LocalsEmptied, WaveIsPending, [Next]_vars PROVE WaveIsPending'
  OBVIOUS
<1> USE DEF WaveIsPending, TypeOK, Persisters, Threads, Locks, WorkerPlaces,
           world, flags, store, mainVars, workVars, persVars
<1>1. CASE FindHits
  BY <1>1 DEF FindHits
<1>2. CASE NetworkChanges
  BY <1>2 DEF NetworkChanges
<1>3. ASSUME NEW t \in Threads, Signal(t) PROVE WaveIsPending'
  BY <1>3 DEF Signal, SignalAt
<1>41. ASSUME NEW t \in Threads, NEW lock \in Locks, SignalCatches(t, lock)
      PROVE WaveIsPending'
  BY <1>41 DEF SignalCatches, SignalAt
<1>4. CASE LoopTest
  BY <1>4 DEF LoopTest
<1>5. CASE UpdateFound
  BY <1>5 DEF UpdateFound
<1>6. CASE MineBatch
  BY <1>6 DEF MineBatch
<1>7. CASE EngineStops
  BY <1>7 DEF EngineStops
<1>8. CASE EnqueueLiveSubmit
  BY <1>8 DEF EnqueueLiveSubmit
<1>9. CASE HandleDone
  BY <1>9 DEF HandleDone
<1>10. CASE GracefulStart
  BY <1>10 DEF GracefulStart
<1>11. CASE GracefulDrain
  BY <1>11 DEF GracefulDrain
<1>12. CASE GracefulDrained
  BY <1>12 DEF GracefulDrained
<1>13. CASE SwapLiveQueue
  BY <1>13 DEF SwapLiveQueue
<1>14. CASE FinalSwap
  BY <1>14 DEF FinalSwap
<1>15. CASE StopSubmitWorker
  BY <1>15 DEF StopSubmitWorker
<1>16. CASE JoinWorker
  BY <1>16 DEF JoinWorker
<1>17. CASE FinalStop
  BY <1>17 DEF FinalStop
<1>18. CASE WorkerSwap
  BY <1>18 DEF WorkerSwap
<1>19. CASE WorkerDispatch
  BY <1>19 DEF WorkerDispatch
<1>20. CASE ProcessGate
  BY <1>20 DEF ProcessGate
<1>21. CASE SubmitReturns
  BY <1>21 DEF SubmitReturns
<1>22. CASE BatchDone
  BY <1>22 DEF BatchDone
<1>23. CASE ServiceQueue
  BY <1>23 DEF ServiceQueue
<1>24. CASE FlushSend
  BY <1>24 DEF FlushSend
<1>25. CASE FlushReplies
  BY <1>25 DEF FlushReplies
<1>26. CASE FlushMark
  BY <1>26 DEF FlushMark
<1>27. CASE FlushEnds
  BY <1>27 DEF FlushEnds
<1>28. CASE WorkerCheck
  BY <1>28 DEF WorkerCheck
<1>29. CASE LastGate
  BY <1>29 DEF LastGate
<1>30. ASSUME NEW h \in Hits, HandleToDisk(h) PROVE WaveIsPending'
  BY <1>30 DEF HandleToDisk
<1>31. ASSUME NEW h \in Hits, HandleDecideLive(h) PROVE WaveIsPending'
  BY <1>31 DEF HandleDecideLive
<1>32. ASSUME NEW h \in Hits, BagSwapped(h) PROVE WaveIsPending'
  BY <1>32 DEF BagSwapped
<1>33. ASSUME NEW h \in Hits, WorkerBags(h) PROVE WaveIsPending'
  BY <1>33 DEF WorkerBags
<1>34. ASSUME NEW h \in Hits, ProcessShutdown(h) PROVE WaveIsPending'
  BY <1>34 DEF ProcessShutdown
<1>35. ASSUME NEW h \in Hits, ProcessPoll(h) PROVE WaveIsPending'
  BY <1>35 DEF ProcessPoll
<1>36. ASSUME NEW p \in Persisters, mpc # "exit", PersistFlags(p) PROVE WaveIsPending'
  BY <1>36 DEF PersistFlags
<1>37. ASSUME NEW p \in Persisters, mpc # "exit", PersistSwap(p) PROVE WaveIsPending'
  BY <1>37 DEF PersistSwap
<1>38. ASSUME NEW p \in Persisters, mpc # "exit", PersistDefer(p) PROVE WaveIsPending'
  BY <1>38 DEF PersistDefer
<1>39. ASSUME NEW p \in Persisters, NEW h \in Hits, mpc # "exit", PersistBag(p, h)
      PROVE WaveIsPending'
  BY <1>39 DEF PersistBag
<1>40. CASE UNCHANGED vars
  BY <1>40 DEF vars
<1> HIDE DEF WaveIsPending, TypeOK, Persisters, Threads, Locks, WorkerPlaces,
           world, flags, store, mainVars, workVars, persVars
<1> QED
  BY <1>1, <1>2, <1>3, <1>4, <1>5, <1>6, <1>7, <1>8, <1>9, <1>10, <1>11,
     <1>12, <1>13, <1>14, <1>15, <1>16, <1>17, <1>18, <1>19, <1>20, <1>21,
     <1>22, <1>23, <1>24, <1>25, <1>26, <1>27, <1>28, <1>29, <1>30, <1>31,
     <1>32, <1>33, <1>34, <1>35, <1>36, <1>37, <1>38, <1>39, <1>40, <1>41
  DEF Next, Main, MainInBody, Worker, Persist

\* Every step moves hits from one place to another or leaves them.
LEMMA OnePlaceStep == TypeOK /\ LocalsEmptied /\ WaveIsPending /\ OnePlace /\ [Next]_vars => OnePlace'
<1> SUFFICES ASSUME TypeOK, LocalsEmptied, WaveIsPending, OnePlace, [Next]_vars PROVE OnePlace'
  OBVIOUS
<1> USE DEF OnePlace, InMemory, MainHolds, WorkerHolds, InHttp,
           TypeOK, Persisters, Threads, Locks, world, flags, store, mainVars, workVars, persVars
<1>1. CASE FindHits
  BY <1>1 DEF FindHits
<1>2. CASE NetworkChanges
  BY <1>2 DEF NetworkChanges
<1>3. ASSUME NEW t \in Threads, Signal(t) PROVE OnePlace'
  BY <1>3 DEF Signal, SignalAt
<1>41. ASSUME NEW t \in Threads, NEW lock \in Locks, SignalCatches(t, lock)
      PROVE OnePlace'
  BY <1>41 DEF SignalCatches, SignalAt
<1>4. CASE LoopTest
  BY <1>4 DEF LoopTest
<1>5. CASE UpdateFound
  BY <1>5 DEF UpdateFound
<1>6. CASE MineBatch
  BY <1>6 DEF MineBatch
<1>7. CASE EngineStops
  BY <1>7 DEF EngineStops
<1>8. CASE EnqueueLiveSubmit
  BY <1>8 DEF EnqueueLiveSubmit
<1>9. CASE HandleDone
  BY <1>9 DEF HandleDone
<1>10. CASE GracefulStart
  BY <1>10 DEF GracefulStart
<1>11. CASE GracefulDrain
  BY <1>11 DEF GracefulDrain
<1>12. CASE GracefulDrained
  BY <1>12 DEF GracefulDrained
<1>13. CASE SwapLiveQueue
  BY <1>13 DEF SwapLiveQueue
<1>14. CASE FinalSwap
  BY <1>14 DEF FinalSwap
<1>15. CASE StopSubmitWorker
  BY <1>15 DEF StopSubmitWorker
<1>16. CASE JoinWorker
  BY <1>16 DEF JoinWorker
<1>17. CASE FinalStop
  BY <1>17 DEF FinalStop
<1>18. CASE WorkerSwap
  BY <1>18 DEF WorkerSwap
<1>19. CASE WorkerDispatch
  BY <1>19 DEF WorkerDispatch
<1>20. CASE ProcessGate
  BY <1>20 DEF ProcessGate
<1>21. CASE SubmitReturns
  BY <1>21 DEF SubmitReturns
<1>22. CASE BatchDone
  BY <1>22 DEF BatchDone
<1>23. CASE ServiceQueue
  BY <1>23 DEF ServiceQueue
<1>24. CASE FlushSend
  BY <1>24 DEF FlushSend
<1>25. CASE FlushReplies
  BY <1>25 DEF FlushReplies
<1>26. CASE FlushMark
  BY <1>26 DEF FlushMark, WaveIsPending
<1>27. CASE FlushEnds
  BY <1>27 DEF FlushEnds
<1>28. CASE WorkerCheck
  BY <1>28 DEF WorkerCheck
<1>29. CASE LastGate
  BY <1>29 DEF LastGate
<1>30. ASSUME NEW h \in Hits, HandleToDisk(h) PROVE OnePlace'
  BY <1>30 DEF HandleToDisk
<1>31. ASSUME NEW h \in Hits, HandleDecideLive(h) PROVE OnePlace'
  BY <1>31 DEF HandleDecideLive
<1>32. ASSUME NEW h \in Hits, BagSwapped(h) PROVE OnePlace'
  BY <1>32 DEF BagSwapped
<1>33. ASSUME NEW h \in Hits, WorkerBags(h) PROVE OnePlace'
  BY <1>33 DEF WorkerBags
<1>34. ASSUME NEW h \in Hits, ProcessShutdown(h) PROVE OnePlace'
  BY <1>34 DEF ProcessShutdown
<1>35. ASSUME NEW h \in Hits, ProcessPoll(h) PROVE OnePlace'
  BY <1>35 DEF ProcessPoll
<1>36. ASSUME NEW p \in Persisters, mpc # "exit", PersistFlags(p) PROVE OnePlace'
  BY <1>36 DEF PersistFlags
<1>37. ASSUME NEW p \in Persisters, mpc # "exit", PersistSwap(p) PROVE OnePlace'
  BY <1>37 DEF PersistSwap
<1>38. ASSUME NEW p \in Persisters, mpc # "exit", PersistDefer(p) PROVE OnePlace'
  BY <1>38 DEF PersistDefer
<1>39. ASSUME NEW p \in Persisters, NEW h \in Hits, mpc # "exit", PersistBag(p, h)
      PROVE OnePlace'
  BY <1>39 DEF PersistBag
<1>40. CASE UNCHANGED vars
  BY <1>40 DEF vars
<1> HIDE DEF OnePlace, InMemory, MainHolds, WorkerHolds, InHttp,
           TypeOK, Persisters, Threads, Locks, world, flags, store, mainVars, workVars, persVars
<1> QED
  BY <1>1, <1>2, <1>3, <1>4, <1>5, <1>6, <1>7, <1>8, <1>9, <1>10, <1>11,
     <1>12, <1>13, <1>14, <1>15, <1>16, <1>17, <1>18, <1>19, <1>20, <1>21,
     <1>22, <1>23, <1>24, <1>25, <1>26, <1>27, <1>28, <1>29, <1>30, <1>31,
     <1>32, <1>33, <1>34, <1>35, <1>36, <1>37, <1>38, <1>39, <1>40, <1>41
  DEF Next, Main, MainInBody, Worker, Persist

\* No step takes a hit out of one place without putting it into another.
LEMMA AccountedStep ==
    TypeOK /\ LocalsEmptied /\ PersistExcludes /\ WaveIsPending /\ Accounted /\ [Next]_vars
      => Accounted'
<1> SUFFICES ASSUME TypeOK, LocalsEmptied, PersistExcludes, WaveIsPending, Accounted, [Next]_vars
             PROVE  Accounted'
  OBVIOUS
<1> USE DEF Accounted, InMemory, MainHolds, WorkerHolds, InHttp,
           TypeOK, Persisters, Threads, Locks, world, flags, store, mainVars, workVars, persVars
<1>1. CASE FindHits
  BY <1>1 DEF FindHits
<1>2. CASE NetworkChanges
  BY <1>2 DEF NetworkChanges
<1>3. ASSUME NEW t \in Threads, Signal(t) PROVE Accounted'
  BY <1>3 DEF Signal, SignalAt
<1>41. ASSUME NEW t \in Threads, NEW lock \in Locks, SignalCatches(t, lock)
      PROVE Accounted'
  BY <1>41 DEF SignalCatches, SignalAt
<1>4. CASE LoopTest
  BY <1>4 DEF LoopTest
<1>5. CASE UpdateFound
  BY <1>5 DEF UpdateFound
<1>6. CASE MineBatch
  BY <1>6 DEF MineBatch, LocalsEmptied
<1>7. CASE EngineStops
  BY <1>7 DEF EngineStops
<1>8. CASE EnqueueLiveSubmit
  BY <1>8 DEF EnqueueLiveSubmit
<1>9. CASE HandleDone
  BY <1>9 DEF HandleDone
<1>10. CASE GracefulStart
  BY <1>10 DEF GracefulStart
<1>11. CASE GracefulDrain
  BY <1>11 DEF GracefulDrain, LocalsEmptied
<1>12. CASE GracefulDrained
  BY <1>12 DEF GracefulDrained
<1>13. CASE SwapLiveQueue
  BY <1>13 DEF SwapLiveQueue, LocalsEmptied
<1>14. CASE FinalSwap
  BY <1>14 DEF FinalSwap, LocalsEmptied
<1>15. CASE StopSubmitWorker
  BY <1>15 DEF StopSubmitWorker
<1>16. CASE JoinWorker
  BY <1>16 DEF JoinWorker
<1>17. CASE FinalStop
  BY <1>17 DEF FinalStop
<1>18. CASE WorkerSwap
  BY <1>18 DEF WorkerSwap, LocalsEmptied
<1>19. CASE WorkerDispatch
  BY <1>19 DEF WorkerDispatch
<1>20. CASE ProcessGate
  BY <1>20 DEF ProcessGate
<1>21. CASE SubmitReturns
  BY <1>21 DEF SubmitReturns
<1>22. CASE BatchDone
  BY <1>22 DEF BatchDone
<1>23. CASE ServiceQueue
  BY <1>23 DEF ServiceQueue
<1>24. CASE FlushSend
  BY <1>24 DEF FlushSend
<1>25. CASE FlushReplies
  BY <1>25 DEF FlushReplies
<1>26. CASE FlushMark
  BY <1>26 DEF FlushMark
<1>27. CASE FlushEnds
  BY <1>27 DEF FlushEnds
<1>28. CASE WorkerCheck
  BY <1>28 DEF WorkerCheck, LocalsEmptied
<1>29. CASE LastGate
  BY <1>29 DEF LastGate
<1>30. ASSUME NEW h \in Hits, HandleToDisk(h) PROVE Accounted'
  BY <1>30 DEF HandleToDisk
<1>31. ASSUME NEW h \in Hits, HandleDecideLive(h) PROVE Accounted'
  BY <1>31 DEF HandleDecideLive, LocalsEmptied
<1>32. ASSUME NEW h \in Hits, BagSwapped(h) PROVE Accounted'
  BY <1>32 DEF BagSwapped
<1>33. ASSUME NEW h \in Hits, WorkerBags(h) PROVE Accounted'
  BY <1>33 DEF WorkerBags
<1>34. ASSUME NEW h \in Hits, ProcessShutdown(h) PROVE Accounted'
  BY <1>34 DEF ProcessShutdown
<1>35. ASSUME NEW h \in Hits, ProcessPoll(h) PROVE Accounted'
  BY <1>35 DEF ProcessPoll
<1>36. ASSUME NEW p \in Persisters, mpc # "exit", PersistFlags(p) PROVE Accounted'
  BY <1>36 DEF PersistFlags
<1>37. ASSUME NEW p \in Persisters, mpc # "exit", PersistSwap(p) PROVE Accounted'
  <2>1. pbatch = {}
    BY <1>37 DEF PersistSwap, PersistExcludes
  <2> QED
    BY <1>37, <2>1 DEF PersistSwap
<1>38. ASSUME NEW p \in Persisters, mpc # "exit", PersistDefer(p) PROVE Accounted'
  BY <1>38 DEF PersistDefer
<1>39. ASSUME NEW p \in Persisters, NEW h \in Hits, mpc # "exit", PersistBag(p, h)
      PROVE Accounted'
  BY <1>39 DEF PersistBag
<1>40. CASE UNCHANGED vars
  BY <1>40 DEF vars
<1> HIDE DEF Accounted, InMemory, MainHolds, WorkerHolds, InHttp,
           TypeOK, Persisters, Threads, Locks, world, flags, store, mainVars, workVars, persVars
<1> QED
  BY <1>1, <1>2, <1>3, <1>4, <1>5, <1>6, <1>7, <1>8, <1>9, <1>10, <1>11,
     <1>12, <1>13, <1>14, <1>15, <1>16, <1>17, <1>18, <1>19, <1>20, <1>21,
     <1>22, <1>23, <1>24, <1>25, <1>26, <1>27, <1>28, <1>29, <1>30, <1>31,
     <1>32, <1>33, <1>34, <1>35, <1>36, <1>37, <1>38, <1>39, <1>40, <1>41
  DEF Next, Main, MainInBody, Worker, Persist

\* The inductive invariant: NothingLostAtExit follows from Accounted because the
\* containers are empty at exit, and each part needs the ones before it.
PipelineInv == TypeOK /\ LocalsEmptied /\ PersistExcludes /\ WaveIsPending /\ OnePlace /\ Accounted

\* The invariant holds when run() enters its loop.
LEMMA PipelineInit == Init => PipelineInv
<1> SUFFICES ASSUME Init PROVE PipelineInv
  OBVIOUS
<1>1. TypeOK
  <2>1. signals \in 0..MaxSignals
    BY SubmitPipelineAssumption DEF Init
  <2> QED
    BY <2>1 DEF Init, TypeOK, Persisters, Threads, Locks, MainPlaces, WorkerPlaces, PersistPlaces
<1>2. LocalsEmptied /\ WaveIsPending
  BY DEF Init, LocalsEmptied, WaveIsPending, Persisters
<1>4. PersistExcludes
  BY DEF Init, PersistExcludes, Runs, Persisters, Threads
<1>3. OnePlace /\ Accounted
  BY DEF Init, OnePlace, Accounted, InMemory, MainHolds, WorkerHolds,
         InHttp, Persisters
<1> QED
  BY <1>1, <1>2, <1>3, <1>4 DEF PipelineInv

\* The invariant holds in every reachable state.
LEMMA PipelineInvariant == Spec => []PipelineInv
<1>1. PipelineInv /\ [Next]_vars => PipelineInv'
  BY TypeStep, LocalsStep, ExcludesStep, WaveStep, OnePlaceStep, AccountedStep DEF PipelineInv
<1> QED
  BY PipelineInit, <1>1, PTL DEF Spec

\* No hit that the GPU returned ever vanishes while the process runs.
THEOREM NeverLost == Spec => []Accounted
BY PipelineInvariant, PTL DEF PipelineInv

\* No hit is ever held twice: nothing is bagged or submitted by two threads, and
\* an accepted block is never queued again.
THEOREM HeldOnce == Spec => []OnePlace
BY PipelineInvariant, PTL DEF PipelineInv

\* A flush wave resends only what is still pending.
THEOREM WavePending == Spec => []WaveIsPending
BY PipelineInvariant, PTL DEF PipelineInv

\* No container of a thread dies with hits in it.
THEOREM NoContainerDiesFull == Spec => []LocalsEmptied
BY PipelineInvariant, PTL DEF PipelineInv

\* At most one thread is within persist_queue_for_restart, no thread ends with a
\* handler of its own under way, and its batch is empty when it leaves.
THEOREM PersistExclusive == Spec => []PersistExcludes
BY PipelineInvariant, PTL DEF PipelineInv

\* With a handler that borrows one of the process's own threads (POSIX), the end
\* of the process finds every hit on disk or accepted.
THEOREM ExitKeepsAll ==
    ASSUME ~HandlerOwnThread
    PROVE  Spec => []NothingLostAtExit
<1>1. ASSUME PipelineInv, mpc = "exit" PROVE found \subseteq bag \cup done
  <2>1. \A p \in Persisters : ppc[p] = "idle"
    BY <1>1 DEF PipelineInv, PersistExcludes, LocalsEmptied, TypeOK, Runs, Persisters, Threads,
                PersistPlaces
  <2>2. pbatch = {}
    BY <1>1, <2>1 DEF PipelineInv, PersistExcludes
  <2> QED
    BY <1>1, <2>2 DEF PipelineInv, LocalsEmptied, Accounted, InMemory, MainHolds,
                      WorkerHolds, InHttp
<1>2. PipelineInv => NothingLostAtExit
  BY <1>1 DEF NothingLostAtExit
<1> QED
  BY <1>2, PipelineInvariant, PTL
=============================================================================
