------------------------------- MODULE HitSource -------------------------------
(***************************************************************************)
(* What the mining thread may expect of CudaEngine (mining/cuda_engine.hpp):*)
(* the engine finds hits, holds them for a while and returns each of them  *)
(* once.  It loses hits only when a wave has failed or lanes were torn     *)
(* down.  SubmitPipeline builds on this: its `gpu` is `held`.              *)
(***************************************************************************)
CONSTANT Hits

VARIABLES
    held,      \* hits in the engine
    returned,  \* hits that mine_batch or drain_pipeline returned
    dropped,   \* hits that are gone
    excused    \* a wave has failed, or lanes were torn down

sourceVars == <<held, returned, dropped, excused>>

SourceInit == held = {} /\ returned = {} /\ dropped = {} /\ excused = FALSE

\* Some hits are found, some of the held ones are returned, and some are lost.
Step ==
    \E new \in SUBSET (Hits \ (held \cup returned \cup dropped)),
       out \in SUBSET held, lost \in SUBSET held :
        /\ out \cap lost = {}
        /\ excused' \in {excused, TRUE}
        /\ lost # {} => excused'
        /\ held' = (held \cup new) \ (out \cup lost)
        /\ returned' = returned \cup out
        /\ dropped' = dropped \cup lost

SourceSpec == SourceInit /\ [][Step]_sourceVars
=============================================================================
