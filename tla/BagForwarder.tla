----------------------------- MODULE BagForwarder -----------------------------
(***************************************************************************)
(* The bag forwarder (class BagForwarder, network/bag_forward.cpp) at work *)
(* on the store of module BlockStore.                                      *)
(*                                                                         *)
(* A thread copies unforwarded entries, posts them to a master machine     *)
(* (the "vault") and marks the ids that it listed.  The store's mutex is   *)
(* free during the POST: flush waves remove entries, enqueue adds some,    *)
(* snapshots are written, and the process may die at any point.            *)
(*                                                                         *)
(* fail_streak_ only chooses how long the thread waits and what is logged, *)
(* and is left out: a wait ends some time.                                 *)
(***************************************************************************)
EXTENDS BlockStore, FiniteSets

CONSTANT Batch          \* batch_

ASSUME BatchAssumption == Batch \in Nat \ {0}

VARIABLES
    fwd,        \* where the forwarder's thread is: see Places
    running,    \* running_
    closing,    \* the wave behind the loop, sent after stop()
    vault       \* digests that the master has stored

fwdVars == <<fwd, running, closing, vault>>
allVars == <<vars, fwdVars>>

\* "off": not constructed; "top": the loop's test; "list", "post", "mark":
\* inside send_wave; "wait": wait_for; "joined": the thread has ended.
Places == {"off", "top", "list", "post", "mark", "wait", "joined"}

-----------------------------------------------------------------------------
(* The store's other users: every operation but the forwarder's.           *)

StoreRuns ==
    \/ Load \/ LoadEntry \/ LoadDbDone \/ RecoverLine \/ RecoverDone
    \/ SaveDone
    \/ \E h \in Hashes, r \in Reasons : Enqueue(h, r)
    \/ ListBatch("flush") \/ DropBatch("flush")
    \/ \E S \in SUBSET held["flush"] : MarkSubmittedMany(S)
    \/ \E e \in held["flush"], r \in Reasons : MarkPendingReason(e.id, r)
    \/ DeferAllToNextStart
    \/ Flush

Others == StoreRuns /\ UNCHANGED fwdVars

\* finalize_session has joined the thread before the store is destroyed.
DestroyStore ==
    /\ fwd \in {"off", "joined"}
    /\ Destroy
    /\ fwd' = "off" /\ running' = FALSE /\ closing' = FALSE
    /\ UNCHANGED vault

\* The thread dies with the process; the vault is another machine's.
Die ==
    /\ Crash \/ CrashInAppend
    /\ fwd' = "off" /\ running' = FALSE /\ closing' = FALSE
    /\ UNCHANGED vault

-----------------------------------------------------------------------------
(* The forwarder's thread.                                                 *)

\* run() constructs and starts it when a URL is configured.
Start ==
    /\ phase = "run" /\ fwd = "off"
    /\ fwd' = "top" /\ running' = TRUE
    /\ UNCHANGED <<vars, closing, vault>>

\* stop(): the flag; the caller then joins (DestroyStore waits for that).
Stop ==
    /\ running
    /\ running' = FALSE
    /\ UNCHANGED <<vars, fwd, closing, vault>>

\* while (running_), and the wave behind the loop.
LoopTest ==
    /\ fwd = "top"
    /\ fwd' = "list"
    /\ closing' = ~running
    /\ UNCHANGED <<vars, running, vault>>

\* Where send_wave returns to.  The loop breaks when it finds running_ FALSE
\* after a wave, which is LoopTest's other case.
AfterWave == IF closing THEN "joined" ELSE "wait"

Unforwarded == {e \in pending : ~e.forwarded}
Lesser(a, b) == IF a <= b THEN a ELSE b

\* list_unforwarded(batch_): at most batch_ entries, all when there are fewer.
\* Which ones is left open, as the store's order is not modelled.
ListWave ==
    /\ fwd = "list"
    /\ \/ /\ InService /\ Unforwarded = {}
          /\ fwd' = AfterWave
          /\ UNCHANGED vars
       \/ /\ ListBatch("forward")
          /\ Cardinality(held'["forward"]) =
                Lesser(Batch, Cardinality(Unforwarded))
          /\ fwd' = "post"
    /\ UNCHANGED <<running, closing, vault>>

\* http_post_json: the master stores the wave and answers 200.
PostStored ==
    /\ fwd = "post"
    /\ vault' = vault \cup HashesOf(held["forward"])
    /\ fwd' = "mark"
    /\ UNCHANGED <<vars, running, closing>>

\* No connection, another status, "ok":false; or the wave is stored and the
\* answer does not arrive in time.  "Keeping local bag, retrying".
PostFails ==
    /\ fwd = "post"
    /\ vault' \in {vault, vault \cup HashesOf(held["forward"])}
    /\ DropBatch("forward")
    /\ fwd' = AfterWave
    /\ UNCHANGED <<running, closing>>

\* Mutant: everything unforwarded at that time is marked, not what was listed.
MarkWaveAll ==
    /\ fwd = "mark" /\ InService
    /\ Update([e \in pending |-> WithForwarded(e)])
    /\ MarkDirtySave
    /\ held' = [held EXCEPT !["forward"] = {}]
    /\ fwd' = AfterWave
    /\ UNCHANGED <<phase, hashIndex, nextId, toLoad, cursor, added, jsonl,
                   tornTail, restarts, glued, owed, running, closing, vault>>

\* mark_forwarded_many(ids)
MarkWave ==
    /\ fwd = "mark"
    /\ MarkForwardedMany
    /\ fwd' = AfterWave
    /\ UNCHANGED <<running, closing, vault>>

\* Mutant: the wait has no time limit, and notify() does not change what the
\* predicate reads.
WaitForStop ==
    /\ fwd = "wait" /\ ~running
    /\ fwd' = "top"
    /\ UNCHANGED <<vars, running, closing, vault>>

\* wait_for ends by its time limit or by stop().
WaitEnds ==
    /\ fwd = "wait"
    /\ fwd' = "top"
    /\ UNCHANGED <<vars, running, closing, vault>>

Forwarding ==
    LoopTest \/ ListWave \/ PostStored \/ PostFails \/ MarkWave \/ WaitEnds

-----------------------------------------------------------------------------
FwdInit ==
    /\ Init
    /\ fwd = "off" /\ running = FALSE /\ closing = FALSE
    /\ vault = {}

FwdNext ==
    \/ Others \/ DestroyStore \/ Die
    \/ Start \/ Stop \/ Forwarding

\* The thread is scheduled and each POST has a limit of 8 s.  It competes for
\* mu_ with operations that end (hence the strong fairness), and saves end.
Fairness ==
    /\ WF_allVars(Forwarding) /\ SF_allVars(ListWave) /\ SF_allVars(MarkWave)
    /\ WF_allVars(SaveDone /\ UNCHANGED fwdVars)

FwdSpec == FwdInit /\ [][FwdNext]_allVars /\ Fairness

-----------------------------------------------------------------------------
(* Properties.                                                             *)

\* Types.
FwdTypeOK ==
    /\ TypeOK
    /\ fwd \in Places /\ running \in BOOLEAN /\ closing \in BOOLEAN
    /\ vault \in SUBSET Hashes

\* An entry that carries the forwarded mark, in memory or in a snapshot, is in
\* the vault.  Such entries are not sent again, so a wrong mark, on a block
\* enqueued or given an id meanwhile, would leave it without its second copy.
MarkedAreInVault ==
    \A e \in pending \cup toLoad \cup db.pending :
        e.forwarded => e.hash \in vault

\* With a master that does not refuse every POST for ever, every block that
\* stays in the bag reaches the vault: marks, lost answers, waits and other
\* users of the store cannot keep it from being sent while the forwarder runs.
BagReachesVault ==
    SF_allVars(PostStored) =>
        \A h \in Hashes :
            (running /\ h \in HashesOf(pending)) ~>
                (h \in vault \/ h \notin HashesOf(pending) \/ ~running)

-----------------------------------------------------------------------------
(* The inductive invariant behind the proofs in BlockStoreProofs.          *)

\* Between the master's 200 and the marks the wave is in the vault.
AnsweredIsStored == fwd = "mark" => HashesOf(held["forward"]) \subseteq vault

VaultInv ==
    /\ FwdTypeOK
    /\ AnsweredIsStored
    /\ MarkedAreInVault

=============================================================================
