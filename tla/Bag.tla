---------------------------------- MODULE Bag ----------------------------------
(***************************************************************************)
(* What the block store promises its users: a set of found blocks.  A      *)
(* block is put in once.  It leaves when the submitter, having listed it,  *)
(* reports it submitted, and in no other way: neither a stop or crash nor  *)
(* a start takes a block out.                                              *)
(*                                                                         *)
(* A stop forgets every report, though: what the next start finds is all   *)
(* that was ever put in, because the log behind the store is never         *)
(* compacted.  The flush copes, since the pool answers "already exists"    *)
(* for a block it has, which counts as accepted.                           *)
(*                                                                         *)
(* A process that dies inside an append leaves the log torn.  The block    *)
(* that is put in next is fragile: a stop may lose it.                     *)
(***************************************************************************)
CONSTANT Hashes

VARIABLES up,       \* the store is in service
          bag,      \* the blocks to be submitted; when down, to be found again
          wave,     \* those of them that the submitter has listed
          owed,     \* blocks put in and not reported submitted since
          ever,     \* all blocks put in so that they survive
          fragile,  \* those that may not
          torn      \* the log ends in part of a line

bagVars == <<up, bag, wave, owed, ever, fragile, torn>>

Init ==
    /\ up = FALSE
    /\ bag = {} /\ wave = {} /\ owed = {}
    /\ ever = {} /\ fragile = {} /\ torn = FALSE

Put(h) ==
    /\ up
    /\ h \notin bag
    /\ bag' = bag \cup {h}
    /\ owed' = owed \cup {h}
    /\ ever' = IF torn THEN ever ELSE ever \cup {h}
    /\ fragile' = IF torn THEN fragile \cup {h} ELSE fragile \ {h}
    /\ torn' = FALSE
    /\ UNCHANGED <<up, wave>>

\* The submitter lists blocks to work on, one lot at a time.
List(S) ==
    /\ up
    /\ wave = {} /\ S # {} /\ S \subseteq bag
    /\ wave' = S
    /\ UNCHANGED <<up, bag, owed, ever, fragile, torn>>

\* It stops working on what it has left.
GiveUp ==
    /\ up
    /\ wave' = {}
    /\ UNCHANGED <<up, bag, owed, ever, fragile, torn>>

\* It reports the blocks S submitted: they leave.
Take(S) ==
    /\ up
    /\ S # {} /\ S \subseteq wave
    /\ bag' = bag \ S
    /\ wave' = wave \ S
    /\ owed' = owed \ S
    /\ UNCHANGED <<up, ever, fragile, torn>>

\* The process closes the store, or dies.
Stop ==
    /\ up /\ up' = FALSE
    /\ \E S \in SUBSET fragile : bag' = ever \cup S
    /\ wave' = {}
    /\ torn' \in {torn, TRUE}
    /\ UNCHANGED <<owed, ever, fragile>>

\* A start has found the bag again.
Start ==
    /\ ~up /\ up' = TRUE
    /\ UNCHANGED <<bag, wave, owed, ever, fragile, torn>>

Next == \/ \E h \in Hashes : Put(h)
        \/ \E S \in SUBSET Hashes : List(S) \/ Take(S)
        \/ GiveUp
        \/ Stop \/ Start

Spec == Init /\ [][Next]_bagVars
=============================================================================
