---------------------------- MODULE MCBatchSizing ----------------------------
(* A small card for TLC: a MiB holds 10 units, and an attempt 18 to 400. *)
EXTENDS BatchSizing, TLC

\* The harvest cost, the reference, and one no batch of which fits.
MCMs == {100, 1100, 90000}
MCAttemptBytes == (100 :> 18) @@ (1100 :> 30) @@ (90000 :> 400)
=============================================================================
