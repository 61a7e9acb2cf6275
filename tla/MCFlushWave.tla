----------------------------- MODULE MCFlushWave -----------------------------
(* FlushWave for TLC. *)
EXTENDS FlushWave
=============================================================================
