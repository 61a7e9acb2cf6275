----------------------------- MODULE MCLifecycle -----------------------------
(* Three starts in one directory. *)
EXTENDS Lifecycle, TLC
=============================================================================
