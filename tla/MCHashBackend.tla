---------------------------- MODULE MCHashBackend ----------------------------
(* HashBackend for TLC. *)
EXTENDS HashBackend
=============================================================================
