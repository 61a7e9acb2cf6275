---------------------------- MODULE MCNetworkWatch ----------------------------
(* NetworkWatch for TLC. *)
EXTENDS NetworkWatch
=============================================================================
