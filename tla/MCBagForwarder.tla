---------------------------- MODULE MCBagForwarder ----------------------------
(* Small instances of BagForwarder for TLC. *)
EXTENDS BagForwarder
=============================================================================
