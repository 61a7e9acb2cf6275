----------------------------- MODULE MCPaperWatch -----------------------------
(* Small instances of PaperWatch for TLC. *)
EXTENDS PaperWatch
=============================================================================
