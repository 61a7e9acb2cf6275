----------------------------- MODULE MCMatchDrain -----------------------------
(* Small instances of MatchDrain for TLC. *)
EXTENDS MatchDrain

\* A block of the forced memory cost of either kind, and one of a higher cost.
MCBlocks == {[m |-> 1, kind |-> "XNM"], [m |-> 1, kind |-> "XUNI"],
             [m |-> 2, kind |-> "XNM"]}
=============================================================================
