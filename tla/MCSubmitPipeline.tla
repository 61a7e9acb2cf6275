--------------------------- MODULE MCSubmitPipeline ---------------------------
(* SubmitPipeline for TLC: hits are interchangeable model values. *)
EXTENDS SubmitPipeline, TLC

Symmetry == Permutations(Hits)
=============================================================================
