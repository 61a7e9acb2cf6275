----------------------------- MODULE MCBlockStore -----------------------------
(* Small instances of BlockStore for TLC. *)
EXTENDS BlockStore, TLC

\* The digests are interchangeable.
Symmetry == Permutations(Hashes)
=============================================================================
