----------------------------- MODULE MCCudaEngine -----------------------------
(* CudaEngine for TLC. *)
EXTENDS CudaEngine
=============================================================================
