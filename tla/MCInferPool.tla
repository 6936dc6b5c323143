---------------------------- MODULE MCInferPool ----------------------------
(* InferPool for TLC. *)
EXTENDS InferPool
=============================================================================
