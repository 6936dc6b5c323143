---------------------------- MODULE MCApplyJoin ----------------------------
(* ApplyJoin for TLC; all bounds are constants of ApplyJoin. *)
EXTENDS ApplyJoin
=============================================================================
