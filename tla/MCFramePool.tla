---------------------------- MODULE MCFramePool ----------------------------
(* FramePool for TLC: the slots are interchangeable. *)
EXTENDS FramePool, TLC

SlotSymmetry == Permutations(Slots)
=============================================================================
