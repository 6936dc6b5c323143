----------------------------- MODULE MCShutdown -----------------------------
(* Two teams: the blending side, with two cameras, and the seam side with    *)
(* the tuner.                                                                *)
EXTENDS Shutdown

MCCams    == {0, 1}
BlendSide == {Trig, Apply, Prepare} \cup Captures
SeamSide  == {SeamFind, <<"seam_prep", 1>>, Infer, Bright}
Sides     == {BlendSide, SeamSide}
Two       == {{Trig, SeamFind} \cup Captures}
=============================================================================
