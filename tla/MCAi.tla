-------------------------------- MODULE MCAi --------------------------------
(***************************************************************************)
(* What detection adds to a picture: how the boxes are found, the slots    *)
(* they travel in, and the table of tracks. The three share no state: each *)
(* behaviour runs one of them.                                             *)
(***************************************************************************)
EXTENDS OsdSlots, TrackTable, Detector

VARIABLE part
vars == <<part, osdVars, trackVars, detVars>>

\* Two grids see the middle one of three boxes in a row.
ThreeInARow == {[grid |-> 1, box |-> b] : b \in 1 .. 3} \cup {[grid |-> 2, box |-> 2]}

Init ==
  /\ part \in {"osd", "track", "detect"} /\ OsdInit /\ TrackInit /\ DetInit
  /\ part # "track" => mode = 0
  /\ part # "detect" => scene = [c \in Cells |-> 0]

Osd   == part = "osd" /\ OsdNext /\ UNCHANGED <<part, trackVars, detVars>>
Track == part = "track" /\ TrackNext /\ UNCHANGED <<part, osdVars, detVars>>
Detect == part = "detect" /\ DetNext /\ UNCHANGED <<part, osdVars, trackVars>>

AiSpec ==
  /\ Init /\ [][Osd \/ Track \/ Detect]_vars
  /\ WF_vars(part = "osd" /\ EventCompletes /\ UNCHANGED <<part, trackVars, detVars>>)
=============================================================================
