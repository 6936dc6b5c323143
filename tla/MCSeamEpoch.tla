--------------------------- MODULE MCSeamEpoch ----------------------------
(* Two cameras. The apply thread only reads what the others write, so one  *)
(* part of the behaviours runs it over an epoch less and with the rate 1,  *)
(* the other part runs the preparation and the search without it.          *)
EXTENDS SeamEpoch, TLC

VARIABLE part
MCInit == Init /\ part \in {"reader", "search"} /\ (part = "reader" => seam_rate = 1)

MCDecides == LeadDecides /\ (part = "reader" => seam_epoch' < MaxEpoch)
MCPrepare(c) == Snapshot(c) \/ Pop(c) \/ SignalId(c) \/ (c = Lead /\ MCDecides)

MCNext ==
  /\ \/ SeamFind
     \/ part = "reader" /\ Apply
     \/ \E c \in Cams : MCPrepare(c)
  /\ UNCHANGED part

MCSpec ==
  /\ MCInit /\ [][MCNext]_<<vars, part>>
  /\ WF_vars(SeamFind)
  /\ \A c \in Cams : WF_vars(Snapshot(c)) /\ WF_vars(SignalId(c)) /\ WF_vars(c = Lead /\ MCDecides)
=============================================================================
