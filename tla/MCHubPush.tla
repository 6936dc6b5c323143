----------------------------- MODULE MCHubPush -----------------------------
(* One hub of the panorama at 30 fps over many pictures until it is torn    *)
(* down, and two hubs of a camera at 60 and 30 fps that share its buffers.  *)
EXTENDS HubPush

Panorama == [dur |-> <<2>>, shared |-> FALSE, stops |-> TRUE, frames |-> 7, until |-> 13]
Camera   == [dur |-> <<1, 2>>, shared |-> TRUE, stops |-> FALSE, frames |-> 4, until |-> 6]
BothFeeds == {Panorama, Camera}
=============================================================================
