------------------------ MODULE OrderedLossyChannel ------------------------
(***************************************************************************)
(* What the inference hand-over promises, without slots, events or locks:  *)
(* frames travel in order through a channel that never holds more than     *)
(* Capacity of them; each is delivered at most once; a frame may be lost   *)
(* when its turn comes (a failed GPU call), and a torn-down channel loses  *)
(* what it holds.                                                          *)
(***************************************************************************)
EXTENDS Integers, Sequences

CONSTANTS Capacity, MaxFrame

VARIABLES
  sent,      \* the newest frame offered to the channel
  channel,   \* frames under way, oldest first
  got        \* the newest frame delivered

vars == <<sent, channel, got>>

Init == sent = 0 /\ channel = <<>> /\ got = 0

Send ==
  /\ sent < MaxFrame
  /\ Len(channel) < Capacity
  /\ sent' = sent + 1
  /\ channel' = Append(channel, sent + 1)
  /\ UNCHANGED got

\* A frame offered while no slot is free is dropped before it enters.
Skip ==
  /\ sent < MaxFrame
  /\ sent' = sent + 1
  /\ UNCHANGED <<channel, got>>

Deliver ==
  /\ channel # <<>>
  /\ got' = Head(channel)
  /\ channel' = Tail(channel)
  /\ UNCHANGED sent

LoseOldest ==
  /\ channel # <<>>
  /\ channel' = Tail(channel)
  /\ UNCHANGED <<sent, got>>

TearDown ==
  /\ channel' = <<>>
  /\ UNCHANGED <<sent, got>>

Next == Send \/ Skip \/ Deliver \/ LoseOldest \/ TearDown

Spec == Init /\ [][Next]_vars
=============================================================================
