------------------------------ MODULE OsdSlots ------------------------------
(***************************************************************************)
(* How the boxes of a detection reach the picture they were found in. The  *)
(* inference worker publishes the boxes of a frame in a slot, and as the   *)
(* latest result; the mux probe of every panorama hub looks for the slot   *)
(* of its picture and falls back on the latest result. The slots are       *)
(* shared by all hubs, and each hub initialises them when it is created    *)
(* and destroys them when it goes. Tracks go the same way through slots of *)
(* their own and the same functions: this module is one of the two ways.   *)
(* Frame numbers stand for what was found in them; 0 is no frame, and the  *)
(* boxes of no frame are none at all or what freed memory holds. A picture *)
(* waits in the pipelines, and its inference in the queue, as long as it   *)
(* likes: worker and probes choose their next frame independently.         *)
(***************************************************************************)
EXTENDS Integers, FiniteSets

CONSTANTS
  NumSlots,          \* slots of a way, 4 in the code
  Hubs,              \* the panorama hubs, 1 .. n, created in this order
  MaxFallback,       \* latest_max_fallback_frames
  ClearAfterEmpty,   \* latest_clear_after_empty
  MaxFrame           \* bound on the frames

ASSUME OsdAssumption ==
  /\ NumSlots \in Nat \ {0} /\ IsFiniteSet(Hubs) /\ Hubs = 1 .. Cardinality(Hubs)
  /\ MaxFallback \in Nat /\ ClearAfterEmpty \in Nat \ {0} /\ MaxFrame \in Nat

Slots  == 1 .. NumSlots
Frames == 1 .. MaxFrame

VARIABLES
  slot,      \* OsdDetSlot: state, frame_seq, the count and the boxes, the event
  latest,    \* the latest_* fields
  publisher, \* the inference worker: its step, frame, number of boxes and slot
  prober,    \* mux_src_pad_probe of each hub: its step, picture and slot
  drawn,     \* history: the boxes each hub drew into its present picture, and whence
  built,     \* hubs created so far
  gone       \* hubs torn down

hubVars == <<built, gone>>
osdVars == <<slot, latest, publisher, prober, drawn, hubVars>>

Blank   == [state |-> "free", seq |-> 0, count |-> 0, boxes |-> 0, event |-> "complete"]
NoBoxes == [valid |-> FALSE, seq |-> 0, count |-> 0, boxes |-> 0, empty |-> 0]
NotDrawn == [boxes |-> 0, exact |-> FALSE]
Idle    == [step |-> "idle", frame |-> 0, count |-> 0, slot |-> 0]

OsdInit ==
  /\ slot = [s \in Slots |-> Blank] /\ latest = NoBoxes
  /\ publisher = Idle
  /\ prober = [h \in Hubs |-> [step |-> "idle", frame |-> 0, slot |-> 0]]
  /\ drawn = [h \in Hubs |-> NotDrawn]
  /\ built = 0 /\ gone = {}

\* The hubs own slots while one is created and none is torn down.
Alive == built > 0 /\ gone = {}

----------------------------------------------------------------------------
(* publish_detections_to_slot *)

\* Mutant: a slot comes back only by the hand of a probe.
Takeable_FreeOnly(s) == slot[s].state = "free"

\* acquire_free_slot_from: free, or pending with its event complete.
Takeable(s) == slot[s].state = "free" \/ slot[s].event = "complete"

FirstOf(S) == CHOOSE s \in S : \A t \in S : s <= t

\* The worker has the result of a newer frame: count stands for how many boxes.
Acquire ==
  /\ publisher.step = "idle" /\ publisher.frame < MaxFrame
  /\ \E f \in publisher.frame + 1 .. MaxFrame, n \in {0, 1} :
       LET open == {s \in Slots : Alive /\ Takeable(s)}
           s    == FirstOf(open) IN
       IF open = {}
       THEN publisher' = [Idle EXCEPT !.frame = f] /\ UNCHANGED slot
       ELSE /\ publisher' = [step |-> "seq", frame |-> f, count |-> n, slot |-> s]
            /\ slot' = [slot EXCEPT ![s].state = "pending",
                 ![s].seq   = IF slot[s].state = "free" THEN @ ELSE 0,
                 ![s].count = IF slot[s].state = "free" THEN @ ELSE 0]
  /\ UNCHANGED <<latest, prober, drawn, hubVars>>

\* What the worker writes goes nowhere once its slot was replaced.
Write(field, value) ==
  slot' = [s \in Slots |-> IF s = publisher.slot THEN [slot[s] EXCEPT ![field] = value]
                                               ELSE slot[s]]

PublisherGoes(from, to) == publisher.step = from /\ publisher' = [publisher EXCEPT !.step = to]

SetSeq ==
  /\ PublisherGoes("seq", "count")
  /\ Write("seq", publisher.frame)
  /\ UNCHANGED <<latest, prober, drawn, hubVars>>

SetCount ==
  /\ PublisherGoes("count", "boxes")
  /\ Write("count", publisher.count)
  /\ UNCHANGED <<latest, prober, drawn, hubVars>>

\* Mutant: an empty result makes the old boxes look new.
UpdateLatest_Renews(f, n, b) ==
  IF n > 0 THEN [valid |-> TRUE, seq |-> f, count |-> n, boxes |-> b, empty |-> 0]
  ELSE IF latest.empty + 1 < ClearAfterEmpty
       THEN [latest EXCEPT !.empty = @ + 1, !.seq = f]
       ELSE [latest EXCEPT !.empty = @ + 1, !.valid = FALSE, !.count = 0, !.seq = f]

\* Mutant: an empty result more than it should take.
UpdateLatest_ClearsLate(f, n, b) ==
  IF n > 0 THEN [valid |-> TRUE, seq |-> f, count |-> n, boxes |-> b, empty |-> 0]
  ELSE IF latest.empty < ClearAfterEmpty
       THEN [latest EXCEPT !.empty = @ + 1]
       ELSE [latest EXCEPT !.empty = @ + 1, !.valid = FALSE, !.count = 0, !.seq = f]

\* osd_update_latest_result: the result of frame f are n boxes, those of b.
UpdateLatest(f, n, b) ==
  IF n > 0 THEN [valid |-> TRUE, seq |-> f, count |-> n, boxes |-> b, empty |-> 0]
  ELSE IF latest.empty + 1 < ClearAfterEmpty
       THEN [latest EXCEPT !.empty = @ + 1]
       ELSE [latest EXCEPT !.empty = @ + 1, !.valid = FALSE, !.count = 0, !.seq = f]

\* The boxes are copied into the slot, and from there into the latest result.
\* Through a slot that was replaced they go through freed memory: what comes
\* out of it are the boxes that went in, or those of no frame.
SetBoxes ==
  /\ PublisherGoes("boxes", "state")
  /\ IF publisher.count > 0
     THEN Write("boxes", publisher.frame)
     ELSE UNCHANGED slot
  /\ \E b \in {publisher.frame} \cup (IF publisher.slot \in Slots THEN {} ELSE {0}) :
       latest' = UpdateLatest(publisher.frame, publisher.count, b)
  /\ UNCHANGED <<prober, drawn, hubVars>>

SetState ==
  /\ PublisherGoes("state", "record")
  /\ Write("state", "pending")
  /\ UNCHANGED <<latest, prober, drawn, hubVars>>

RecordEvent ==
  /\ publisher.step = "record" /\ publisher' = [Idle EXCEPT !.frame = publisher.frame]
  /\ Write("event", "pending")
  /\ UNCHANGED <<latest, prober, drawn, hubVars>>

\* osd_release_slot on s.
Freed(s) == [t \in Slots |-> IF t = s THEN [slot[t] EXCEPT !.state = "free", !.seq = 0, !.count = 0]
                                      ELSE slot[t]]

\* cudaEventRecord fails.
RecordFails ==
  /\ publisher.step = "record" /\ publisher' = [Idle EXCEPT !.frame = publisher.frame]
  /\ slot' = Freed(publisher.slot)
  /\ UNCHANGED <<latest, prober, drawn, hubVars>>

\* The default stream gets to the event.
EventCompletes ==
  /\ \E s \in Slots : slot[s].event = "pending" /\ slot' = [slot EXCEPT ![s].event = "complete"]
  /\ UNCHANGED <<latest, publisher, prober, drawn, hubVars>>

----------------------------------------------------------------------------
(* mux_src_pad_probe *)

Draw(h, boxes, exact) == drawn' = [drawn EXCEPT ![h] = [boxes |-> boxes, exact |-> exact]]

\* Mutant: a result of a later frame will do.
Usable_Later(f) ==
  /\ latest.valid /\ latest.count > 0 /\ latest.seq # 0
  /\ f - latest.seq <= MaxFallback

\* osd_copy_latest_result
Usable(f) ==
  /\ latest.valid /\ latest.count > 0 /\ latest.seq # 0
  /\ latest.seq <= f /\ f - latest.seq <= MaxFallback

FallBack(h) ==
  LET f == prober'[h].frame IN Draw(h, IF Usable(f) THEN latest.boxes ELSE 0, FALSE)

\* A later picture arrives at the hub, and the probe looks for its slot.
Find(h) ==
  /\ prober[h].step = "idle" /\ h <= built /\ h \notin gone
  /\ \E f \in prober[h].frame + 1 .. MaxFrame :
       LET at == {s \in Slots : Alive /\ slot[s].state # "free" /\ slot[s].seq = f} IN
       IF at = {}
       THEN /\ prober' = [prober EXCEPT ![h].frame = f]
            /\ FallBack(h)
       ELSE /\ prober' = [prober EXCEPT ![h] =
                 [step |-> "query", frame |-> f, slot |-> FirstOf(at)]]
            /\ drawn' = [drawn EXCEPT ![h] = NotDrawn]
  /\ UNCHANGED <<slot, latest, publisher, hubVars>>

\* The slot of the probe while it is not replaced; a dangling one looks blank.
Held(h) == IF prober[h].slot \in Slots THEN slot[prober[h].slot] ELSE Blank

Leave(h) == prober' = [prober EXCEPT ![h].step = "idle", ![h].slot = 0]

\* An event that is not complete leaves the slot alone; one that CUDA reports
\* an error for is given up with it.
Query(h) ==
  /\ prober[h].step = "query"
  /\ \/ /\ Held(h).event = "complete"
        /\ prober' = [prober EXCEPT ![h].step = "copy"] /\ UNCHANGED drawn
     \/ /\ Held(h).event = "pending"
        /\ Leave(h) /\ FallBack(h)
     \/ prober' = [prober EXCEPT ![h].step = "giveup"] /\ UNCHANGED drawn
  /\ UNCHANGED <<slot, latest, publisher, hubVars>>

\* copy_exact_slot_if_ready asks for the event again.
Copy(h) ==
  /\ prober[h].step = "copy"
  /\ IF Held(h).event = "complete" /\ Held(h).count > 0
     THEN prober' = [prober EXCEPT ![h].step = "release"] /\ Draw(h, Held(h).boxes, TRUE)
     ELSE prober' = [prober EXCEPT ![h].step = "giveup"] /\ UNCHANGED drawn
  /\ UNCHANGED <<slot, latest, publisher, hubVars>>

\* Without boxes the probe falls back when it has released the slot.
Release(h) ==
  /\ prober[h].step \in {"release", "giveup"}
  /\ Leave(h)
  /\ slot' = Freed(prober[h].slot)
  /\ IF prober[h].step = "giveup" THEN FallBack(h) ELSE UNCHANGED drawn
  /\ UNCHANGED <<latest, publisher, hubVars>>

----------------------------------------------------------------------------
(* The hubs: osd_init_slots and osd_destroy_slots *)

\* New slots; whoever holds one of the old has a pointer to freed memory, slot 0.
Replace ==
  /\ slot' = [s \in Slots |-> Blank] /\ latest' = NoBoxes
  /\ publisher' = [publisher EXCEPT !.slot = 0]
  /\ prober' = [h \in Hubs |-> [prober[h] EXCEPT !.slot = 0]]

\* Every hub that is created initialises the slots all of them share.
Create ==
  /\ built < Cardinality(Hubs) /\ gone = {}
  /\ built' = built + 1 /\ Replace
  /\ UNCHANGED <<drawn, gone>>

\* H265Hub::cleanup_: the pipeline has stopped, its probe with it.
TearDown(h) ==
  /\ built = Cardinality(Hubs) /\ h \notin gone /\ prober[h].step = "idle"
  /\ gone' = gone \cup {h} /\ Replace
  /\ UNCHANGED <<drawn, built>>

OsdNext ==
  \/ Acquire \/ SetSeq \/ SetCount \/ SetBoxes \/ SetState \/ RecordEvent
  \/ RecordFails \/ EventCompletes \/ Create
  \/ \E h \in Hubs : Find(h) \/ Query(h) \/ Copy(h) \/ Release(h) \/ TearDown(h)

----------------------------------------------------------------------------
(* Properties *)

\* Every variable stays in its range, and a latest result that counts as valid
\* has boxes and was followed by fewer empty ones than clear it.
OsdTypeOK ==
  /\ built \in 0 .. Cardinality(Hubs) /\ gone \subseteq Hubs
  /\ slot \in [Slots -> [state : {"free", "pending"}, seq : 0 .. MaxFrame, count : {0, 1},
                         boxes : 0 .. MaxFrame, event : {"pending", "complete"}]]
  /\ publisher.frame \in 0 .. MaxFrame /\ \A h \in Hubs : prober[h].frame \in 0 .. MaxFrame
  /\ latest.valid => latest.count > 0 /\ latest.seq > 0 /\ latest.empty < ClearAfterEmpty

\* A probe that falls back draws boxes of its own picture or of one of the
\* MaxFallback before it, never of a later one, whatever the empty results
\* and the other hubs do in between. Excepted are boxes of no frame: nothing,
\* or what the worker read from the memory of a slot that was replaced.
FallbackIsFresh ==
  \A h \in Hubs : drawn[h].boxes # 0 /\ ~drawn[h].exact =>
    prober[h].frame - drawn[h].boxes \in 0 .. MaxFallback

\* The slots are consistent, and what they are asked to stand in for is recent.
OsdInv == OsdTypeOK /\ FallbackIsFresh

\* The boxes the exact lookup finds are those of the picture: "exact
\* frame_seq lookup" (k180_osd_slots.h:21).
ExactIsExact == \A h \in Hubs : drawn[h].exact => drawn[h].boxes = prober[h].frame

\* The worker never runs out of slots for good, though nobody may be watching
\* and a pending slot is then released by no probe.
SlotsComeBack == []<>(Alive => \E s \in Slots : Takeable(s))
=============================================================================
