----------------------------- MODULE FramePool -----------------------------
(***************************************************************************)
(* The life of a camera frame. capture_thread borrows a slot of the        *)
(* camera's warp_pool, queues the remap of the picture into it and shares  *)
(* the FrameItem with three StageQueues of one item: blend-apply, seam     *)
(* preparation and, for camera 1, the brightness tuner. A FrameItem is a   *)
(* shared_ptr: its destructor returns the slot when the last queue or      *)
(* thread lets go of it. The remap runs on the camera's CUDA stream, the   *)
(* blend kernels that read the slot run on the apply thread's, and only    *)
(* warp_done orders the two.                                               *)
(***************************************************************************)
EXTENDS Integers, Sequences, FiniteSets

CONSTANTS
  Slots,       \* the slots of CamCtx::warp_pool (warp_pool_slots = 6)
  Keepers,     \* "seam", and for camera 1 also "bright"
  MaxFrame,    \* bound: samples pulled in one behaviour
  MaxBacklog   \* bound: remaps, and blends, queued on a stream at a time

ASSUME KeepersAssumption == "seam" \in Keepers /\ Keepers \subseteq {"seam", "bright"}
ASSUME SlotsAssumption ==
  IsFiniteSet(Slots) /\ Cardinality(Slots) >= Cardinality(Keepers) + 3
ASSUME BacklogAssumption == MaxBacklog \in Nat \ {0}
ASSUME MaxFrameAssumption == MaxFrame \in Nat \ {0}

\* Capacity of the three queues. Mutant: room for a second frame.
QueueCap_Two == 2
QueueCap == 1

FrameSeq == 1 .. MaxFrame
Frame    == [slot : Slots, seq : FrameSeq]
Feeds    == [seam |-> "q_seam", bright |-> "cc2bright"]
Queues   == {"q_blend"} \cup {Feeds[t] : t \in Keepers}
Threads  == {"capture", "apply"} \cup Keepers

VARIABLES
  free,          \* warp_pool.free_idx, as a set
  warp,          \* the frame whose remapped image each slot holds
  cam_stream,    \* remaps queued on the camera's stream, oldest first
  apply_stream,  \* frames whose blend kernels are queued on the apply stream
  blended,       \* the image the last blend to run has read
  q,             \* q_blend, q_seam and cc2bright
  held,          \* the FramePtr each thread holds, as a set of at most one
  pc,            \* where each thread is
  seq,           \* CamCtx::seq
  stopping,      \* pipeline_sync_stop is set and cec.running is cleared
  closed,        \* shutdown_all has closed the three queues
  shown,         \* frame_seq of the picture being pushed to the V1234 hubs
  destroyed      \* ~CamCtx has destroyed warp_pool

vars == <<free, warp, cam_stream, apply_stream, blended, q, held, pc, seq,
          stopping, closed, shown, destroyed>>

Init ==
  /\ free = Slots
  /\ warp = [s \in Slots |-> 0]
  /\ cam_stream = <<>>
  /\ apply_stream = <<>>
  /\ blended = 0
  /\ q = [c \in Queues |-> <<>>]
  /\ held = [t \in Threads |-> {}]
  /\ pc = [t \in Threads |-> "loop"]
  /\ seq = 0
  /\ stopping = FALSE
  /\ closed = FALSE
  /\ shown = 0
  /\ destroyed = FALSE

Queued(c) == {q[c][i] : i \in 1 .. Len(q[c])}

\* The frames some shared_ptr still points to.
Live == UNION ({held[t] : t \in Threads} \cup {Queued(c) : c \in Queues})

\* ~FrameItem: slots of frames nobody points to any more go back to the pool.
ReturnDropped == free' = free \cup {f.slot : f \in Live \ Live'}

Goto(t, label) == pc' = [pc EXCEPT ![t] = label]

----------------------------------------------------------------------------
(* The capture thread *)

\* camera_trig.wait and the loop condition.
CaptureWait ==
  /\ pc["capture"] = "loop"
  /\ Goto("capture", IF stopping THEN "exited" ELSE "pull")
  /\ UNCHANGED <<free, warp, cam_stream, apply_stream, blended, q, held, seq,
                 stopping, closed, shown, destroyed>>

\* No sample within 200 ms, or one that cannot be mapped (which uses up a
\* seq; such gaps are left out).
CaptureNothing ==
  /\ pc["capture"] = "pull"
  /\ Goto("capture", "loop")
  /\ UNCHANGED <<free, warp, cam_stream, apply_stream, blended, q, held, seq,
                 stopping, closed, shown, destroyed>>

\* warp_pool.try_acquire and the remap into the slot; with no slot free the
\* sample is dropped.
AcquireSlot ==
  /\ pc["capture"] = "pull"
  /\ seq < MaxFrame
  /\ Len(cam_stream) < MaxBacklog
  /\ seq' = seq + 1
  /\ \/ \E s \in free :
          LET f == [slot |-> s, seq |-> seq + 1] IN
          /\ free' = free \ {s}
          /\ held' = [held EXCEPT !["capture"] = {f}]
          /\ cam_stream' = Append(cam_stream, f)
          /\ Goto("capture", "q_blend")
     \/ /\ free = {}
        /\ Goto("capture", "loop")
        /\ UNCHANGED <<free, held, cam_stream>>
  /\ UNCHANGED <<warp, apply_stream, blended, q, stopping, closed, shown, destroyed>>

\* Mutant: one frame too many is kept.
DropToFit_OffByOne(items) ==
  IF Len(items) <= QueueCap THEN items ELSE SubSeq(items, Len(items) - QueueCap + 2, Len(items))

\* StageQueue::try_push: the oldest frames make room, a closed queue refuses.
DropToFit(items) ==
  IF Len(items) < QueueCap THEN items ELSE SubSeq(items, Len(items) - QueueCap + 2, Len(items))
Pushed(items, f) == IF closed THEN items ELSE Append(DropToFit(items), f)

AfterPush ==
  [q_blend |-> "q_seam", q_seam |-> IF "bright" \in Keepers THEN "cc2bright" ELSE "hubs",
   cc2bright |-> "hubs"]

PushFrame ==
  \E c \in Queues, f \in held["capture"] :
    /\ pc["capture"] = c
    /\ q' = [q EXCEPT ![c] = Pushed(@, f)]
    /\ Goto("capture", AfterPush[c])
    /\ UNCHANGED <<warp, cam_stream, apply_stream, blended, held, seq,
                   stopping, closed, shown, destroyed>>
    /\ ReturnDropped

\* The camera's own hubs have been served; f leaves its scope.
CaptureEnd ==
  /\ pc["capture"] = "hubs"
  /\ held' = [held EXCEPT !["capture"] = {}]
  /\ Goto("capture", "loop")
  /\ UNCHANGED <<warp, cam_stream, apply_stream, blended, q, seq, stopping,
                 closed, shown, destroyed>>
  /\ ReturnDropped

----------------------------------------------------------------------------
(* The GPU *)

ExecuteRemap ==
  /\ cam_stream # <<>>
  /\ warp' = [warp EXCEPT ![Head(cam_stream).slot] = Head(cam_stream).seq]
  /\ cam_stream' = Tail(cam_stream)
  /\ UNCHANGED <<free, apply_stream, blended, q, held, pc, seq, stopping,
                 closed, shown, destroyed>>

\* warp_done of frame f has been reached.
RemapDone(f) == \A i \in 1 .. Len(cam_stream) : cam_stream[i].seq # f.seq

ExecuteBlend ==
  /\ apply_stream # <<>>
  /\ RemapDone(Head(apply_stream))
  /\ blended' = warp[Head(apply_stream).slot]
  /\ apply_stream' = Tail(apply_stream)
  /\ UNCHANGED <<free, warp, cam_stream, q, held, pc, seq, stopping, closed,
                 shown, destroyed>>

----------------------------------------------------------------------------
(* The blend-apply thread, seen from this camera *)

\* wait_all has returned and try_pop_latest finds a frame. Without a frame of
\* every other camera, or without a blender, it is dropped at once.
ApplyPop ==
  /\ pc["apply"] = "loop"
  /\ q["q_blend"] # <<>>
  /\ q' = [q EXCEPT !["q_blend"] = <<>>]
  /\ \/ /\ held' = [held EXCEPT !["apply"] = {q["q_blend"][Len(q["q_blend"])]}]
        /\ Goto("apply", "blend")
     \/ UNCHANGED <<held, pc>>
  /\ UNCHANGED <<warp, cam_stream, apply_stream, blended, seq, stopping,
                 closed, shown, destroyed>>
  /\ ReturnDropped

\* Mutant: the frames are released without waiting for apply_stream.
ApplySync_NoWait ==
  /\ pc["apply"] = "sync"
  /\ held' = [held EXCEPT !["apply"] = {}]
  /\ Goto("apply", "show")
  /\ UNCHANGED <<warp, cam_stream, apply_stream, blended, q, seq, stopping,
                 closed, shown, destroyed>>
  /\ ReturnDropped

\* waitEvent(warp_done), gain, feed and blend are queued on apply_stream. A
\* V1234 hub that wants the picture gets an outbuf, if the pool has one.
ApplyBlend ==
  \E f \in held["apply"] :
    /\ pc["apply"] = "blend"
    /\ Len(apply_stream) < MaxBacklog
    /\ apply_stream' = Append(apply_stream, f)
    /\ \/ shown' = f.seq /\ Goto("apply", "sync")
       \/ Goto("apply", "recycle") /\ UNCHANGED shown
    /\ UNCHANGED <<free, warp, cam_stream, blended, q, held, seq, stopping,
                   closed, destroyed>>

\* nvmm_copy_rgba_to_outbuf_cached synchronises apply_stream; the camera
\* frames are then released before the push.
ApplySync ==
  /\ pc["apply"] = "sync"
  /\ apply_stream = <<>>
  /\ held' = [held EXCEPT !["apply"] = {}]
  /\ Goto("apply", "show")
  /\ UNCHANGED <<warp, cam_stream, apply_stream, blended, q, seq, stopping,
                 closed, shown, destroyed>>
  /\ ReturnDropped

ApplyShow ==
  /\ pc["apply"] = "show"
  /\ Goto("apply", "recycle")
  /\ shown' = 0
  /\ UNCHANGED <<free, warp, cam_stream, apply_stream, blended, q, held, seq,
                 stopping, closed, destroyed>>

\* End of the round; frames not released yet go without any synchronisation.
ApplyEnd ==
  /\ pc["apply"] = "recycle"
  /\ held' = [held EXCEPT !["apply"] = {}]
  /\ Goto("apply", "loop")
  /\ UNCHANGED <<warp, cam_stream, apply_stream, blended, q, seq, stopping,
                 closed, shown, destroyed>>
  /\ ReturnDropped

ApplyExit ==
  /\ pc["apply"] = "loop"
  /\ stopping
  /\ Goto("apply", "exited")
  /\ UNCHANGED <<free, warp, cam_stream, apply_stream, blended, q, held, seq,
                 stopping, closed, shown, destroyed>>

----------------------------------------------------------------------------
(* Seam preparation pops the next frame, the tuner the latest; both keep the
   frame they have until the next pop replaces it. *)

\* Mutant: the tuner frees the slot of the frame it keeps (a copied handle
\* instead of the shared_ptr).
KeepFrame_Unshared(t) ==
  /\ pc[t] = "pop"
  /\ q[Feeds[t]] # <<>>
  /\ held' = [held EXCEPT ![t] = {Head(q[Feeds[t]])}]
  /\ q' = [q EXCEPT ![Feeds[t]] = Tail(@)]
  /\ Goto(t, "loop")
  /\ free' = free \cup {f.slot : f \in Queued(Feeds[t])}
  /\ UNCHANGED <<warp, cam_stream, apply_stream, blended, seq, stopping,
                 closed, shown, destroyed>>

KeepFrame(t) ==
  /\ pc[t] = "pop"
  /\ q[Feeds[t]] # <<>>
  /\ held' = [held EXCEPT ![t] = {Head(q[Feeds[t]])}]
  /\ q' = [q EXCEPT ![Feeds[t]] = Tail(@)]
  /\ Goto(t, "loop")
  /\ UNCHANGED <<warp, cam_stream, apply_stream, blended, seq, stopping,
                 closed, shown, destroyed>>
  /\ ReturnDropped

KeeperLoop(t) ==
  /\ pc[t] = "loop"
  /\ ~stopping
  /\ Goto(t, "pop")
  /\ UNCHANGED <<free, warp, cam_stream, apply_stream, blended, q, held, seq,
                 stopping, closed, shown, destroyed>>

\* running is clear, or pop returns false; the thread's FramePtr goes.
KeeperExit(t) ==
  /\ \/ pc[t] = "loop" /\ stopping
     \/ pc[t] = "pop" /\ closed /\ q[Feeds[t]] = <<>>
  /\ held' = [held EXCEPT ![t] = {}]
  /\ Goto(t, "exited")
  /\ UNCHANGED <<warp, cam_stream, apply_stream, blended, q, seq, stopping,
                 closed, shown, destroyed>>
  /\ ReturnDropped

----------------------------------------------------------------------------
(* The main thread: stop, close the queues, join, destroy the CamCtx. *)

RequestStop ==
  /\ ~stopping
  /\ stopping' = TRUE
  /\ UNCHANGED <<free, warp, cam_stream, apply_stream, blended, q, held, pc,
                 seq, closed, shown, destroyed>>

CloseQueues ==
  /\ stopping
  /\ ~closed
  /\ closed' = TRUE
  /\ UNCHANGED <<free, warp, cam_stream, apply_stream, blended, q, held, pc,
                 seq, stopping, shown, destroyed>>

\* ~CamCtx destroys its members in reverse order of declaration: warp_pool ...
DestroyPool ==
  /\ closed
  /\ \A t \in Threads : pc[t] = "exited"
  /\ ~destroyed
  /\ destroyed' = TRUE
  /\ UNCHANGED <<free, warp, cam_stream, apply_stream, blended, q, held, pc,
                 seq, stopping, closed, shown>>

\* ... and then the queues, with the frames nobody took from them.
DestroyQueues ==
  /\ destroyed
  /\ q' = [c \in Queues |-> <<>>]
  /\ UNCHANGED <<warp, cam_stream, apply_stream, blended, held, pc, seq,
                 stopping, closed, shown, destroyed>>
  /\ ReturnDropped

CaptureNext  == CaptureWait \/ CaptureNothing \/ AcquireSlot \/ PushFrame \/ CaptureEnd
GpuNext      == ExecuteRemap \/ ExecuteBlend
ApplyNext    == ApplyPop \/ ApplyBlend \/ ApplySync \/ ApplyShow \/ ApplyEnd \/ ApplyExit
KeeperNext   == \E t \in Keepers : KeeperLoop(t) \/ KeepFrame(t) \/ KeeperExit(t)
ShutdownNext == RequestStop \/ CloseQueues \/ DestroyPool \/ DestroyQueues

Next == CaptureNext \/ GpuNext \/ ApplyNext \/ KeeperNext \/ ShutdownNext

Spec == Init /\ [][Next]_vars

----------------------------------------------------------------------------
CapturePC == {"loop", "pull", "q_blend", "q_seam", "cc2bright", "hubs", "exited"}
ApplyPC   == {"loop", "blend", "sync", "show", "recycle", "exited"}
KeeperPC  == {"loop", "pop", "exited"}

\* The variables have their types and no queue outgrows its capacity of one.
TypeOK ==
  /\ free \in SUBSET Slots
  /\ warp \in [Slots -> 0 .. MaxFrame]
  /\ cam_stream \in Seq(Frame)
  /\ apply_stream \in Seq(Frame)
  /\ blended \in 0 .. MaxFrame
  /\ q \in [Queues -> Seq(Frame)]
  /\ \A c \in Queues : Len(q[c]) <= QueueCap
  /\ held \in [Threads -> SUBSET Frame]
  /\ pc \in [Threads -> CapturePC \cup ApplyPC \cup KeeperPC]
  /\ seq \in 0 .. MaxFrame
  /\ stopping \in BOOLEAN
  /\ closed \in BOOLEAN
  /\ shown \in 0 .. MaxFrame
  /\ destroyed \in BOOLEAN

\* The drop path of a full pool is never taken: with queues of one frame the
\* blender, the seam thread, the tuner and the newest frame pin four slots at
\* most, however slow the consumers are, so a sample never lacks a slot.
PoolNeverExhausted == pc["capture"] = "pull" => free # {}

\* A frame that a queue or a thread can still reach keeps its image: its slot
\* is not remapped into while anybody holds the frame.
FramesKeepTheirImage == \A f \in Live : RemapDone(f) => warp[f.slot] = f.seq

\* A panorama that is pushed to viewers was blended from the frame it is
\* tagged with, although the camera frames are already released by then.
ViewersSeeTheirFrame == pc["apply"] = "show" => blended = shown
=============================================================================
