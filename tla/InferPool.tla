----------------------------- MODULE InferPool -----------------------------
(***************************************************************************)
(* The hand-over of panorama frames from the blender-apply thread to the   *)
(* inference worker: a pool of image slots claimed with compare-exchange,  *)
(* a drop-oldest StageQueue of jobs that name a slot, an asynchronous copy *)
(* on apply_stream guarded by the slot's copy_done event, and the part of  *)
(* shutdown_all that tears the pool down.                                  *)
(*                                                                         *)
(* apply  : thread_blender_apply, the infer submission of one frame        *)
(* worker : thread_infer_worker                                            *)
(* main   : request_stop_and_wakeup_all and shutdown_all                   *)
(* gpu    : the copies queued on apply_stream, executed in order           *)
(***************************************************************************)
EXTENDS Integers, Sequences, FiniteSets

CONSTANTS
  PoolSize,   \* CC_entry_Ctx::infer_pool_size
  QueueCap,   \* capacity of infer_q; init_infer_pool passes infer_pool_size
  MaxFrame    \* bound: frames the apply thread considers in one behaviour

ASSUME PoolSizeAssumption == PoolSize \in Nat \ {0}
ASSUME QueueCapAssumption == QueueCap \in Nat /\ QueueCap >= PoolSize
ASSUME MaxFrameAssumption == MaxFrame \in Nat \ {0}

Slots    == 0 .. PoolSize - 1
NoFrame  == 0                     \* a slot no copy has reached; seq counts from 1
FrameSeq == 1 .. MaxFrame
Job      == [slot_idx : Slots, frame_seq : FrameSeq]

VARIABLES
  busy,          \* infer_pool[i].busy
  pano_rgba,     \* the frame whose image infer_pool[i].pano_rgba holds
  apply_stream,  \* copies queued on the apply stream and not yet executed
  infer_q,       \* the jobs in infer_q, oldest first
  closed,        \* infer_q is closed
  running,       \* cec.running
  released,      \* shutdown_all has destroyed the pool's images and events
  apply,         \* the apply thread: pc, slot under its hands, frame seq
  worker,        \* the worker thread: pc and current job
  published      \* frame_seq of the newest result handed to the OSD

vars == <<busy, pano_rgba, apply_stream, infer_q, closed, running, released,
          apply, worker, published>>

ApplyPC  == {"frame", "scan", "copy", "push", "exited"}
WorkerPC == {"check", "pop", "sync", "infer", "exited"}

Init ==
  /\ busy = [s \in Slots |-> FALSE]
  /\ pano_rgba = [s \in Slots |-> NoFrame]
  /\ apply_stream = <<>>
  /\ infer_q = <<>>
  /\ closed = FALSE
  /\ running = TRUE
  /\ released = FALSE
  /\ apply = [pc |-> "frame", slot |-> 0, seq |-> 0]
  /\ worker = [pc |-> "check", job |-> [slot_idx |-> 0, frame_seq |-> 1]]
  /\ published = 0

----------------------------------------------------------------------------
(* The apply thread *)

\* A new set of camera frames has been blended and the detector is due.
TakeFrame ==
  /\ apply.pc = "frame"
  /\ running
  /\ apply.seq < MaxFrame
  /\ apply' = [pc |-> "scan", slot |-> 0, seq |-> apply.seq + 1]
  /\ UNCHANGED <<busy, pano_rgba, apply_stream, infer_q, closed, running,
                 released, worker, published>>

\* Mutant: busy is loaded and stored without the compare, so a slot that is
\* taken can be taken again.
TryAcquireSlot_NoCompare ==
  /\ apply.pc = "scan"
  /\ busy' = [busy EXCEPT ![apply.slot] = TRUE]
  /\ apply' = [apply EXCEPT !.pc = "copy"]
  /\ UNCHANGED <<pano_rgba, apply_stream, infer_q, closed, running, released,
                 worker, published>>

\* Mutant: the scan runs one slot too far.
TryAcquireSlot_OffByOne ==
  /\ apply.pc = "scan"
  /\ \/ /\ ~busy[apply.slot]
        /\ busy' = [busy EXCEPT ![apply.slot] = TRUE]
        /\ apply' = [apply EXCEPT !.pc = "copy"]
     \/ /\ busy[apply.slot]
        /\ apply' = IF apply.slot + 1 <= PoolSize
                    THEN [apply EXCEPT !.slot = @ + 1]
                    ELSE [apply EXCEPT !.pc = "frame", !.slot = 0]
        /\ UNCHANGED busy
  /\ UNCHANGED <<pano_rgba, apply_stream, infer_q, closed, running, released,
                 worker, published>>

\* One compare_exchange of try_acquire_infer_slot; past the last slot the
\* frame is dropped.
TryAcquireSlot ==
  /\ apply.pc = "scan"
  /\ \/ /\ ~busy[apply.slot]
        /\ busy' = [busy EXCEPT ![apply.slot] = TRUE]
        /\ apply' = [apply EXCEPT !.pc = "copy"]
     \/ /\ busy[apply.slot]
        /\ apply' = IF apply.slot + 1 \in Slots
                    THEN [apply EXCEPT !.slot = @ + 1]
                    ELSE [apply EXCEPT !.pc = "frame", !.slot = 0]
        /\ UNCHANGED busy
  /\ UNCHANGED <<pano_rgba, apply_stream, infer_q, closed, running, released,
                 worker, published>>

\* Back to the frame loop with the slot given up.
GiveUpSlot ==
  /\ busy' = [busy EXCEPT ![apply.slot] = FALSE]
  /\ apply' = [apply EXCEPT !.pc = "frame", !.slot = 0]

\* Mutant: the error path of the event record forgets to free the slot.
CopyToSlot_RecordFailureKeepsSlot ==
  /\ apply.pc = "copy"
  /\ \E outcome \in {"copy failed", "record failed", "ok"} :
       /\ released => outcome = "copy failed"
       /\ apply_stream' = IF outcome = "copy failed" THEN apply_stream
                          ELSE Append(apply_stream,
                                      [slot_idx |-> apply.slot, frame_seq |-> apply.seq])
       /\ CASE outcome = "ok" -> apply' = [apply EXCEPT !.pc = "push"] /\ UNCHANGED busy
            [] outcome = "record failed" ->
                 apply' = [apply EXCEPT !.pc = "frame", !.slot = 0] /\ UNCHANGED busy
            [] OTHER -> GiveUpSlot
  /\ UNCHANGED <<pano_rgba, infer_q, closed, running, released, worker, published>>

\* cudaMemcpy2DAsync into the slot, then cudaEventRecord(copy_done). Either
\* call may fail and free the slot; a failed record leaves the copy queued.
\* On a pool shutdown_all has released both calls get a null handle and fail.
CopyToSlot ==
  /\ apply.pc = "copy"
  /\ \E outcome \in {"copy failed", "record failed", "ok"} :
       /\ released => outcome = "copy failed"
       /\ apply_stream' = IF outcome = "copy failed" THEN apply_stream
                          ELSE Append(apply_stream,
                                      [slot_idx |-> apply.slot, frame_seq |-> apply.seq])
       /\ IF outcome = "ok"
          THEN apply' = [apply EXCEPT !.pc = "push"] /\ UNCHANGED busy
          ELSE GiveUpSlot
  /\ UNCHANGED <<pano_rgba, infer_q, closed, running, released, worker, published>>

\* StageQueue::try_push: refused when closed, else the oldest jobs make room.
\* The refused producer frees its slot; nobody frees the slot of a job that
\* was dropped to make room.
DropToFit(q) == IF Len(q) >= QueueCap THEN SubSeq(q, Len(q) - QueueCap + 2, Len(q)) ELSE q

PushJob ==
  /\ apply.pc = "push"
  /\ IF closed
     THEN GiveUpSlot /\ UNCHANGED infer_q
     ELSE /\ infer_q' = Append(DropToFit(infer_q),
                               [slot_idx |-> apply.slot, frame_seq |-> apply.seq])
          /\ apply' = [apply EXCEPT !.pc = "frame", !.slot = 0]
          /\ UNCHANGED busy
  /\ UNCHANGED <<pano_rgba, apply_stream, closed, running, released, worker,
                 published>>

ApplyExit ==
  /\ apply.pc = "frame"
  /\ ~running
  /\ apply' = [apply EXCEPT !.pc = "exited"]
  /\ UNCHANGED <<busy, pano_rgba, apply_stream, infer_q, closed, running,
                 released, worker, published>>

----------------------------------------------------------------------------
(* The GPU executes the oldest copy of apply_stream. *)

ExecuteCopy ==
  /\ apply_stream # <<>>
  /\ pano_rgba' = [pano_rgba EXCEPT ![Head(apply_stream).slot_idx] =
                     IF released THEN @ ELSE Head(apply_stream).frame_seq]
  /\ apply_stream' = Tail(apply_stream)
  /\ UNCHANGED <<busy, infer_q, closed, running, released, apply, worker, published>>

----------------------------------------------------------------------------
(* The worker thread *)

WorkerCheck ==
  /\ worker.pc = "check"
  /\ worker' = [worker EXCEPT !.pc = IF running THEN "pop" ELSE "exited"]
  /\ UNCHANGED <<busy, pano_rgba, apply_stream, infer_q, closed, running,
                 released, apply, published>>

\* Mutant: the worker takes the newest job and leaves the older ones queued.
PopJob_NewestFirst ==
  /\ worker.pc = "pop"
  /\ \/ /\ infer_q # <<>>
        /\ worker' = [pc |-> "sync", job |-> infer_q[Len(infer_q)]]
        /\ infer_q' = SubSeq(infer_q, 1, Len(infer_q) - 1)
     \/ /\ infer_q = <<>>
        /\ closed
        /\ worker' = [worker EXCEPT !.pc = "exited"]
        /\ UNCHANGED infer_q
  /\ UNCHANGED <<busy, pano_rgba, apply_stream, closed, running, released,
                 apply, published>>

\* StageQueue::pop: takes the oldest job, also from a closed queue; false
\* (which ends the worker) only when it is closed and empty.
PopJob ==
  /\ worker.pc = "pop"
  /\ \/ /\ infer_q # <<>>
        /\ worker' = [pc |-> "sync", job |-> Head(infer_q)]
        /\ infer_q' = Tail(infer_q)
     \/ /\ infer_q = <<>>
        /\ closed
        /\ worker' = [worker EXCEPT !.pc = "exited"]
        /\ UNCHANGED infer_q
  /\ UNCHANGED <<busy, pano_rgba, apply_stream, closed, running, released,
                 apply, published>>

CopyDone(s) == \A i \in 1 .. Len(apply_stream) : apply_stream[i].slot_idx # s

\* Mutant: the worker does not wait for copy_done.
SyncCopyDone_NoWait ==
  /\ worker.pc = "sync"
  /\ worker' = [worker EXCEPT !.pc = "infer"]
  /\ UNCHANGED <<busy, pano_rgba, apply_stream, infer_q, closed, running, released,
                 apply, published>>

\* Mutant: the slot is freed when its copy is done, before the inference.
SyncCopyDone_FreesSlot ==
  /\ worker.pc = "sync"
  /\ CopyDone(worker.job.slot_idx)
  /\ busy' = [busy EXCEPT ![worker.job.slot_idx] = FALSE]
  /\ worker' = [worker EXCEPT !.pc = "infer"]
  /\ UNCHANGED <<pano_rgba, apply_stream, infer_q, closed, running, released,
                 apply, published>>

\* cudaEventSynchronize(copy_done): returns once the copy has executed, or
\* fails at any time, and then the slot is freed and the job forgotten.
SyncCopyDone ==
  /\ worker.pc = "sync"
  /\ \/ /\ CopyDone(worker.job.slot_idx)
        /\ worker' = [worker EXCEPT !.pc = "infer"]
        /\ UNCHANGED busy
     \/ /\ busy' = [busy EXCEPT ![worker.job.slot_idx] = FALSE]
        /\ worker' = [worker EXCEPT !.pc = "check"]
  /\ UNCHANGED <<pano_rgba, apply_stream, infer_q, closed, running, released,
                 apply, published>>

\* Mutant: a finished job does not free its slot.
FinishJob_KeepsSlot ==
  /\ worker.pc = "infer"
  /\ published' \in {published, worker.job.frame_seq}
  /\ worker' = [worker EXCEPT !.pc = "check"]
  /\ UNCHANGED <<busy, pano_rgba, apply_stream, infer_q, closed, running, released,
                 apply>>

\* _inference_gpu on the slot's image, publication of the result under the
\* job's frame_seq if the AI mode draws it, and release of the slot.
FinishJob ==
  /\ worker.pc = "infer"
  /\ published' \in {published, worker.job.frame_seq}
  /\ busy' = [busy EXCEPT ![worker.job.slot_idx] = FALSE]
  /\ worker' = [worker EXCEPT !.pc = "check"]
  /\ UNCHANGED <<pano_rgba, apply_stream, infer_q, closed, running, released, apply>>

----------------------------------------------------------------------------
(* The main thread *)

RequestStop ==
  /\ running
  /\ running' = FALSE
  /\ UNCHANGED <<busy, pano_rgba, apply_stream, infer_q, closed, released,
                 apply, worker, published>>

CloseQueue ==
  /\ ~running
  /\ ~closed
  /\ closed' = TRUE
  /\ UNCHANGED <<busy, pano_rgba, apply_stream, infer_q, running, released,
                 apply, worker, published>>

\* After joining the worker, and before joining the apply threads.
ReleasePool ==
  /\ closed
  /\ worker.pc = "exited"
  /\ ~released
  /\ released' = TRUE
  /\ busy' = [s \in Slots |-> FALSE]
  /\ pano_rgba' = [s \in Slots |-> NoFrame]
  /\ UNCHANGED <<apply_stream, infer_q, closed, running, apply, worker, published>>

ApplyNext    == TakeFrame \/ TryAcquireSlot \/ CopyToSlot \/ PushJob \/ ApplyExit
WorkerNext   == WorkerCheck \/ PopJob \/ SyncCopyDone \/ FinishJob
ShutdownNext == RequestStop \/ CloseQueue \/ ReleasePool

Next == ApplyNext \/ ExecuteCopy \/ WorkerNext \/ ShutdownNext

Spec == Init /\ [][Next]_vars

\* Every thread and the GPU keep running; a signal to stop may never come,
\* but once it came shutdown_all goes on.
FairSpec ==
  /\ Spec
  /\ WF_vars(TryAcquireSlot \/ CopyToSlot \/ PushJob \/ ApplyExit)
  /\ WF_vars(ExecuteCopy)
  /\ WF_vars(WorkerNext)
  /\ WF_vars(CloseQueue \/ ReleasePool)

----------------------------------------------------------------------------
\* The variables have their types; a job names a slot of the pool.
TypeOK ==
  /\ busy \in [Slots -> BOOLEAN]
  /\ pano_rgba \in [Slots -> FrameSeq \cup {NoFrame}]
  /\ apply_stream \in Seq(Job)
  /\ infer_q \in Seq(Job)
  /\ closed \in BOOLEAN
  /\ running \in BOOLEAN
  /\ released \in BOOLEAN
  /\ apply \in [pc : ApplyPC, slot : Slots, seq : 0 .. MaxFrame]
  /\ worker \in [pc : WorkerPC, job : Job]
  /\ published \in 0 .. MaxFrame

(***************************************************************************)
(* Who answers for a slot: the apply thread between its compare-exchange   *)
(* and the push, a queued job, or the worker until it stores busy = false. *)
(***************************************************************************)
ApplyOwns(s)  == apply.pc \in {"copy", "push"} /\ apply.slot = s
QueueOwns(s)  == \E i \in 1 .. Len(infer_q) : infer_q[i].slot_idx = s
WorkerOwns(s) == worker.pc \in {"sync", "infer"} /\ worker.job.slot_idx = s

\* Until the pool is torn down a slot is busy exactly when somebody answers
\* for it, so no failure path of submission or inference loses a slot.
NoSlotLeak ==
  ~released => \A s \in Slots : busy[s] <=> ApplyOwns(s) \/ QueueOwns(s) \/ WorkerOwns(s)

\* Nobody shares a slot: apply, worker and each queued job hold different
\* ones, so no image is written while it is queued or inferred from.
NoSlotShared ==
  ~released =>
    /\ \A s \in Slots : ~(ApplyOwns(s) /\ (QueueOwns(s) \/ WorkerOwns(s)))
    /\ \A s \in Slots : ~(QueueOwns(s) /\ WorkerOwns(s))
    /\ \A i, j \in 1 .. Len(infer_q) :
         infer_q[i].slot_idx = infer_q[j].slot_idx => i = j

\* try_push of infer_q never drops a queued job to make room (a dropped job
\* would keep its slot busy for ever): the queue is as long as the pool.
NoJobDropped == ~released /\ apply.pc = "push" => Len(infer_q) < QueueCap

\* While the worker infers, the slot holds the image of the frame the job
\* names, whatever was queued on the stream and however often it was reused.
WorkerReadsItsFrame ==
  worker.pc = "infer" => pano_rgba[worker.job.slot_idx] = worker.job.frame_seq

\* A claimed slot comes back, also when the GPU calls fail or the program is
\* shutting down.
SlotComesBack == \A s \in Slots : busy[s] ~> ~busy[s]

(***************************************************************************)
(* The pool, its queue and its worker implement the ordered lossy channel  *)
(* that holds the queued frames behind the one the worker is busy with.    *)
(***************************************************************************)
FramesUnderWay ==
  IF released THEN <<>>
  ELSE (IF worker.pc \in {"sync", "infer"} THEN <<worker.job.frame_seq>> ELSE <<>>)
       \o [i \in 1 .. Len(infer_q) |-> infer_q[i].frame_seq]

\* The newest frame whose submission is over, pushed or dropped.
Considered == IF apply.pc \in {"scan", "copy", "push"} THEN apply.seq - 1 ELSE apply.seq

Channel == INSTANCE OrderedLossyChannel WITH
  Capacity <- PoolSize, sent <- Considered, channel <- FramesUnderWay, got <- published

\* No frame is queued twice, overtaken, or delivered twice, and never more
\* frames than slots are under way.
ImplementsChannel == Channel!Spec
=============================================================================
