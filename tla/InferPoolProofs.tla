-------------------------- MODULE InferPoolProofs --------------------------
(***************************************************************************)
(* InferPool for every pool size, every queue at least as long as the      *)
(* pool, and any number of frames: who owns a slot, what the worker sees   *)
(* in it, and the channel that pool, queue and worker implement together.  *)
(***************************************************************************)
EXTENDS InferPool, FiniteSetTheorems, SequenceTheorems, TLAPS

USE PoolSizeAssumption, QueueCapAssumption, MaxFrameAssumption

\* The pool is torn down only after the worker left and the queue closed.
AfterRelease == released => closed /\ worker.pc = "exited"

\* A frame whose submission is under way has a sequence number.
SeqTaken == apply.pc \in {"scan", "copy", "push"} => apply.seq \in FrameSeq

IInv == TypeOK /\ SeqTaken /\ AfterRelease /\ NoSlotLeak /\ NoSlotShared

----------------------------------------------------------------------------
\* While the apply thread holds a slot, the queued jobs name other slots, all
\* different: fewer jobs than slots, so the push finds room.
LEMMA RoomForJob ==
  ASSUME IInv, ~released, apply.pc = "push"
  PROVE  Len(infer_q) < PoolSize
<1> DEFINE n == Len(infer_q)
           Others == Slots \ {apply.slot}
           f == [i \in 1 .. n |-> infer_q[i].slot_idx]
<1>1. n \in Nat /\ apply.slot \in Slots
  BY LenProperties DEF IInv, TypeOK
<1>2. \A i \in 1 .. n : infer_q[i] \in Job
  BY <1>1, ElementOfSeq DEF IInv, TypeOK
<1>3. ApplyOwns(apply.slot)
  BY DEF ApplyOwns
<1>4. \A i \in 1 .. n : infer_q[i].slot_idx \in Others
  BY <1>1, <1>2, <1>3 DEF IInv, NoSlotShared, QueueOwns, Job
<1>5. f \in Injection(1 .. n, Others)
  <2>1. f \in [1 .. n -> Others]
    BY <1>4
  <2>2. \A i, j \in 1 .. n : f[i] = f[j] => i = j
    BY DEF IInv, NoSlotShared
  <2> QED BY <2>1, <2>2 DEF Injection, IsInjective
<1>6. IsFiniteSet(Slots) /\ Cardinality(Slots) = PoolSize
  BY FS_Interval DEF Slots
<1>7. IsFiniteSet(Others) /\ Cardinality(Others) = PoolSize - 1
  BY <1>1, <1>6, FS_RemoveElement
<1>8. Cardinality(1 .. n) <= PoolSize - 1
  BY <1>5, <1>7, FS_Injection
<1>9. Cardinality(1 .. n) = n
  <2> HIDE DEF n
  <2>1. Cardinality(1 .. n) = IF 1 > n THEN 0 ELSE n - 1 + 1
    BY <1>1, FS_Interval
  <2> QED BY <1>1, <2>1
<1> QED BY <1>1, <1>8, <1>9

LEMMA InitInv == Init => IInv
<1> SUFFICES ASSUME Init PROVE IInv
  OBVIOUS
<1>1. TypeOK
  <2>1. 0 \in Slots /\ 1 \in FrameSeq
    BY DEF Slots, FrameSeq
  <2>2. apply_stream \in Seq(Job) /\ infer_q \in Seq(Job)
    BY DEF Init
  <2>3. apply \in [pc : ApplyPC, slot : Slots, seq : 0 .. MaxFrame]
    BY <2>1 DEF Init, ApplyPC
  <2>4. worker \in [pc : WorkerPC, job : Job]
    BY <2>1 DEF Init, WorkerPC, Job
  <2>5. /\ busy \in [Slots -> BOOLEAN]
        /\ pano_rgba \in [Slots -> FrameSeq \cup {NoFrame}]
        /\ published \in 0 .. MaxFrame
    BY DEF Init
  <2> QED BY <2>2, <2>3, <2>4, <2>5 DEF Init, TypeOK
<1>2. AfterRelease /\ SeqTaken
  BY DEF Init, AfterRelease, SeqTaken
<1>3. NoSlotLeak /\ NoSlotShared
  BY DEF Init, NoSlotLeak, NoSlotShared, ApplyOwns, QueueOwns, WorkerOwns, Slots
<1> QED BY <1>1, <1>2, <1>3 DEF IInv

----------------------------------------------------------------------------
(* Each operation preserves the invariant. *)

LEMMA ZeroIsASlot == 0 \in Slots
BY DEF Slots

LEMMA TakeFrameStep == IInv /\ TakeFrame => IInv'
<1> SUFFICES ASSUME IInv, TakeFrame PROVE IInv'
  OBVIOUS
<1> USE DEF IInv, TakeFrame
<1>1. TypeOK' /\ SeqTaken'
  BY ZeroIsASlot DEF TypeOK, SeqTaken, ApplyPC, FrameSeq
<1>2. AfterRelease'
  BY DEF AfterRelease
<1>3. \A s \in Slots : /\ ~ApplyOwns(s) /\ ~ApplyOwns(s)'
                       /\ QueueOwns(s)' <=> QueueOwns(s)
                       /\ WorkerOwns(s)' <=> WorkerOwns(s)
  BY DEF ApplyOwns, QueueOwns, WorkerOwns
<1>4. NoSlotLeak' /\ NoSlotShared'
  BY <1>3 DEF NoSlotLeak, NoSlotShared
<1> QED BY <1>1, <1>2, <1>4

LEMMA TryAcquireStep == IInv /\ TryAcquireSlot => IInv'
<1> SUFFICES ASSUME IInv, TryAcquireSlot PROVE IInv'
  OBVIOUS
<1> USE DEF IInv
<1>1. TypeOK' /\ SeqTaken' /\ AfterRelease'
  BY ZeroIsASlot DEF TryAcquireSlot, TypeOK, SeqTaken, AfterRelease, ApplyPC
<1>2. \A s \in Slots : /\ ~ApplyOwns(s)
                       /\ QueueOwns(s)' <=> QueueOwns(s)
                       /\ WorkerOwns(s)' <=> WorkerOwns(s)
  BY DEF TryAcquireSlot, ApplyOwns, QueueOwns, WorkerOwns
<1>3. CASE ~busy[apply.slot]
  <2>1. /\ busy' = [busy EXCEPT ![apply.slot] = TRUE]
        /\ \A s \in Slots : ApplyOwns(s)' <=> s = apply.slot
    BY <1>3 DEF TryAcquireSlot, ApplyOwns, TypeOK
  <2> QED BY <1>1, <1>2, <1>3, <2>1
          DEF TryAcquireSlot, TypeOK, NoSlotLeak, NoSlotShared
<1>4. CASE busy[apply.slot]
  <2>1. UNCHANGED busy /\ \A s \in Slots : ~ApplyOwns(s)'
    BY <1>4 DEF TryAcquireSlot, ApplyOwns, TypeOK
  <2> QED BY <1>1, <1>2, <2>1 DEF TryAcquireSlot, NoSlotLeak, NoSlotShared
<1> QED BY <1>3, <1>4

\* Giving up the slot in hand is safe whenever the apply thread owns one.
LEMMA GiveUpOwnership ==
  ASSUME IInv, apply.pc \in {"copy", "push"}, GiveUpSlot,
         UNCHANGED <<infer_q, released, worker>>
  PROVE  NoSlotLeak' /\ NoSlotShared'
<1> USE DEF IInv
<1>1. \A s \in Slots : /\ ApplyOwns(s) <=> s = apply.slot
                       /\ ~ApplyOwns(s)'
                       /\ QueueOwns(s)' <=> QueueOwns(s)
                       /\ WorkerOwns(s)' <=> WorkerOwns(s)
  BY DEF GiveUpSlot, ApplyOwns, QueueOwns, WorkerOwns, TypeOK
<1>2. apply.slot \in Slots /\ busy' = [busy EXCEPT ![apply.slot] = FALSE]
  BY DEF GiveUpSlot, TypeOK
<1> QED BY <1>1, <1>2 DEF NoSlotLeak, NoSlotShared, TypeOK

LEMMA CopyStep == IInv /\ CopyToSlot => IInv'
<1> SUFFICES ASSUME IInv, CopyToSlot PROVE IInv'
  OBVIOUS
<1> USE DEF IInv
<1> PICK outcome \in {"copy failed", "record failed", "ok"} :
         /\ apply_stream' = IF outcome = "copy failed" THEN apply_stream
                            ELSE Append(apply_stream,
                                        [slot_idx |-> apply.slot, frame_seq |-> apply.seq])
         /\ IF outcome = "ok"
            THEN apply' = [apply EXCEPT !.pc = "push"] /\ UNCHANGED busy
            ELSE GiveUpSlot
  BY DEF CopyToSlot
<1>1. apply_stream' \in Seq(Job)
  <2>1. [slot_idx |-> apply.slot, frame_seq |-> apply.seq] \in Job
    BY DEF CopyToSlot, SeqTaken, TypeOK, Job
  <2> QED BY <2>1, AppendProperties DEF TypeOK
<1>2. AfterRelease'
  BY DEF CopyToSlot, AfterRelease
<1>3. CASE outcome = "ok"
  <2>1. TypeOK' /\ SeqTaken'
    BY <1>1, <1>3 DEF CopyToSlot, TypeOK, SeqTaken, ApplyPC
  <2>2. \A s \in Slots : /\ ApplyOwns(s)' <=> ApplyOwns(s)
                         /\ QueueOwns(s)' <=> QueueOwns(s)
                         /\ WorkerOwns(s)' <=> WorkerOwns(s)
    BY <1>3 DEF CopyToSlot, ApplyOwns, QueueOwns, WorkerOwns, TypeOK
  <2>3. UNCHANGED <<busy, infer_q, released>>
    BY <1>3 DEF CopyToSlot
  <2> QED BY <1>2, <2>1, <2>2, <2>3 DEF NoSlotLeak, NoSlotShared
<1>4. CASE outcome # "ok"
  <2>1. TypeOK' /\ SeqTaken'
    BY <1>1, <1>4, ZeroIsASlot DEF CopyToSlot, GiveUpSlot, TypeOK, SeqTaken, ApplyPC
  <2>2. NoSlotLeak' /\ NoSlotShared'
    BY <1>4, GiveUpOwnership DEF CopyToSlot
  <2> QED BY <1>2, <2>1, <2>2
<1> QED BY <1>3, <1>4

LEMMA PushStep == IInv /\ PushJob => IInv'
<1> SUFFICES ASSUME IInv, PushJob PROVE IInv'
  OBVIOUS
<1> USE DEF IInv
<1>1. AfterRelease'
  BY DEF PushJob, AfterRelease
<1>2. CASE closed
  <2>1. GiveUpSlot /\ UNCHANGED <<infer_q, released, worker>>
    BY <1>2 DEF PushJob
  <2>2. TypeOK' /\ SeqTaken'
    BY <1>2, ZeroIsASlot DEF PushJob, GiveUpSlot, TypeOK, SeqTaken, ApplyPC
  <2>3. NoSlotLeak' /\ NoSlotShared'
    BY <2>1, GiveUpOwnership DEF PushJob
  <2> QED BY <1>1, <2>2, <2>3
<1>3. CASE ~closed
  <2> DEFINE job == [slot_idx |-> apply.slot, frame_seq |-> apply.seq]
  <2>1. ~released
    BY <1>3 DEF AfterRelease
  <2>2. Len(infer_q) < PoolSize
    BY <2>1, RoomForJob DEF PushJob
  <2>3. infer_q' = Append(infer_q, job)
    <3>1. Len(infer_q) \in Nat
      BY LenProperties DEF TypeOK
    <3>2. DropToFit(infer_q) = infer_q
      BY <2>2, <3>1 DEF DropToFit
    <3> QED BY <1>3, <3>2 DEF PushJob
  <2>4. job \in Job
    BY DEF PushJob, SeqTaken, TypeOK, Job
  <2>5. /\ infer_q' \in Seq(Job)
        /\ Len(infer_q') = Len(infer_q) + 1
        /\ \A i \in 1 .. Len(infer_q) : infer_q'[i] = infer_q[i]
        /\ infer_q'[Len(infer_q) + 1] = job
    BY <2>3, <2>4, AppendProperties DEF TypeOK
  <2>6. Len(infer_q) \in Nat
    BY LenProperties DEF TypeOK
  <2>7. TypeOK' /\ SeqTaken'
    BY <1>3, <2>5, ZeroIsASlot DEF PushJob, TypeOK, SeqTaken, ApplyPC
  <2>8. \A s \in Slots : /\ ApplyOwns(s) <=> s = apply.slot
                         /\ ~ApplyOwns(s)'
                         /\ QueueOwns(s)' <=> QueueOwns(s) \/ s = apply.slot
                         /\ WorkerOwns(s)' <=> WorkerOwns(s)
    <3> SUFFICES ASSUME NEW s \in Slots
                 PROVE  /\ ApplyOwns(s) <=> s = apply.slot
                        /\ ~ApplyOwns(s)'
                        /\ QueueOwns(s)' <=> QueueOwns(s) \/ s = apply.slot
                        /\ WorkerOwns(s)' <=> WorkerOwns(s)
      OBVIOUS
    <3>1. ApplyOwns(s) <=> s = apply.slot
      BY DEF PushJob, ApplyOwns
    <3>2. ~ApplyOwns(s)'
      BY <1>3 DEF PushJob, ApplyOwns, TypeOK
    <3>3. QueueOwns(s)' => QueueOwns(s) \/ s = apply.slot
      BY <2>5, <2>6 DEF QueueOwns
    <3>4. QueueOwns(s) \/ s = apply.slot => QueueOwns(s)'
      BY <2>5, <2>6 DEF QueueOwns
    <3>5. WorkerOwns(s)' <=> WorkerOwns(s)
      BY DEF PushJob, WorkerOwns
    <3> QED BY <3>1, <3>2, <3>3, <3>4, <3>5
  <2>9. \A i \in 1 .. Len(infer_q) : infer_q[i].slot_idx # apply.slot
    <3>1. apply.slot \in Slots
      BY DEF TypeOK
    <3>2. ~QueueOwns(apply.slot)
      BY <2>1, <2>8, <3>1 DEF NoSlotShared
    <3> QED BY <3>2 DEF QueueOwns
  <2>10. \A i, j \in 1 .. Len(infer_q') :
           infer_q'[i].slot_idx = infer_q'[j].slot_idx => i = j
    BY <2>1, <2>5, <2>6, <2>9 DEF NoSlotShared
  <2>11. UNCHANGED <<busy, released>>
    BY <1>3 DEF PushJob
  <2>12. NoSlotLeak'
    BY <2>8, <2>11 DEF NoSlotLeak
  <2>13. NoSlotShared'
    BY <2>1, <2>8, <2>10, <2>11 DEF NoSlotShared
  <2> QED BY <1>1, <2>7, <2>12, <2>13
<1> QED BY <1>2, <1>3

LEMMA ApplyExitStep == IInv /\ ApplyExit => IInv'
<1> SUFFICES ASSUME IInv, ApplyExit PROVE IInv'
  OBVIOUS
<1> USE DEF IInv, ApplyExit
<1>1. TypeOK' /\ SeqTaken' /\ AfterRelease'
  BY DEF TypeOK, SeqTaken, AfterRelease, ApplyPC
<1>2. \A s \in Slots : /\ ~ApplyOwns(s) /\ ~ApplyOwns(s)'
                       /\ QueueOwns(s)' <=> QueueOwns(s)
                       /\ WorkerOwns(s)' <=> WorkerOwns(s)
  BY DEF ApplyOwns, QueueOwns, WorkerOwns, TypeOK
<1> QED BY <1>1, <1>2 DEF NoSlotLeak, NoSlotShared

LEMMA ExecuteCopyStep == IInv /\ ExecuteCopy => IInv'
<1> SUFFICES ASSUME IInv, ExecuteCopy PROVE IInv'
  OBVIOUS
<1> USE DEF IInv, ExecuteCopy
<1>1. Head(apply_stream) \in Job /\ Tail(apply_stream) \in Seq(Job)
  BY HeadTailProperties DEF TypeOK
<1>2. pano_rgba' \in [Slots -> FrameSeq \cup {NoFrame}]
  BY <1>1 DEF TypeOK, Job
<1>3. TypeOK' /\ SeqTaken' /\ AfterRelease'
  BY <1>1, <1>2 DEF TypeOK, SeqTaken, AfterRelease
<1>4. NoSlotLeak' /\ NoSlotShared'
  BY DEF NoSlotLeak, NoSlotShared, ApplyOwns, QueueOwns, WorkerOwns
<1> QED BY <1>3, <1>4

LEMMA WorkerCheckStep == IInv /\ WorkerCheck => IInv'
<1> SUFFICES ASSUME IInv, WorkerCheck PROVE IInv'
  OBVIOUS
<1> USE DEF IInv, WorkerCheck
<1>1. TypeOK' /\ SeqTaken'
  BY DEF TypeOK, SeqTaken, WorkerPC
<1>2. AfterRelease'
  BY DEF AfterRelease
<1>3. \A s \in Slots : /\ ~WorkerOwns(s) /\ ~WorkerOwns(s)'
                       /\ QueueOwns(s)' <=> QueueOwns(s)
                       /\ ApplyOwns(s)' <=> ApplyOwns(s)
  BY DEF ApplyOwns, QueueOwns, WorkerOwns, TypeOK
<1> QED BY <1>1, <1>2, <1>3 DEF NoSlotLeak, NoSlotShared

LEMMA PopStep == IInv /\ PopJob => IInv'
<1> SUFFICES ASSUME IInv, PopJob PROVE IInv'
  OBVIOUS
<1> USE DEF IInv
<1>1. CASE infer_q # <<>>
  <2>1. /\ Head(infer_q) \in Job
        /\ infer_q' = Tail(infer_q)
        /\ worker' = [pc |-> "sync", job |-> Head(infer_q)]
    BY <1>1, HeadTailProperties DEF PopJob, TypeOK
  <2>2. /\ infer_q' \in Seq(Job)
        /\ Len(infer_q) \in Nat \ {0}
        /\ Len(infer_q') = Len(infer_q) - 1
        /\ \A i \in 1 .. Len(infer_q') : infer_q'[i] = infer_q[i + 1]
    BY <1>1, <2>1, HeadTailProperties, EmptySeq DEF TypeOK
  <2>3. Head(infer_q) = infer_q[1]
    BY <1>1 DEF TypeOK
  <2>4. TypeOK' /\ SeqTaken' /\ AfterRelease'
    BY <1>1, <2>1, <2>2 DEF PopJob, TypeOK, SeqTaken, AfterRelease, WorkerPC
  <2>5. \A s \in Slots : QueueOwns(s) <=> QueueOwns(s)' \/ infer_q[1].slot_idx = s
    <3> SUFFICES ASSUME NEW s \in Slots
                 PROVE  QueueOwns(s) <=> QueueOwns(s)' \/ infer_q[1].slot_idx = s
      OBVIOUS
    <3>1. ASSUME NEW i \in 1 .. Len(infer_q), infer_q[i].slot_idx = s, i # 1
          PROVE  QueueOwns(s)'
      <4>1. i - 1 \in 1 .. Len(infer_q') /\ infer_q'[i - 1] = infer_q[i]
        BY <2>2, <3>1
      <4> QED BY <3>1, <4>1 DEF QueueOwns
    <3>2. QueueOwns(s)' => QueueOwns(s)
      BY <2>2 DEF QueueOwns
    <3> QED BY <2>2, <3>1, <3>2 DEF QueueOwns
  <2>6. \A s \in Slots : /\ ~WorkerOwns(s)
                         /\ WorkerOwns(s)' <=> infer_q[1].slot_idx = s
                         /\ ApplyOwns(s)' <=> ApplyOwns(s)
    BY <1>1, <2>1, <2>3 DEF PopJob, WorkerOwns, ApplyOwns
  <2>7. UNCHANGED <<busy, released>>
    BY DEF PopJob
  <2>8. NoSlotLeak'
    BY <2>5, <2>6, <2>7 DEF NoSlotLeak
  <2>9. ASSUME ~released, NEW i \in 1 .. Len(infer_q'), NEW j \in 1 .. Len(infer_q'),
               infer_q'[i].slot_idx = infer_q'[j].slot_idx
        PROVE  i = j
    BY <2>2, <2>9 DEF NoSlotShared
  <2>10. ASSUME ~released, NEW s \in Slots, QueueOwns(s)'
         PROVE  infer_q[1].slot_idx # s
    <3>1. PICK i \in 1 .. Len(infer_q') : infer_q'[i].slot_idx = s
      BY <2>10 DEF QueueOwns
    <3>2. infer_q[i + 1].slot_idx = s /\ i + 1 \in 1 .. Len(infer_q)
      BY <2>2, <3>1
    <3> QED BY <2>2, <2>10, <3>2 DEF NoSlotShared
  <2>11. NoSlotShared'
    BY <2>5, <2>6, <2>7, <2>9, <2>10 DEF NoSlotShared
  <2> QED BY <2>4, <2>8, <2>11
<1>2. CASE infer_q = <<>>
  <2>1. /\ worker' = [worker EXCEPT !.pc = "exited"]
        /\ UNCHANGED infer_q
    BY <1>2 DEF PopJob
  <2>2. TypeOK' /\ SeqTaken' /\ AfterRelease'
    BY <2>1 DEF PopJob, TypeOK, SeqTaken, AfterRelease, WorkerPC
  <2>3. \A s \in Slots : /\ ~WorkerOwns(s) /\ ~WorkerOwns(s)'
                         /\ QueueOwns(s)' <=> QueueOwns(s)
                         /\ ApplyOwns(s)' <=> ApplyOwns(s)
    BY <2>1 DEF PopJob, ApplyOwns, QueueOwns, WorkerOwns, TypeOK
  <2> QED BY <2>1, <2>2, <2>3 DEF PopJob, NoSlotLeak, NoSlotShared
<1> QED BY <1>1, <1>2

\* The worker stores busy = false for its own slot and forgets the job.
LEMMA WorkerFreesOwnership ==
  ASSUME IInv, worker.pc \in {"sync", "infer"},
         busy' = [busy EXCEPT ![worker.job.slot_idx] = FALSE],
         worker' = [worker EXCEPT !.pc = "check"],
         UNCHANGED <<infer_q, released, apply>>
  PROVE  NoSlotLeak' /\ NoSlotShared'
<1> USE DEF IInv
<1>1. worker.job.slot_idx \in Slots
  BY DEF TypeOK, Job
<1>2. \A s \in Slots : /\ WorkerOwns(s) <=> s = worker.job.slot_idx
                       /\ ~WorkerOwns(s)'
                       /\ QueueOwns(s)' <=> QueueOwns(s)
                       /\ ApplyOwns(s)' <=> ApplyOwns(s)
  BY DEF ApplyOwns, QueueOwns, WorkerOwns, TypeOK
<1> QED BY <1>1, <1>2 DEF NoSlotLeak, NoSlotShared, TypeOK

LEMMA SyncStep == IInv /\ SyncCopyDone => IInv'
<1> SUFFICES ASSUME IInv, SyncCopyDone PROVE IInv'
  OBVIOUS
<1> USE DEF IInv
<1>1. worker.job.slot_idx \in Slots
  BY DEF TypeOK, Job
<1>2. TypeOK' /\ SeqTaken' /\ AfterRelease'
  BY <1>1 DEF SyncCopyDone, TypeOK, SeqTaken, AfterRelease, WorkerPC
<1>3. CASE worker' = [worker EXCEPT !.pc = "infer"] /\ UNCHANGED busy
  <2>1. \A s \in Slots : /\ WorkerOwns(s)' <=> WorkerOwns(s)
                         /\ QueueOwns(s)' <=> QueueOwns(s)
                         /\ ApplyOwns(s)' <=> ApplyOwns(s)
    BY <1>3 DEF SyncCopyDone, ApplyOwns, QueueOwns, WorkerOwns, TypeOK
  <2> QED BY <1>2, <1>3, <2>1 DEF SyncCopyDone, NoSlotLeak, NoSlotShared
<1>4. CASE /\ busy' = [busy EXCEPT ![worker.job.slot_idx] = FALSE]
           /\ worker' = [worker EXCEPT !.pc = "check"]
  BY <1>2, <1>4, WorkerFreesOwnership DEF SyncCopyDone
<1> QED BY <1>3, <1>4 DEF SyncCopyDone

LEMMA FinishStep == IInv /\ FinishJob => IInv'
<1> SUFFICES ASSUME IInv, FinishJob PROVE IInv'
  OBVIOUS
<1> USE DEF IInv
<1>1. worker.job.slot_idx \in Slots /\ worker.job.frame_seq \in 0 .. MaxFrame
  BY DEF TypeOK, Job, FrameSeq
<1>2. TypeOK' /\ SeqTaken' /\ AfterRelease'
  BY <1>1 DEF FinishJob, TypeOK, SeqTaken, AfterRelease, WorkerPC
<1>3. NoSlotLeak' /\ NoSlotShared'
  BY WorkerFreesOwnership DEF FinishJob
<1> QED BY <1>2, <1>3

LEMMA ShutdownStep == IInv /\ ShutdownNext => IInv'
<1> SUFFICES ASSUME IInv, ShutdownNext PROVE IInv'
  OBVIOUS
<1> USE DEF IInv
<1>1. \A s \in Slots : /\ WorkerOwns(s)' <=> WorkerOwns(s)
                       /\ QueueOwns(s)' <=> QueueOwns(s)
                       /\ ApplyOwns(s)' <=> ApplyOwns(s)
  BY DEF ShutdownNext, RequestStop, CloseQueue, ReleasePool, ApplyOwns, QueueOwns, WorkerOwns
<1>2. CASE RequestStop \/ CloseQueue
  <2>1. TypeOK' /\ SeqTaken'
    BY <1>2 DEF RequestStop, CloseQueue, TypeOK, SeqTaken
  <2>2. AfterRelease'
    <3>1. closed' = closed \/ closed' = TRUE
      BY <1>2 DEF RequestStop, CloseQueue
    <3>2. released' = released /\ worker' = worker
      BY <1>2 DEF RequestStop, CloseQueue
    <3> QED BY <3>1, <3>2 DEF AfterRelease
  <2> QED BY <1>1, <1>2, <2>1, <2>2 DEF RequestStop, CloseQueue, NoSlotLeak, NoSlotShared
<1>3. CASE ReleasePool
  <2>1. TypeOK' /\ SeqTaken' /\ AfterRelease'
    BY <1>3 DEF ReleasePool, TypeOK, SeqTaken, AfterRelease
  <2> QED BY <1>3, <2>1 DEF ReleasePool, NoSlotLeak, NoSlotShared
<1> QED BY <1>2, <1>3 DEF ShutdownNext

LEMMA InvInductive == IInv /\ [Next]_vars => IInv'
<1> SUFFICES ASSUME IInv, [Next]_vars PROVE IInv'
  OBVIOUS
<1>1. CASE ApplyNext
  BY <1>1, TakeFrameStep, TryAcquireStep, CopyStep, PushStep, ApplyExitStep DEF ApplyNext
<1>2. CASE ExecuteCopy
  BY <1>2, ExecuteCopyStep
<1>3. CASE WorkerNext
  BY <1>3, WorkerCheckStep, PopStep, SyncStep, FinishStep DEF WorkerNext
<1>4. CASE ShutdownNext
  BY <1>4, ShutdownStep
<1>5. CASE UNCHANGED vars
  BY <1>5 DEF vars, IInv, TypeOK, SeqTaken, AfterRelease, NoSlotLeak, NoSlotShared,
              ApplyOwns, QueueOwns, WorkerOwns
<1> QED BY <1>1, <1>2, <1>3, <1>4, <1>5 DEF Next

LEMMA InvAlways == Spec => []IInv
<1> QED BY InitInv, InvInductive, PTL DEF Spec

----------------------------------------------------------------------------
\* Every variable keeps its type, in particular the scan of
\* try_acquire_infer_slot and every queued job stay inside the pool.
THEOREM TypeCorrect == Spec => []TypeOK
<1>1. IInv => TypeOK
  BY DEF IInv
<1> QED BY <1>1, InvAlways, PTL

\* A slot is busy exactly while somebody answers for it (NoSlotLeak), through
\* every failure of the copy, the event record and the event wait.
THEOREM SlotsNeverLeak == Spec => []NoSlotLeak
<1>1. IInv => NoSlotLeak
  BY DEF IInv
<1> QED BY <1>1, InvAlways, PTL

\* Apply thread, worker and queued jobs never hold the same slot.
THEOREM SlotsNeverShared == Spec => []NoSlotShared
<1>1. IInv => NoSlotShared
  BY DEF IInv
<1> QED BY <1>1, InvAlways, PTL

\* The drop-oldest queue of jobs, sized like the pool, never drops a job.
THEOREM JobsNeverDropped == Spec => []NoJobDropped
<1>1. IInv => NoJobDropped
  <2> SUFFICES ASSUME IInv, ~released, apply.pc = "push"
               PROVE  Len(infer_q) < QueueCap
    BY DEF NoJobDropped
  <2>1. Len(infer_q) < PoolSize
    BY RoomForJob
  <2>2. Len(infer_q) \in Nat
    BY LenProperties DEF IInv, TypeOK
  <2> QED BY <2>1, <2>2
<1> QED BY <1>1, InvAlways, PTL

----------------------------------------------------------------------------
(* The contents of the slots. *)

\* The image of frame f is in slot s, or the last copy queued for s brings it.
HoldsFrame(s, f) ==
  \/ CopyDone(s) /\ pano_rgba[s] = f
  \/ \E i \in 1 .. Len(apply_stream) :
       /\ apply_stream[i].slot_idx = s
       /\ apply_stream[i].frame_seq = f
       /\ \A k \in i + 1 .. Len(apply_stream) : apply_stream[k].slot_idx # s

\* Somebody relies on slot s bringing frame f to the worker: the apply thread
\* about to push, a queued job, or the worker that waits for the copy.
Promised(s, f) ==
  \/ ~released /\ apply.pc = "push" /\ apply.slot = s /\ apply.seq = f
  \/ ~released /\ \E i \in 1 .. Len(infer_q) :
                    infer_q[i].slot_idx = s /\ infer_q[i].frame_seq = f
  \/ worker.pc = "sync" /\ worker.job.slot_idx = s /\ worker.job.frame_seq = f

Inferring(s, f) ==
  worker.pc = "infer" /\ worker.job.slot_idx = s /\ worker.job.frame_seq = f

\* Every job, from its submission to its inference, keeps its image.
ContentInv ==
  \A s \in Slots, f \in FrameSeq :
    /\ Promised(s, f) => HoldsFrame(s, f)
    /\ Inferring(s, f) => CopyDone(s) /\ pano_rgba[s] = f

----------------------------------------------------------------------------
(* How the stream moves images *)

LEMMA StreamLen ==
  ASSUME TypeOK
  PROVE  /\ Len(apply_stream) \in Nat
         /\ \A i \in 1 .. Len(apply_stream) : apply_stream[i] \in Job
BY LenProperties, ElementOfSeq DEF TypeOK

\* A copy queued for another slot leaves slot s alone.
LEMMA AppendElsewhere ==
  ASSUME TypeOK, NEW s \in Slots, NEW f, NEW c \in Job, c.slot_idx # s,
         apply_stream' = Append(apply_stream, c), UNCHANGED pano_rgba
  PROVE  /\ HoldsFrame(s, f) => HoldsFrame(s, f)'
         /\ CopyDone(s) => CopyDone(s)'
<1>1. /\ Len(apply_stream') = Len(apply_stream) + 1
      /\ \A i \in 1 .. Len(apply_stream) : apply_stream'[i] = apply_stream[i]
      /\ apply_stream'[Len(apply_stream) + 1] = c
  BY AppendProperties DEF TypeOK
<1>2. Len(apply_stream) \in Nat
  BY StreamLen
<1>3. CopyDone(s) => CopyDone(s)'
  BY <1>1, <1>2 DEF CopyDone
<1>4. ASSUME NEW i \in 1 .. Len(apply_stream),
             apply_stream[i].slot_idx = s, apply_stream[i].frame_seq = f,
             \A k \in i + 1 .. Len(apply_stream) : apply_stream[k].slot_idx # s
      PROVE  HoldsFrame(s, f)'
  <2>1. i \in 1 .. Len(apply_stream') /\ apply_stream'[i] = apply_stream[i]
    BY <1>1, <1>2
  <2>2. \A k \in i + 1 .. Len(apply_stream') : apply_stream'[k].slot_idx # s
    BY <1>1, <1>2, <1>4
  <2> QED BY <1>4, <2>1, <2>2 DEF HoldsFrame
<1> QED BY <1>3, <1>4 DEF HoldsFrame

\* Executing the oldest copy neither loses an image nor starts a copy.
LEMMA ExecuteKeeps ==
  ASSUME TypeOK, ~released, ExecuteCopy, NEW s \in Slots, NEW f
  PROVE  /\ HoldsFrame(s, f) => HoldsFrame(s, f)'
         /\ CopyDone(s) /\ pano_rgba[s] = f => CopyDone(s)' /\ pano_rgba'[s] = f
<1>1. /\ Head(apply_stream) = apply_stream[1]
      /\ apply_stream' = Tail(apply_stream)
      /\ Len(apply_stream) \in Nat \ {0}
      /\ Len(apply_stream') = Len(apply_stream) - 1
      /\ \A i \in 1 .. Len(apply_stream') : apply_stream'[i] = apply_stream[i + 1]
  BY HeadTailProperties, EmptySeq DEF ExecuteCopy, TypeOK
<1>2. apply_stream[1] \in Job
  BY <1>1, StreamLen
<1>3. pano_rgba' = [pano_rgba EXCEPT ![apply_stream[1].slot_idx] = apply_stream[1].frame_seq]
  BY <1>1 DEF ExecuteCopy
<1>4. ASSUME CopyDone(s), pano_rgba[s] = f
      PROVE  CopyDone(s)' /\ pano_rgba'[s] = f
  <2>1. apply_stream[1].slot_idx # s
    BY <1>1, <1>4 DEF CopyDone
  <2>2. CopyDone(s)'
    BY <1>1, <1>4 DEF CopyDone
  <2> QED BY <1>3, <1>4, <2>1, <2>2 DEF TypeOK
<1>5. ASSUME NEW i \in 1 .. Len(apply_stream),
             apply_stream[i].slot_idx = s, apply_stream[i].frame_seq = f,
             \A k \in i + 1 .. Len(apply_stream) : apply_stream[k].slot_idx # s
      PROVE  HoldsFrame(s, f)'
  <2>1. CASE i = 1
    <3>1. \A k \in 1 .. Len(apply_stream') : apply_stream'[k].slot_idx # s
      BY <1>1, <1>5, <2>1
    <3>2. pano_rgba'[s] = f
      BY <1>3, <1>5, <2>1 DEF TypeOK
    <3> QED BY <3>1, <3>2 DEF HoldsFrame, CopyDone
  <2>2. CASE i # 1
    <3>1. i - 1 \in 1 .. Len(apply_stream') /\ apply_stream'[i - 1] = apply_stream[i]
      BY <1>1, <2>2
    <3>2. \A k \in (i - 1) + 1 .. Len(apply_stream') : apply_stream'[k].slot_idx # s
      BY <1>1, <1>5, <2>2
    <3> QED BY <1>5, <3>1, <3>2 DEF HoldsFrame
  <2> QED BY <2>1, <2>2
<1> QED BY <1>4, <1>5 DEF HoldsFrame

----------------------------------------------------------------------------
(* Each operation keeps ContentInv. *)

\* A step that moves no image and leaves only promises there were before.
QuietStep ==
  /\ UNCHANGED <<pano_rgba, apply_stream>>
  /\ \A s \in Slots, f \in FrameSeq :
       /\ Promised(s, f)' => Promised(s, f)
       /\ Inferring(s, f)' => \/ Inferring(s, f)
                              \/ Promised(s, f) /\ CopyDone(s)

LEMMA QuietContent == ContentInv /\ QuietStep => ContentInv'
<1> SUFFICES ASSUME ContentInv, QuietStep, NEW s \in Slots, NEW f \in FrameSeq
             PROVE  /\ Promised(s, f)' => HoldsFrame(s, f)'
                    /\ Inferring(s, f)' => CopyDone(s)' /\ pano_rgba'[s] = f
  BY DEF ContentInv
<1>1. /\ HoldsFrame(s, f)' <=> HoldsFrame(s, f)
      /\ CopyDone(s)' <=> CopyDone(s)
  BY DEF QuietStep, HoldsFrame, CopyDone
<1>2. HoldsFrame(s, f) /\ CopyDone(s) => pano_rgba[s] = f
  BY DEF HoldsFrame, CopyDone
<1> QED BY <1>1, <1>2 DEF ContentInv, QuietStep

LEMMA CopyContent == IInv /\ ContentInv /\ CopyToSlot => ContentInv'
<1> SUFFICES ASSUME IInv, ContentInv, CopyToSlot PROVE ContentInv'
  OBVIOUS
<1> USE DEF IInv
<1> DEFINE c == [slot_idx |-> apply.slot, frame_seq |-> apply.seq]
<1>1. c \in Job /\ c.slot_idx = apply.slot /\ c.frame_seq = apply.seq
  BY DEF CopyToSlot, SeqTaken, TypeOK, Job
<1>2. UNCHANGED <<pano_rgba, infer_q, worker, released>> /\ apply.pc = "copy"
  BY DEF CopyToSlot
<1>3. \A s \in Slots, f \in FrameSeq :
        /\ Inferring(s, f)' <=> Inferring(s, f)
        /\ Promised(s, f)' /\ apply'.pc # "push" => Promised(s, f)
  BY <1>2 DEF Inferring, Promised
<1>4. \/ UNCHANGED apply_stream /\ apply'.pc # "push"
      \/ /\ ~released
         /\ apply_stream' = Append(apply_stream, c)
         /\ apply'.pc = "push" => apply'.slot = apply.slot /\ apply'.seq = apply.seq
  BY DEF CopyToSlot, GiveUpSlot, TypeOK
<1>5. CASE UNCHANGED apply_stream /\ apply'.pc # "push"
  <2> QuietStep
    BY <1>2, <1>3, <1>5 DEF QuietStep
  <2> QED BY QuietContent
<1>6. CASE /\ ~released
           /\ apply_stream' = Append(apply_stream, c)
           /\ apply'.pc = "push" => apply'.slot = apply.slot /\ apply'.seq = apply.seq
  <2> SUFFICES ASSUME NEW s \in Slots, NEW f \in FrameSeq
               PROVE  /\ Promised(s, f)' => HoldsFrame(s, f)'
                      /\ Inferring(s, f)' => CopyDone(s)' /\ pano_rgba'[s] = f
    BY DEF ContentInv
  <2>1. ApplyOwns(apply.slot) /\ apply.slot \in Slots
    BY <1>2 DEF ApplyOwns, TypeOK
  <2>2. ~QueueOwns(apply.slot) /\ ~WorkerOwns(apply.slot)
    BY <1>6, <2>1 DEF NoSlotShared
  <2> HIDE DEF c
  <2>3. CASE s # apply.slot
    <3>1. Promised(s, f)' => Promised(s, f)
      BY <1>2, <1>6, <2>3 DEF Promised
    <3>2. /\ HoldsFrame(s, f) => HoldsFrame(s, f)'
          /\ CopyDone(s) => CopyDone(s)'
      BY <1>1, <1>2, <1>6, <2>3, AppendElsewhere
    <3> QED BY <1>2, <1>3, <3>1, <3>2 DEF ContentInv
  <2>4. CASE s = apply.slot
    <3>1. ~Inferring(s, f)'
      BY <1>2, <2>2, <2>4 DEF Inferring, WorkerOwns
    <3>2. Promised(s, f)' => apply.seq = f
      BY <1>2, <1>6, <2>2, <2>4 DEF Promised, QueueOwns, WorkerOwns
    <3>3. ASSUME apply.seq = f PROVE HoldsFrame(s, f)'
      <4>1. /\ Len(apply_stream') = Len(apply_stream) + 1
            /\ apply_stream'[Len(apply_stream) + 1] = c
            /\ Len(apply_stream) \in Nat
        BY <1>1, <1>6, AppendProperties, LenProperties DEF TypeOK
      <4> QED BY <1>1, <2>4, <3>3, <4>1 DEF HoldsFrame
    <3> QED BY <3>1, <3>2, <3>3
  <2> QED BY <2>3, <2>4
<1> QED BY <1>4, <1>5, <1>6

\* The other operations of the apply thread leave at most the promises there
\* were: a push turns the apply thread's promise into the queue's.
LEMMA ApplyContent ==
  IInv /\ ContentInv /\ (TakeFrame \/ TryAcquireSlot \/ PushJob \/ ApplyExit) => ContentInv'
<1> SUFFICES ASSUME IInv, ContentInv, TakeFrame \/ TryAcquireSlot \/ PushJob \/ ApplyExit
             PROVE  ContentInv'
  OBVIOUS
<1> USE DEF IInv
<1>1. UNCHANGED <<pano_rgba, apply_stream, worker, released>>
  BY DEF TakeFrame, TryAcquireSlot, PushJob, ApplyExit
<1>2. \A s \in Slots, f \in FrameSeq : Inferring(s, f)' <=> Inferring(s, f)
  BY <1>1 DEF Inferring
<1>3. CASE TakeFrame \/ TryAcquireSlot \/ ApplyExit
  <2>1. UNCHANGED infer_q
    BY <1>3 DEF TakeFrame, TryAcquireSlot, ApplyExit
  <2>2. apply'.pc # "push"
    <3>1. CASE TakeFrame
      BY <3>1 DEF TakeFrame
    <3>2. CASE TryAcquireSlot
      <4>1. \/ apply' = [apply EXCEPT !.pc = "copy"]
            \/ apply' = [apply EXCEPT !.slot = @ + 1]
            \/ apply' = [apply EXCEPT !.pc = "frame", !.slot = 0]
        BY <3>2 DEF TryAcquireSlot
      <4>2. apply.pc = "scan"
        BY <3>2 DEF TryAcquireSlot
      <4> QED BY <4>1, <4>2 DEF TypeOK
    <3>3. CASE ApplyExit
      BY <3>3 DEF ApplyExit, TypeOK
    <3> QED BY <1>3, <3>1, <3>2, <3>3
  <2>3. \A s \in Slots, f \in FrameSeq : Promised(s, f)' => Promised(s, f)
    BY <1>1, <2>1, <2>2 DEF Promised
  <2> QED BY <1>1, <1>2, <2>3, QuietContent DEF QuietStep
<1>4. CASE PushJob
  <2>1. apply'.pc # "push"
    BY <1>4 DEF PushJob, GiveUpSlot, TypeOK
  <2>2. CASE closed
    <3>1. UNCHANGED infer_q
      BY <1>4, <2>2 DEF PushJob
    <3>2. \A s \in Slots, f \in FrameSeq : Promised(s, f)' => Promised(s, f)
      BY <1>1, <2>1, <3>1 DEF Promised
    <3> QED BY <1>1, <1>2, <3>2, QuietContent DEF QuietStep
  <2>3. CASE ~closed
    <3> DEFINE job == [slot_idx |-> apply.slot, frame_seq |-> apply.seq]
    <3>1. ~released
      BY <2>3 DEF AfterRelease
    <3>2. Len(infer_q) < PoolSize /\ Len(infer_q) \in Nat
      BY <1>4, <3>1, RoomForJob, LenProperties DEF PushJob, TypeOK
    <3>3. infer_q' = Append(infer_q, job)
      <4>1. DropToFit(infer_q) = infer_q
        BY <3>2, QueueCapAssumption, PoolSizeAssumption DEF DropToFit
      <4> QED BY <1>4, <2>3, <4>1 DEF PushJob
    <3>4. job \in Job
      BY <1>4 DEF PushJob, SeqTaken, TypeOK, Job
    <3>5. /\ Len(infer_q') = Len(infer_q) + 1
          /\ \A i \in 1 .. Len(infer_q) : infer_q'[i] = infer_q[i]
          /\ infer_q'[Len(infer_q) + 1] = job
      BY <3>3, <3>4, AppendProperties DEF TypeOK
    <3>6. \A s \in Slots, f \in FrameSeq : Promised(s, f)' => Promised(s, f)
      BY <1>1, <1>4, <2>1, <3>1, <3>2, <3>5 DEF PushJob, Promised
    <3> QED BY <1>1, <1>2, <3>6, QuietContent DEF QuietStep
  <2> QED BY <2>2, <2>3
<1> QED BY <1>3, <1>4

LEMMA ExecuteContent == IInv /\ ContentInv /\ ExecuteCopy => ContentInv'
<1> SUFFICES ASSUME IInv, ContentInv, ExecuteCopy,
                    NEW s \in Slots, NEW f \in FrameSeq
             PROVE  /\ Promised(s, f)' => HoldsFrame(s, f)'
                    /\ Inferring(s, f)' => CopyDone(s)' /\ pano_rgba'[s] = f
  BY DEF ContentInv
<1> USE DEF IInv
<1>1. (Promised(s, f)' <=> Promised(s, f)) /\ (Inferring(s, f)' <=> Inferring(s, f))
  BY DEF ExecuteCopy, Promised, Inferring
<1>2. CASE released
  BY <1>1, <1>2 DEF AfterRelease, Promised, Inferring
<1>3. CASE ~released
  BY <1>1, <1>3, ExecuteKeeps DEF ContentInv
<1> QED BY <1>2, <1>3

LEMMA WorkerContent == IInv /\ ContentInv /\ WorkerNext => ContentInv'
<1> SUFFICES ASSUME IInv, ContentInv, WorkerNext PROVE ContentInv'
  OBVIOUS
<1> USE DEF IInv
<1>1. UNCHANGED <<pano_rgba, apply_stream, released, apply>>
  BY DEF WorkerNext, WorkerCheck, PopJob, SyncCopyDone, FinishJob
<1>2. CASE PopJob /\ infer_q # <<>>
  <2>1. /\ infer_q' = Tail(infer_q)
        /\ worker' = [pc |-> "sync", job |-> infer_q[1]]
    BY <1>2 DEF PopJob, TypeOK
  <2>2. /\ Len(infer_q) \in Nat \ {0}
        /\ Len(infer_q') = Len(infer_q) - 1
        /\ \A i \in 1 .. Len(infer_q') : infer_q'[i] = infer_q[i + 1]
    BY <1>2, <2>1, HeadTailProperties, EmptySeq DEF TypeOK
  <2>3. ~released
    BY <1>2 DEF PopJob, AfterRelease
  <2>4. \A s \in Slots, f \in FrameSeq : Promised(s, f)' => Promised(s, f)
    BY <1>1, <2>1, <2>2, <2>3 DEF Promised
  <2>5. \A s \in Slots, f \in FrameSeq : ~Inferring(s, f)'
    BY <2>1 DEF Inferring
  <2> QED BY <1>1, <2>4, <2>5, QuietContent DEF QuietStep
<1>3. CASE SyncCopyDone
  <2>1. UNCHANGED infer_q /\ worker.pc = "sync"
    BY <1>3 DEF SyncCopyDone
  <2>2. /\ worker'.job = worker.job
        /\ \/ worker'.pc = "infer" /\ CopyDone(worker.job.slot_idx)
           \/ worker'.pc = "check"
    BY <1>3 DEF SyncCopyDone, TypeOK
  <2>3. \A s \in Slots, f \in FrameSeq : Promised(s, f)' => Promised(s, f)
    BY <1>1, <2>1, <2>2 DEF Promised
  <2>4. \A s \in Slots, f \in FrameSeq : Inferring(s, f)' => Promised(s, f) /\ CopyDone(s)
    BY <2>1, <2>2 DEF Inferring, Promised
  <2> QED BY <1>1, <2>3, <2>4, QuietContent DEF QuietStep
<1>4. CASE WorkerCheck \/ FinishJob \/ (PopJob /\ infer_q = <<>>)
  <2>1. UNCHANGED infer_q
    BY <1>4 DEF WorkerCheck, FinishJob, PopJob
  <2>2. worker'.pc \in {"check", "pop", "exited"}
    BY <1>4 DEF WorkerCheck, FinishJob, PopJob, TypeOK
  <2>3. \A s \in Slots, f \in FrameSeq :
          (Promised(s, f)' => Promised(s, f)) /\ ~Inferring(s, f)'
    BY <1>1, <2>1, <2>2 DEF Promised, Inferring
  <2> QED BY <1>1, <2>3, QuietContent DEF QuietStep
<1> QED BY <1>2, <1>3, <1>4 DEF WorkerNext

LEMMA ShutdownContent == IInv /\ ContentInv /\ ShutdownNext => ContentInv'
<1> SUFFICES ASSUME IInv, ContentInv, ShutdownNext PROVE ContentInv'
  OBVIOUS
<1> USE DEF IInv
<1>1. CASE RequestStop \/ CloseQueue
  <2>1. UNCHANGED <<pano_rgba, apply_stream, infer_q, released, apply, worker>>
    BY <1>1 DEF RequestStop, CloseQueue
  <2>2. \A s \in Slots, f \in FrameSeq :
          (Promised(s, f)' => Promised(s, f)) /\ (Inferring(s, f)' => Inferring(s, f))
    BY <2>1 DEF Promised, Inferring
  <2> QED BY <2>1, <2>2, QuietContent DEF QuietStep
<1>2. CASE ReleasePool
  <2>1. \A s \in Slots, f \in FrameSeq : ~Promised(s, f)' /\ ~Inferring(s, f)'
    BY <1>2 DEF ReleasePool, Promised, Inferring
  <2> QED BY <2>1 DEF ContentInv
<1> QED BY <1>1, <1>2 DEF ShutdownNext

----------------------------------------------------------------------------
LEMMA ContentAlways == Spec => []ContentInv
<1>1. Init => ContentInv
  BY DEF Init, ContentInv, Promised, Inferring
<1>2. IInv /\ ContentInv /\ [Next]_vars => ContentInv'
  <2> SUFFICES ASSUME IInv, ContentInv, [Next]_vars PROVE ContentInv'
    OBVIOUS
  <2>1. CASE UNCHANGED vars
    BY <2>1 DEF vars, ContentInv, Promised, Inferring, HoldsFrame, CopyDone
  <2> QED BY <2>1, CopyContent, ApplyContent, ExecuteContent, WorkerContent, ShutdownContent
          DEF Next, ApplyNext
<1> QED BY <1>1, <1>2, InvAlways, PTL DEF Spec

\* The worker infers from the image of the frame its job names: no copy into
\* the slot is outstanding or can start until the worker frees the slot.
THEOREM InferenceSeesItsFrame == Spec => []WorkerReadsItsFrame
<1>1. IInv /\ ContentInv => WorkerReadsItsFrame
  <2> SUFFICES ASSUME IInv, ContentInv, worker.pc = "infer"
               PROVE  pano_rgba[worker.job.slot_idx] = worker.job.frame_seq
    BY DEF WorkerReadsItsFrame
  <2>1. worker.job.slot_idx \in Slots /\ worker.job.frame_seq \in FrameSeq
    BY DEF IInv, TypeOK, Job
  <2> QED BY <2>1 DEF ContentInv, Inferring
<1> QED BY <1>1, InvAlways, ContentAlways, PTL

----------------------------------------------------------------------------
(* The refinement of OrderedLossyChannel. *)

\* The frames that the jobs of a queue name.
FramesOf(q) == [i \in 1 .. Len(q) |-> q[i].frame_seq]
InWork      == IF worker.pc \in {"sync", "infer"} THEN <<worker.job.frame_seq>> ELSE <<>>

LEMMA FunctionIsSeq ==
  ASSUME NEW S, NEW n \in Nat, NEW f \in [1 .. n -> S]
  PROVE  f \in Seq(S) /\ Len(f) = n
OBVIOUS

LEMMA FramesOfTyped ==
  ASSUME NEW q \in Seq(Job)
  PROVE  /\ FramesOf(q) \in Seq(FrameSeq) /\ Len(FramesOf(q)) = Len(q) /\ Len(q) \in Nat
         /\ \A i \in 1 .. Len(q) : FramesOf(q)[i] = q[i].frame_seq /\ q[i] \in Job
<1>1. Len(q) \in Nat /\ \A i \in 1 .. Len(q) : q[i] \in Job
  BY LenProperties, ElementOfSeq
<1>2. FramesOf(q) \in [1 .. Len(q) -> FrameSeq]
  BY <1>1 DEF FramesOf, Job
<1> QED BY <1>1, <1>2, FunctionIsSeq DEF FramesOf

LEMMA InWorkTyped ==
  ASSUME TypeOK
  PROVE  InWork \in Seq(FrameSeq) /\ Len(InWork) \in {0, 1}
<1>1. worker.job.frame_seq \in FrameSeq
  BY DEF TypeOK, Job
<1> QED BY <1>1 DEF InWork

\* While the apply thread holds a slot, the queued jobs and the worker's job
\* are in other slots: there are fewer of them than slots.
LEMMA RoomUnderWay ==
  ASSUME IInv, ~released, apply.pc = "push"
  PROVE  Len(infer_q) + Len(InWork) < PoolSize
<1> USE DEF IInv
<1>1. CASE worker.pc \notin {"sync", "infer"}
  <2>1. Len(InWork) = 0
    BY <1>1 DEF InWork
  <2>2. Len(infer_q) < PoolSize /\ Len(infer_q) \in Nat
    BY RoomForJob, LenProperties DEF TypeOK
  <2> QED BY <2>1, <2>2
<1>2. CASE worker.pc \in {"sync", "infer"}
  <2> DEFINE n == Len(infer_q)
             w == worker.job.slot_idx
             Others == (Slots \ {apply.slot}) \ {w}
             f == [i \in 1 .. n |-> infer_q[i].slot_idx]
  <2>1. /\ n \in Nat /\ apply.slot \in Slots /\ w \in Slots
        /\ \A i \in 1 .. n : infer_q[i] \in Job
    BY LenProperties, ElementOfSeq DEF TypeOK, Job
  <2>2. ApplyOwns(apply.slot) /\ WorkerOwns(w)
    BY <1>2 DEF ApplyOwns, WorkerOwns
  <2>3. w # apply.slot /\ \A i \in 1 .. n : infer_q[i].slot_idx \in Others
    BY <2>1, <2>2 DEF NoSlotShared, QueueOwns, Job
  <2>4. f \in Injection(1 .. n, Others)
    <3>1. f \in [1 .. n -> Others]
      BY <2>3
    <3>2. \A i, j \in 1 .. n : f[i] = f[j] => i = j
      BY DEF NoSlotShared
    <3> QED BY <3>1, <3>2 DEF Injection, IsInjective
  <2>5. IsFiniteSet(Slots) /\ Cardinality(Slots) = PoolSize
    BY FS_Interval DEF Slots
  <2>6. IsFiniteSet(Others) /\ Cardinality(Others) = PoolSize - 1 - 1
    <3>1. IsFiniteSet(Slots \ {apply.slot}) /\ Cardinality(Slots \ {apply.slot}) = PoolSize - 1
      BY <2>1, <2>5, FS_RemoveElement
    <3>2. w \in Slots \ {apply.slot}
      BY <2>1, <2>3
    <3>3. ASSUME NEW T, NEW x \in T, IsFiniteSet(T), Cardinality(T) = PoolSize - 1
          PROVE  IsFiniteSet(T \ {x}) /\ Cardinality(T \ {x}) = PoolSize - 1 - 1
      BY <3>3, FS_RemoveElement
    <3> HIDE DEF n, w, f
    <3> QED BY <3>1, <3>2, <3>3
  <2>7. Cardinality(1 .. n) <= PoolSize - 1 - 1
    BY <2>4, <2>6, FS_Injection
  <2>8. Cardinality(1 .. n) = n
    <3> HIDE DEF n
    <3>1. Cardinality(1 .. n) = IF 1 > n THEN 0 ELSE n - 1 + 1
      BY <2>1, FS_Interval
    <3> QED BY <2>1, <3>1
  <2>9. Len(InWork) = 1
    BY <1>2 DEF InWork
  <2> QED BY <2>1, <2>7, <2>8, <2>9
<1> QED BY <1>1, <1>2

LEMMA UnderWay == FramesUnderWay = IF released THEN <<>> ELSE InWork \o FramesOf(infer_q)
BY DEF FramesUnderWay, InWork, FramesOf

LEMMA UnderWayNext == FramesUnderWay' = IF released' THEN <<>> ELSE InWork' \o FramesOf(infer_q)'
BY DEF FramesUnderWay, InWork, FramesOf

\* Steps that change neither the queue, the worker's job nor the tear-down.
LEMMA UnderWayKept ==
  ASSUME UNCHANGED <<infer_q, released>>, UNCHANGED InWork
  PROVE  UNCHANGED FramesUnderWay
BY UnderWay, UnderWayNext DEF FramesOf

LEMMA ApplyRefines == IInv /\ ApplyNext => [Channel!Next]_Channel!vars
<1> SUFFICES ASSUME IInv, ApplyNext PROVE [Channel!Next]_Channel!vars
  OBVIOUS
<1> USE DEF IInv
<1>1. UNCHANGED <<worker, released, published>> /\ UNCHANGED InWork
  BY DEF ApplyNext, TakeFrame, TryAcquireSlot, CopyToSlot, PushJob, ApplyExit, InWork
<1>2. apply.seq \in 0 .. MaxFrame /\ (apply.pc \in {"scan", "copy", "push"} => apply.seq \in 1 .. MaxFrame)
  BY DEF TypeOK, SeqTaken, FrameSeq
<1>3. ASSUME UNCHANGED infer_q, UNCHANGED Considered PROVE UNCHANGED Channel!vars
  BY <1>1, <1>3, UnderWayKept DEF Channel!vars
<1>4. ASSUME UNCHANGED infer_q, apply.pc \in {"scan", "copy", "push"},
             apply'.pc = "frame", apply'.seq = apply.seq
      PROVE  Channel!Skip
  <2>1. Considered = apply.seq - 1 /\ Considered' = apply.seq
    BY <1>4 DEF Considered
  <2> QED BY <1>1, <1>2, <1>4, <2>1, UnderWayKept DEF Channel!Skip
<1>5. CASE TakeFrame
  <2>1. Considered = apply.seq /\ Considered' = apply'.seq - 1 /\ apply'.seq = apply.seq + 1
    <3>1. apply.pc = "frame" /\ apply'.pc = "scan" /\ apply'.seq = apply.seq + 1
      BY <1>5 DEF TakeFrame
    <3>2. Considered = apply.seq
      BY <3>1 DEF Considered
    <3>3. Considered' = apply'.seq - 1
      BY <3>1 DEF Considered
    <3> QED BY <3>1, <3>2, <3>3
  <2> QED BY <1>2, <1>3, <1>5, <2>1 DEF TakeFrame
<1>6. CASE TryAcquireSlot
  <2>1. /\ apply.pc = "scan" /\ apply'.seq = apply.seq /\ UNCHANGED infer_q
        /\ apply'.pc \in {"scan", "copy"} \/ apply'.pc = "frame"
    BY <1>6 DEF TryAcquireSlot, TypeOK
  <2>2. apply'.pc \in {"scan", "copy"} => UNCHANGED Considered
    BY <2>1 DEF Considered
  <2> QED BY <1>3, <1>4, <2>1, <2>2 DEF Channel!Next
<1>7. CASE CopyToSlot
  <2>1. /\ apply.pc = "copy" /\ apply'.seq = apply.seq /\ UNCHANGED infer_q
        /\ apply'.pc = "push" \/ apply'.pc = "frame"
    BY <1>7 DEF CopyToSlot, GiveUpSlot, TypeOK
  <2>2. apply'.pc = "push" => UNCHANGED Considered
    BY <2>1 DEF Considered
  <2> QED BY <1>3, <1>4, <2>1, <2>2 DEF Channel!Next
<1>8. CASE PushJob
  <2>1. apply.pc = "push" /\ apply'.seq = apply.seq /\ apply'.pc = "frame"
    BY <1>8 DEF PushJob, GiveUpSlot, TypeOK
  <2>2. CASE closed
    BY <1>4, <1>8, <2>1, <2>2 DEF PushJob, Channel!Next
  <2>3. CASE ~closed
    <3> DEFINE job == [slot_idx |-> apply.slot, frame_seq |-> apply.seq]
    <3>1. ~released
      BY <2>3 DEF AfterRelease
    <3>2. /\ infer_q \in Seq(Job) /\ Len(infer_q) \in Nat
          /\ Len(infer_q) + Len(InWork) < PoolSize /\ Len(InWork) \in {0, 1}
          /\ InWork \in Seq(FrameSeq)
      BY <2>1, <3>1, RoomUnderWay, InWorkTyped, LenProperties DEF TypeOK
    <3>3. infer_q' = Append(infer_q, job)
      <4>1. DropToFit(infer_q) = infer_q
        BY <3>2 DEF DropToFit
      <4> QED BY <1>8, <2>3, <4>1 DEF PushJob
    <3>4. job \in Job /\ job.frame_seq = apply.seq /\ apply.seq \in FrameSeq
      BY <1>2, <2>1 DEF TypeOK, Job, FrameSeq
    <3>5. /\ infer_q' \in Seq(Job) /\ Len(infer_q') = Len(infer_q) + 1
          /\ \A i \in 1 .. Len(infer_q) : infer_q'[i] = infer_q[i]
          /\ infer_q'[Len(infer_q) + 1] = job
      BY <3>2, <3>3, <3>4, AppendProperties
    <3> HIDE DEF job
    <3>6. /\ FramesOf(infer_q) \in Seq(FrameSeq) /\ Len(FramesOf(infer_q)) = Len(infer_q)
          /\ \A i \in 1 .. Len(infer_q) : FramesOf(infer_q)[i] = infer_q[i].frame_seq
      BY <3>2, FramesOfTyped
    <3>7. FramesOf(infer_q)' = Append(FramesOf(infer_q), apply.seq)
      <4>1. /\ FramesOf(infer_q') \in Seq(FrameSeq) /\ Len(FramesOf(infer_q')) = Len(infer_q')
            /\ \A i \in 1 .. Len(infer_q') : FramesOf(infer_q')[i] = infer_q'[i].frame_seq
        BY <3>5, FramesOfTyped
      <4>2. /\ Append(FramesOf(infer_q), apply.seq) \in Seq(FrameSeq)
            /\ Len(Append(FramesOf(infer_q), apply.seq)) = Len(infer_q) + 1
            /\ \A i \in 1 .. Len(infer_q) : Append(FramesOf(infer_q), apply.seq)[i] = infer_q[i].frame_seq
            /\ Append(FramesOf(infer_q), apply.seq)[Len(infer_q) + 1] = apply.seq
        BY <3>4, <3>6, AppendProperties
      <4>3. \A i \in 1 .. Len(infer_q') : FramesOf(infer_q')[i] = Append(FramesOf(infer_q), apply.seq)[i]
        <5>1. \A i \in 1 .. Len(infer_q') : i \in 1 .. Len(infer_q) \/ i = Len(infer_q) + 1
          BY <3>2, <3>5
        <5> QED BY <3>4, <3>5, <4>1, <4>2, <5>1
      <4> QED BY <3>5, <4>1, <4>2, <4>3, SeqEqual
    <3>8. FramesUnderWay = InWork \o FramesOf(infer_q)
      BY <3>1, UnderWay
    <3>9. FramesUnderWay' = InWork \o Append(FramesOf(infer_q), apply.seq)
      BY <1>1, <3>1, <3>7, UnderWayNext
    <3>10. FramesUnderWay' = Append(FramesUnderWay, apply.seq)
      <4>1. Append(FramesOf(infer_q), apply.seq) = FramesOf(infer_q) \o <<apply.seq>>
        BY <3>4, <3>6, AppendIsConcat
      <4>2. FramesUnderWay \in Seq(FrameSeq) /\ <<apply.seq>> \in Seq(FrameSeq)
        BY <3>2, <3>4, <3>6, <3>8, ConcatProperties
      <4>3. Append(FramesUnderWay, apply.seq) = FramesUnderWay \o <<apply.seq>>
        BY <3>4, <4>2, AppendIsConcat
      <4>4. (InWork \o FramesOf(infer_q)) \o <<apply.seq>> = InWork \o (FramesOf(infer_q) \o <<apply.seq>>)
        <5>1. ASSUME NEW r \in Seq(FrameSeq), NEW s \in Seq(FrameSeq), NEW t \in Seq(FrameSeq)
              PROVE  (r \o s) \o t = r \o (s \o t)
          BY ConcatAssociative
        <5> QED BY <3>2, <3>6, <4>2, <5>1
      <4> QED BY <3>8, <3>9, <4>1, <4>3, <4>4
    <3>11. Len(FramesUnderWay) < PoolSize
      BY <3>2, <3>6, <3>8, ConcatProperties
    <3>12. Considered = apply.seq - 1 /\ Considered' = apply.seq
      BY <2>1 DEF Considered
    <3>13. Channel!Send
      BY <1>1, <1>2, <2>1, <3>10, <3>11, <3>12 DEF Channel!Send
    <3> QED BY <3>13 DEF Channel!Next
  <2> QED BY <2>2, <2>3
<1>9. CASE ApplyExit
  <2>1. Considered' = Considered
    BY <1>9 DEF ApplyExit, Considered, TypeOK
  <2> QED BY <1>3, <1>9, <2>1 DEF ApplyExit
<1> QED BY <1>5, <1>6, <1>7, <1>8, <1>9 DEF ApplyNext

LEMMA WorkerRefines == IInv /\ WorkerNext => [Channel!Next]_Channel!vars
<1> SUFFICES ASSUME IInv, WorkerNext PROVE [Channel!Next]_Channel!vars
  OBVIOUS
<1> USE DEF IInv
<1>1. UNCHANGED <<apply, released>> /\ ~released
  BY DEF WorkerNext, WorkerCheck, PopJob, SyncCopyDone, FinishJob, AfterRelease
<1>2. UNCHANGED Considered
  BY <1>1 DEF Considered
<1>3. /\ FramesUnderWay = InWork \o FramesOf(infer_q)
      /\ FramesUnderWay' = InWork' \o FramesOf(infer_q)'
  BY <1>1, UnderWay, UnderWayNext
<1>4. /\ infer_q \in Seq(Job) /\ worker.job \in Job
      /\ FramesOf(infer_q) \in Seq(FrameSeq) /\ Len(FramesOf(infer_q)) = Len(infer_q)
      /\ \A i \in 1 .. Len(infer_q) : FramesOf(infer_q)[i] = infer_q[i].frame_seq
      /\ Len(infer_q) \in Nat
  BY FramesOfTyped DEF TypeOK
<1>5. ASSUME worker.pc \in {"sync", "infer"}
      PROVE  /\ FramesUnderWay # <<>> /\ Head(FramesUnderWay) = worker.job.frame_seq
             /\ Tail(FramesUnderWay) = FramesOf(infer_q)
  <2>1. InWork = <<worker.job.frame_seq>> /\ worker.job.frame_seq \in FrameSeq
    BY <1>4, <1>5 DEF InWork, Job
  <2>2. ASSUME NEW f \in FrameSeq, NEW s \in Seq(FrameSeq)
        PROVE  <<f>> \o s # <<>> /\ Head(<<f>> \o s) = f /\ Tail(<<f>> \o s) = s
    <3>1. /\ <<f>> \in Seq(FrameSeq) /\ Len(<<f>>) = 1 /\ Len(s) \in Nat
          /\ <<f>> \o s \in Seq(FrameSeq) /\ Len(<<f>> \o s) = 1 + Len(s)
          /\ \A i \in 1 .. 1 + Len(s) : (<<f>> \o s)[i] = IF i <= 1 THEN f ELSE s[i - 1]
      BY ConcatProperties, LenProperties
    <3>2. <<f>> \o s # <<>>
      BY <3>1
    <3>3. /\ Tail(<<f>> \o s) \in Seq(FrameSeq) /\ Len(Tail(<<f>> \o s)) = Len(s)
          /\ \A i \in 1 .. Len(s) : Tail(<<f>> \o s)[i] = (<<f>> \o s)[i + 1]
      BY <3>1, <3>2, HeadTailProperties
    <3>4. Tail(<<f>> \o s) = s
      <4>1. \A i \in 1 .. Len(s) : Tail(<<f>> \o s)[i] = s[i]
        BY <3>1, <3>3
      <4> QED BY <3>3, <4>1, SeqEqual
    <3>5. Head(<<f>> \o s) = f
      BY <3>1, <3>2
    <3> QED BY <3>2, <3>4, <3>5
  <2> QED BY <1>3, <1>4, <2>1, <2>2
<1>6. ASSUME worker'.pc \notin {"sync", "infer"}, UNCHANGED infer_q
      PROVE  FramesUnderWay' = FramesOf(infer_q)
  <2>1. InWork' = <<>> /\ FramesOf(infer_q)' = FramesOf(infer_q)
    BY <1>6 DEF InWork, FramesOf
  <2> QED BY <1>3, <1>4, <2>1, ConcatEmptySeq
<1>7. ASSUME UNCHANGED <<infer_q, published>>, UNCHANGED InWork PROVE UNCHANGED Channel!vars
  BY <1>1, <1>2, <1>7, UnderWayKept DEF Channel!vars
<1>8. CASE WorkerCheck
  BY <1>7, <1>8 DEF WorkerCheck, InWork, TypeOK
<1>9. CASE PopJob
  <2>1. CASE infer_q = <<>>
    BY <1>7, <1>9, <2>1 DEF PopJob, InWork, TypeOK
  <2>2. CASE infer_q # <<>>
    <3>1. /\ worker.pc = "pop" /\ UNCHANGED published
          /\ infer_q' = Tail(infer_q) /\ worker' = [pc |-> "sync", job |-> infer_q[1]]
      BY <1>9, <2>2 DEF PopJob, TypeOK
    <3>2. /\ Len(infer_q) >= 1 /\ infer_q[1] \in Job
          /\ infer_q' \in Seq(Job) /\ Len(infer_q') = Len(infer_q) - 1
          /\ \A i \in 1 .. Len(infer_q') : infer_q'[i] = infer_q[i + 1]
      BY <1>4, <2>2, <3>1, HeadTailProperties, EmptySeq, ElementOfSeq
    <3>3. /\ InWork = <<>> /\ InWork' = <<infer_q[1].frame_seq>>
          /\ infer_q[1].frame_seq \in FrameSeq
      BY <3>1, <3>2 DEF InWork, Job
    <3>4. /\ FramesOf(infer_q)' \in Seq(FrameSeq) /\ Len(FramesOf(infer_q)') = Len(infer_q) - 1
          /\ \A i \in 1 .. Len(infer_q) - 1 : FramesOf(infer_q)'[i] = infer_q[i + 1].frame_seq
      <4>1. /\ FramesOf(infer_q') \in Seq(FrameSeq) /\ Len(FramesOf(infer_q')) = Len(infer_q')
            /\ \A i \in 1 .. Len(infer_q') : FramesOf(infer_q')[i] = infer_q'[i].frame_seq
        BY <3>2, FramesOfTyped
      <4> QED BY <3>2, <4>1
    <3>5. FramesUnderWay = FramesOf(infer_q)
      BY <1>3, <1>4, <3>3, ConcatEmptySeq
    <3>6. FramesUnderWay' = FramesOf(infer_q)
      <4> DEFINE s == <<infer_q[1].frame_seq>> \o FramesOf(infer_q)'
      <4>1. /\ s \in Seq(FrameSeq) /\ Len(s) = Len(infer_q)
            /\ \A i \in 1 .. Len(infer_q) : s[i] = IF i <= 1 THEN infer_q[1].frame_seq
                                                   ELSE FramesOf(infer_q)'[i - 1]
        <5>1. <<infer_q[1].frame_seq>> \in Seq(FrameSeq) /\ Len(<<infer_q[1].frame_seq>>) = 1
          BY <3>3
        <5> QED BY <1>4, <3>4, <5>1, ConcatProperties
      <4>2. \A i \in 1 .. Len(infer_q) : s[i] = FramesOf(infer_q)[i]
        BY <1>4, <3>2, <3>4, <4>1
      <4>3. s = FramesOf(infer_q)
        BY <1>4, <4>1, <4>2, SeqEqual
      <4> QED BY <1>3, <3>3, <4>3
    <3> QED BY <1>2, <3>1, <3>5, <3>6 DEF Channel!vars
  <2> QED BY <2>1, <2>2
<1>10. CASE SyncCopyDone
  <2>1. /\ worker.pc = "sync" /\ UNCHANGED <<infer_q, published>> /\ worker'.job = worker.job
        /\ worker'.pc \in {"infer", "check"}
    BY <1>10 DEF SyncCopyDone, TypeOK
  <2>2. CASE worker'.pc = "infer"
    BY <1>7, <2>1, <2>2 DEF InWork
  <2>3. CASE worker'.pc = "check"
    BY <1>2, <1>5, <1>6, <2>1, <2>3 DEF Channel!Next, Channel!LoseOldest
  <2> QED BY <2>1, <2>2, <2>3
<1>11. CASE FinishJob
  <2>1. /\ worker.pc = "infer" /\ UNCHANGED infer_q /\ worker'.pc = "check"
        /\ published' = published \/ published' = worker.job.frame_seq
    BY <1>11 DEF FinishJob, TypeOK
  <2>2. FramesUnderWay' = Tail(FramesUnderWay)
    BY <1>5, <1>6, <2>1
  <2>3. published' = worker.job.frame_seq => Channel!Deliver
    BY <1>2, <1>5, <2>1, <2>2 DEF Channel!Deliver
  <2>4. published' = published => Channel!LoseOldest
    BY <1>2, <1>5, <2>1, <2>2 DEF Channel!LoseOldest
  <2> QED BY <2>1, <2>3, <2>4 DEF Channel!Next
<1> QED BY <1>8, <1>9, <1>10, <1>11 DEF WorkerNext

\* The pool, the copies, the queue and the worker together behave like one
\* ordered lossy channel that holds at most PoolSize frames: whatever fails and
\* whenever the program stops, no frame is delivered twice or out of order.
THEOREM PoolImplementsChannel == Spec => ImplementsChannel
<1>1. Init => Channel!Init
  <2> SUFFICES ASSUME Init PROVE Channel!Init
    OBVIOUS
  <2>1. ~released /\ InWork = <<>> /\ infer_q = <<>> /\ Considered = 0 /\ published = 0
    BY DEF Init, InWork, Considered
  <2>2. FramesOf(infer_q) \in Seq(FrameSeq) /\ Len(FramesOf(infer_q)) = 0
    BY <2>1, FramesOfTyped, EmptySeq
  <2>3. FramesUnderWay = FramesOf(infer_q)
    BY <2>1, <2>2, UnderWay, ConcatEmptySeq
  <2>4. FramesOf(infer_q) = <<>>
    BY <2>2, EmptySeq
  <2> QED BY <2>1, <2>3, <2>4 DEF Channel!Init
<1>2. IInv /\ [Next]_vars => [Channel!Next]_Channel!vars
  <2> SUFFICES ASSUME IInv, [Next]_vars PROVE [Channel!Next]_Channel!vars
    OBVIOUS
  <2>1. CASE ApplyNext
    BY <2>1, ApplyRefines
  <2>2. CASE WorkerNext
    BY <2>2, WorkerRefines
  <2>3. CASE ExecuteCopy \/ RequestStop \/ CloseQueue \/ UNCHANGED vars
    <3>1. UNCHANGED <<apply, worker, infer_q, released, published>>
      BY <2>3 DEF ExecuteCopy, RequestStop, CloseQueue, vars
    <3>2. UNCHANGED InWork /\ UNCHANGED Considered
      BY <3>1 DEF InWork, Considered
    <3> QED BY <3>1, <3>2, UnderWayKept DEF Channel!vars
  <2>4. CASE ReleasePool
    <3>1. UNCHANGED <<apply, published>> /\ FramesUnderWay' = <<>>
      BY <2>4, UnderWayNext DEF ReleasePool
    <3>2. UNCHANGED Considered
      BY <3>1 DEF Considered
    <3> QED BY <3>1, <3>2 DEF Channel!Next, Channel!TearDown
  <2> QED BY <2>1, <2>2, <2>3, <2>4 DEF Next, ShutdownNext
<1> QED BY <1>1, <1>2, InvAlways, PTL DEF Spec, ImplementsChannel, Channel!Spec
=============================================================================
