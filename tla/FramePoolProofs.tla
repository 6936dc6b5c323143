-------------------------- MODULE FramePoolProofs --------------------------
(***************************************************************************)
(* Why the warp pool cannot run dry. When capture_thread is about to       *)
(* acquire a slot, the queues hold copies of one and the same frame (each  *)
(* has room for one, and the last round put the same frame into all of     *)
(* them), the apply thread and each keeper hold at most one more, and the  *)
(* capture thread holds none: at most Cardinality(Keepers) + 2 frames are  *)
(* alive and every other slot is free.                                     *)
(***************************************************************************)
EXTENDS FramePool, FiniteSetTheorems, SequenceTheorems, TLAPS

\* All the frames in the queues of S are one frame.
Agree(S) == \A c, d \in S : \A a \in Queued(c), b \in Queued(d) : a = b

AtMostOne(F)  == \A a, b \in F : a = b
AtMostOneHeld == \A t \in Threads : AtMostOne(held[t])

\* The queues that the current round of capture has not pushed to yet.
Unpushed ==
  IF pc["capture"] = "q_blend" THEN Queues
  ELSE IF pc["capture"] = "q_seam" THEN Queues \ {"q_blend"}
  ELSE IF pc["capture"] = "cc2bright" THEN Queues \cap {"cc2bright"}
  ELSE {}

\* Between rounds the queues agree; in a round, unless the queues have been
\* closed, those pushed to hold the new frame and the others still agree.
QueuesAgree ==
  /\ pc["capture"] = "pull" => Agree(Queues)
  /\ pc["capture"] = "loop" /\ ~stopping => Agree(Queues)
  /\ pc["capture"] \in {"q_blend", "q_seam", "cc2bright", "hubs"} /\ ~closed =>
       /\ Agree(Unpushed)
       /\ \A c \in Queues \ Unpushed : Queued(c) \subseteq held["capture"]

\* A slot that is not free is the slot of a frame somebody can reach.
NoSlotLost == \A s \in Slots : s \in free \/ \E f \in Live : f.slot = s

IInv ==
  /\ TypeOK
  /\ AtMostOneHeld
  /\ closed => stopping
  /\ pc["capture"] \in {"loop", "pull"} => held["capture"] = {}
  /\ QueuesAgree
  /\ NoSlotLost

----------------------------------------------------------------------------
(* Queues and live frames *)

LEMMA LiveFrames == TypeOK => Live \subseteq Frame
<1> SUFFICES ASSUME TypeOK PROVE Live \subseteq Frame
  OBVIOUS
<1>1. ASSUME NEW t \in Threads PROVE held[t] \subseteq Frame
  BY DEF TypeOK
<1>2. ASSUME NEW c \in Queues PROVE Queued(c) \subseteq Frame
  BY ElementOfSeq DEF TypeOK, Queued
<1> QED BY <1>1, <1>2 DEF Live

LEMMA NoneOrOne == \A n \in Nat : n <= 1 => n = 0 \/ n = 1
OBVIOUS

\* A queue has room for one frame, so an open queue holds just the last push.
LEMMA PushedOne ==
  ASSUME NEW items \in Seq(Frame), Len(items) <= QueueCap, NEW f \in Frame
  PROVE  /\ Pushed(items, f) \in Seq(Frame)
         /\ Len(Pushed(items, f)) <= QueueCap
         /\ closed => Pushed(items, f) = items
         /\ ~closed => {Pushed(items, f)[i] : i \in 1 .. Len(Pushed(items, f))} = {f}
<1>1. CASE closed
  BY <1>1 DEF Pushed
<1>2. CASE ~closed
  <2>1. DropToFit(items) \in Seq(Frame) /\ Len(DropToFit(items)) = 0
    <3>1. CASE Len(items) = 0
      BY <3>1 DEF DropToFit, QueueCap
    <3>2. CASE Len(items) = 1
      <4>1. DropToFit(items) = SubSeq(items, 2, 1)
        BY <3>2 DEF DropToFit, QueueCap
      <4>2. SubSeq(items, 2, 1) = <<>>
        BY SubSeqEmpty
      <4>3. <<>> \in Seq(Frame) /\ Len(<<>>) = 0
        BY EmptySeq
      <4> QED BY <4>1, <4>2, <4>3
    <3>3. Len(items) \in Nat
      BY LenProperties
    <3>4. Len(items) = 0 \/ Len(items) = 1
      BY <3>3, NoneOrOne DEF QueueCap
    <3> QED BY <3>1, <3>2, <3>4
  <2>2. Pushed(items, f) = Append(DropToFit(items), f)
    BY <1>2 DEF Pushed
  <2>3. /\ Pushed(items, f) \in Seq(Frame)
        /\ Len(Pushed(items, f)) = 1
        /\ Pushed(items, f)[1] = f
    BY <2>1, <2>2, AppendProperties
  <2> QED BY <1>2, <2>3 DEF QueueCap
<1> QED BY <1>1, <1>2

\* Taking the frame of a queue leaves it empty.
LEMMA TakeOne ==
  ASSUME TypeOK, NEW c \in Queues, q[c] # <<>>
  PROVE  /\ Len(q[c]) = 1
         /\ Head(q[c]) = q[c][1] /\ q[c][1] \in Frame
         /\ Queued(c) = {q[c][1]}
         /\ Tail(q[c]) \in Seq(Frame) /\ Len(Tail(q[c])) = 0
<1>1. q[c] \in Seq(Frame) /\ Len(q[c]) \in Nat /\ Len(q[c]) <= 1
  <2>1. q[c] \in Seq(Frame) /\ Len(q[c]) <= 1
    BY DEF TypeOK, QueueCap
  <2> QED BY <2>1, LenProperties
<1>2. Len(q[c]) = 1
  <2>1. \A s \in Seq(Frame) : s # <<>> => Len(s) \in Nat \ {0}
    BY EmptySeq
  <2>2. Len(q[c]) # 0
    BY <1>1, <2>1
  <2> QED BY <1>1, <2>2, NoneOrOne
<1>3. q[c][1] \in Frame
  BY <1>1, <1>2, ElementOfSeq
<1>4. Head(q[c]) = q[c][1]
  BY <1>1, <1>2
<1>5. Tail(q[c]) \in Seq(Frame) /\ Len(Tail(q[c])) = 0
  BY <1>1, <1>2, HeadTailProperties
<1>6. Queued(c) = {q[c][1]}
  BY <1>2 DEF Queued
<1> QED BY <1>2, <1>3, <1>4, <1>5, <1>6

----------------------------------------------------------------------------
(* Type correctness *)

LEMMA ReturnTyped == TypeOK /\ ReturnDropped => free' \in SUBSET Slots
  BY LiveFrames DEF TypeOK, ReturnDropped, Frame

LEMMA CaptureTyped == TypeOK /\ CaptureNext => TypeOK'
<1> SUFFICES ASSUME TypeOK, CaptureNext PROVE TypeOK'
  OBVIOUS
<1>1. CASE CaptureWait
  BY <1>1 DEF TypeOK, CaptureWait, Goto, CapturePC
<1>2. CASE CaptureNothing
  BY <1>2 DEF TypeOK, CaptureNothing, Goto, CapturePC
<1>3. CASE AcquireSlot
  <2>0. /\ seq < MaxFrame /\ seq' = seq + 1
        /\ UNCHANGED <<warp, apply_stream, blended, q, stopping, closed, shown, destroyed>>
    BY <1>3 DEF AcquireSlot
  <2>1. CASE free = {} /\ UNCHANGED <<free, held, cam_stream>> /\ Goto("capture", "loop")
    <3>1. pc' \in [Threads -> CapturePC \cup ApplyPC \cup KeeperPC]
      BY <2>1 DEF Goto, TypeOK, CapturePC
    <3>2. seq' \in 0 .. MaxFrame
      BY <2>0, MaxFrameAssumption DEF TypeOK
    <3> QED BY <2>0, <2>1, <3>1, <3>2 DEF TypeOK
  <2>2. ASSUME NEW s \in free, free' = free \ {s},
               held' = [held EXCEPT !["capture"] = {[slot |-> s, seq |-> seq + 1]}],
               cam_stream' = Append(cam_stream, [slot |-> s, seq |-> seq + 1]),
               Goto("capture", "q_blend")
        PROVE  TypeOK'
    <3>1. seq + 1 \in FrameSeq /\ seq' = seq + 1
      BY <1>3, MaxFrameAssumption DEF AcquireSlot, TypeOK, FrameSeq
    <3>2. [slot |-> s, seq |-> seq + 1] \in Frame
      BY <2>2, <3>1 DEF Frame, TypeOK
    <3>3. cam_stream' \in Seq(Frame)
      BY <2>2, <3>2, AppendProperties DEF TypeOK
    <3>4. held' \in [Threads -> SUBSET Frame]
      BY <2>2, <3>2 DEF TypeOK
    <3>5. seq' \in 0 .. MaxFrame
      BY <3>1, MaxFrameAssumption DEF FrameSeq
    <3>6. pc' \in [Threads -> CapturePC \cup ApplyPC \cup KeeperPC]
      BY <2>2 DEF Goto, TypeOK, CapturePC
    <3> QED BY <2>0, <2>2, <3>3, <3>4, <3>5, <3>6 DEF TypeOK
  <2> QED BY <1>3, <2>1, <2>2 DEF AcquireSlot
<1>4. CASE PushFrame
  <2>1. PICK c \in Queues, f \in held["capture"] :
          /\ q' = [q EXCEPT ![c] = Pushed(@, f)]
          /\ Goto("capture", AfterPush[c])
    BY <1>4 DEF PushFrame
  <2>2. f \in Frame
    BY <2>1 DEF TypeOK, Threads
  <2>3. q' \in [Queues -> Seq(Frame)] /\ \A d \in Queues : Len(q'[d]) <= QueueCap
    BY <2>1, <2>2, PushedOne DEF TypeOK
  <2>4. pc' \in [Threads -> CapturePC \cup ApplyPC \cup KeeperPC]
    <3>1. c \in {"q_blend", "q_seam", "cc2bright"}
      BY KeepersAssumption DEF Queues, Feeds
    <3>2. AfterPush[c] \in CapturePC
      BY <3>1 DEF AfterPush, CapturePC
    <3> QED BY <2>1, <3>2 DEF Goto, TypeOK
  <2>5. ReturnDropped
    BY <1>4 DEF PushFrame
  <2> QED BY <1>4, <2>3, <2>4, <2>5, ReturnTyped DEF TypeOK, PushFrame
<1>5. CASE CaptureEnd
  <2>1. held' \in [Threads -> SUBSET Frame] /\ ReturnDropped
    BY <1>5 DEF CaptureEnd, TypeOK
  <2>2. pc' \in [Threads -> CapturePC \cup ApplyPC \cup KeeperPC]
    BY <1>5 DEF CaptureEnd, Goto, TypeOK, CapturePC
  <2> QED BY <1>5, <2>1, <2>2, ReturnTyped DEF TypeOK, CaptureEnd
<1> QED BY <1>1, <1>2, <1>3, <1>4, <1>5 DEF CaptureNext

LEMMA GpuTyped == TypeOK /\ GpuNext => TypeOK'
<1> SUFFICES ASSUME TypeOK, GpuNext PROVE TypeOK'
  OBVIOUS
<1>1. CASE ExecuteRemap
  <2>1. /\ Head(cam_stream) \in Frame
        /\ cam_stream' \in Seq(Frame)
    BY <1>1, HeadTailProperties DEF ExecuteRemap, TypeOK
  <2>2. Head(cam_stream).seq \in 0 .. MaxFrame
    BY <2>1 DEF Frame, FrameSeq
  <2>3. warp' \in [Slots -> 0 .. MaxFrame]
    BY <1>1, <2>2 DEF ExecuteRemap, TypeOK
  <2> QED BY <1>1, <2>1, <2>3 DEF ExecuteRemap, TypeOK
<1>2. CASE ExecuteBlend
  <2>1. /\ Head(apply_stream) \in Frame
        /\ apply_stream' \in Seq(Frame)
    BY <1>2, HeadTailProperties DEF ExecuteBlend, TypeOK
  <2>2. blended' \in 0 .. MaxFrame
    BY <1>2, <2>1 DEF ExecuteBlend, TypeOK, Frame
  <2> QED BY <1>2, <2>1, <2>2 DEF ExecuteBlend, TypeOK
<1> QED BY <1>1, <1>2 DEF GpuNext

LEMMA ApplyTyped == TypeOK /\ ApplyNext => TypeOK'
<1> SUFFICES ASSUME TypeOK, ApplyNext PROVE TypeOK'
  OBVIOUS
<1>1. CASE ApplyPop
  <2>1. q["q_blend"] # <<>> /\ ReturnDropped /\ "q_blend" \in Queues
    BY <1>1 DEF ApplyPop, Queues
  <2>2. q["q_blend"][Len(q["q_blend"])] \in Frame
    BY <2>1, TakeOne
  <2>3. held' \in [Threads -> SUBSET Frame]
    BY <1>1, <2>2 DEF ApplyPop, TypeOK
  <2>4. q' \in [Queues -> Seq(Frame)] /\ \A c \in Queues : Len(q'[c]) <= QueueCap
    <3>1. <<>> \in Seq(Frame) /\ Len(<<>>) = 0
      BY EmptySeq
    <3>2. q' = [q EXCEPT !["q_blend"] = <<>>]
      BY <1>1 DEF ApplyPop
    <3>3. q \in [Queues -> Seq(Frame)]
      BY DEF TypeOK
    <3>4. q' \in [Queues -> Seq(Frame)]
      BY <3>1, <3>2, <3>3
    <3>5. ASSUME NEW c \in Queues PROVE Len(q'[c]) <= QueueCap
      <4>1. CASE c = "q_blend"
        BY <3>1, <3>2, <3>3, <4>1 DEF QueueCap
      <4>2. CASE c # "q_blend"
        BY <3>2, <3>3, <4>2 DEF TypeOK
      <4> QED BY <4>1, <4>2
    <3> QED BY <3>4, <3>5
  <2>5. pc' \in [Threads -> CapturePC \cup ApplyPC \cup KeeperPC]
    BY <1>1 DEF ApplyPop, Goto, TypeOK, ApplyPC
  <2> QED BY <1>1, <2>1, <2>3, <2>4, <2>5, ReturnTyped DEF TypeOK, ApplyPop
<1>2. CASE ApplyBlend
  <2>1. PICK f \in held["apply"] :
          /\ apply_stream' = Append(apply_stream, f)
          /\ shown' \in {shown, f.seq}
          /\ Goto("apply", "sync") \/ Goto("apply", "recycle")
    BY <1>2 DEF ApplyBlend
  <2>2. f \in Frame
    BY <2>1 DEF TypeOK, Threads
  <2>3. apply_stream' \in Seq(Frame)
    BY <2>1, <2>2, AppendProperties DEF TypeOK
  <2>4. shown' \in 0 .. MaxFrame
    BY <2>1, <2>2 DEF TypeOK, Frame, FrameSeq
  <2>5. pc' \in [Threads -> CapturePC \cup ApplyPC \cup KeeperPC]
    BY <2>1 DEF Goto, TypeOK, ApplyPC
  <2> QED BY <1>2, <2>3, <2>4, <2>5 DEF ApplyBlend, TypeOK
<1>3. CASE ApplySync \/ ApplyEnd
  <2>1. held' \in [Threads -> SUBSET Frame] /\ ReturnDropped
    BY <1>3 DEF ApplySync, ApplyEnd, TypeOK
  <2>2. pc' \in [Threads -> CapturePC \cup ApplyPC \cup KeeperPC]
    BY <1>3 DEF ApplySync, ApplyEnd, Goto, TypeOK, ApplyPC
  <2> QED BY <1>3, <2>1, <2>2, ReturnTyped DEF TypeOK, ApplySync, ApplyEnd
<1>4. CASE ApplyShow \/ ApplyExit
  <2>1. shown' \in 0 .. MaxFrame
    BY <1>4, MaxFrameAssumption DEF ApplyShow, ApplyExit, TypeOK
  <2>2. pc' \in [Threads -> CapturePC \cup ApplyPC \cup KeeperPC]
    BY <1>4 DEF ApplyShow, ApplyExit, Goto, TypeOK, ApplyPC
  <2> QED BY <1>4, <2>1, <2>2 DEF TypeOK, ApplyShow, ApplyExit
<1> QED BY <1>1, <1>2, <1>3, <1>4 DEF ApplyNext

LEMMA KeeperTyped == TypeOK /\ KeeperNext => TypeOK'
<1> SUFFICES ASSUME TypeOK, NEW t \in Keepers,
                    KeeperLoop(t) \/ KeepFrame(t) \/ KeeperExit(t)
             PROVE  TypeOK'
  BY DEF KeeperNext
<1>0. t \in Threads /\ Feeds[t] \in Queues
  BY DEF Threads, Queues
<1>1. pc' \in [Threads -> CapturePC \cup ApplyPC \cup KeeperPC]
  BY <1>0 DEF KeeperLoop, KeepFrame, KeeperExit, Goto, TypeOK, KeeperPC
<1>2. CASE KeeperLoop(t)
  BY <1>1, <1>2 DEF KeeperLoop, TypeOK
<1>3. CASE KeepFrame(t)
  <2>1. Head(q[Feeds[t]]) \in Frame /\ Tail(q[Feeds[t]]) \in Seq(Frame) /\ Len(Tail(q[Feeds[t]])) = 0
    BY <1>0, <1>3, TakeOne DEF KeepFrame
  <2>2. held' \in [Threads -> SUBSET Frame]
    BY <1>3, <2>1 DEF KeepFrame, TypeOK
  <2>3. q' \in [Queues -> Seq(Frame)] /\ \A c \in Queues : Len(q'[c]) <= QueueCap
    BY <1>0, <1>3, <2>1 DEF KeepFrame, TypeOK, QueueCap
  <2>4. ReturnDropped
    BY <1>3 DEF KeepFrame
  <2> QED BY <1>1, <1>3, <2>2, <2>3, <2>4, ReturnTyped DEF KeepFrame, TypeOK
<1>4. CASE KeeperExit(t)
  <2>1. held' \in [Threads -> SUBSET Frame] /\ ReturnDropped
    BY <1>4 DEF KeeperExit, TypeOK
  <2> QED BY <1>1, <1>4, <2>1, ReturnTyped DEF KeeperExit, TypeOK
<1> QED BY <1>2, <1>3, <1>4

LEMMA ShutdownTyped == TypeOK /\ ShutdownNext => TypeOK'
<1> SUFFICES ASSUME TypeOK, ShutdownNext PROVE TypeOK'
  OBVIOUS
<1>1. CASE RequestStop \/ CloseQueues \/ DestroyPool
  BY <1>1 DEF RequestStop, CloseQueues, DestroyPool, TypeOK
<1>2. CASE DestroyQueues
  <2>1. q' \in [Queues -> Seq(Frame)] /\ \A c \in Queues : Len(q'[c]) <= QueueCap
    BY <1>2, EmptySeq DEF DestroyQueues, QueueCap
  <2>2. ReturnDropped
    BY <1>2 DEF DestroyQueues
  <2> QED BY <1>2, <2>1, <2>2, ReturnTyped DEF DestroyQueues, TypeOK
<1> QED BY <1>1, <1>2 DEF ShutdownNext

LEMMA InitTyped == Init => TypeOK
<1> SUFFICES ASSUME Init PROVE TypeOK
  OBVIOUS
<1>1. <<>> \in Seq(Frame) /\ Len(<<>>) = 0
  BY EmptySeq
<1>2. /\ q \in [Queues -> Seq(Frame)]
      /\ \A c \in Queues : Len(q[c]) <= QueueCap
  BY <1>1 DEF Init, QueueCap
<1>3. 0 \in 0 .. MaxFrame
  BY MaxFrameAssumption
<1> QED BY <1>1, <1>2, <1>3 DEF Init, TypeOK, CapturePC

LEMMA StepTyped == TypeOK /\ [Next]_vars => TypeOK'
<1> SUFFICES ASSUME TypeOK, [Next]_vars PROVE TypeOK'
  OBVIOUS
<1>1. CASE UNCHANGED vars
  BY <1>1 DEF vars, TypeOK
<1> QED BY <1>1, CaptureTyped, GpuTyped, ApplyTyped, KeeperTyped, ShutdownTyped DEF Next

\* Every state is well typed and no queue is ever longer than its capacity.
THEOREM TypeCorrect == Spec => []TypeOK
BY InitTyped, StepTyped, PTL DEF Spec

----------------------------------------------------------------------------
(* The invariant step by step *)

\* ~FrameItem loses no slot.
LEMMA ReturnKeeps == NoSlotLost /\ ReturnDropped => NoSlotLost'
<1> SUFFICES ASSUME NoSlotLost, ReturnDropped, NEW s \in Slots
             PROVE  s \in free' \/ \E f \in Live' : f.slot = s
  BY DEF NoSlotLost
<1>1. CASE s \in free
  BY <1>1 DEF ReturnDropped
<1>2. CASE s \notin free
  <2>1. PICK f \in Live : f.slot = s
    BY <1>2 DEF NoSlotLost
  <2>2. CASE f \in Live'
    BY <2>1, <2>2
  <2>3. CASE f \notin Live'
    BY <2>1, <2>3 DEF ReturnDropped
  <2> QED BY <2>2, <2>3
<1> QED BY <1>1, <1>2

\* The conjuncts of IInv beside the type.
Rest ==
  /\ AtMostOneHeld
  /\ closed => stopping
  /\ pc["capture"] \in {"loop", "pull"} => held["capture"] = {}
  /\ QueuesAgree

\* A step of anybody but the capture thread only takes frames out of queues.
OnlyTakes ==
  /\ pc'["capture"] = pc["capture"]
  /\ held'["capture"] = held["capture"]
  /\ \A c \in Queues : Queued(c)' \subseteq Queued(c)
  /\ stopping => stopping'
  /\ closed => closed'
  /\ closed' => stopping'
  /\ AtMostOneHeld'

LEMMA TakingKeepsRest == Rest /\ OnlyTakes => Rest'
<1> SUFFICES ASSUME Rest, OnlyTakes PROVE Rest'
  OBVIOUS
<1>1. Unpushed' = Unpushed /\ Unpushed \subseteq Queues
  BY DEF OnlyTakes, Unpushed
<1>2. ASSUME NEW S, S \subseteq Queues, Agree(S) PROVE Agree(S)'
  BY <1>2 DEF Agree, OnlyTakes
<1>3. /\ Agree(Queues) => Agree(Queues)'
      /\ Agree(Unpushed) => Agree(Unpushed)'
  BY <1>1, <1>2 DEF Agree
<1>4. \A c \in Queues \ Unpushed :
        Queued(c) \subseteq held["capture"] => Queued(c)' \subseteq held'["capture"]
  BY DEF OnlyTakes
<1>5. QueuesAgree'
  BY <1>1, <1>3, <1>4 DEF Rest, OnlyTakes, QueuesAgree
<1> QED BY <1>5 DEF Rest, OnlyTakes

\* A step that returns slots as ~FrameItem does, or leaves them all alone.
KeepsSlots == ReturnDropped \/ (free' = free /\ Live' = Live)

LEMMA SlotsKept == NoSlotLost /\ KeepsSlots => NoSlotLost'
BY ReturnKeeps DEF KeepsSlots, NoSlotLost

LEMMA SameHoldersSameLive == UNCHANGED <<q, held>> => Live' = Live
BY DEF Live, Queued

LEMMA GpuStep == Rest /\ GpuNext => OnlyTakes /\ KeepsSlots
<1> SUFFICES ASSUME Rest, GpuNext PROVE OnlyTakes /\ KeepsSlots
  OBVIOUS
<1>1. UNCHANGED <<q, held, pc, stopping, closed, free>>
  BY DEF GpuNext, ExecuteRemap, ExecuteBlend
<1>2. OnlyTakes
  BY <1>1 DEF OnlyTakes, Rest, AtMostOneHeld, Queued
<1> QED BY <1>1, <1>2, SameHoldersSameLive DEF KeepsSlots

LEMMA FewFrames == AtMostOne({}) /\ \A f : AtMostOne({f})
BY DEF AtMostOne

\* Who changes what a thread holds to at most one frame keeps AtMostOneHeld.
LEMMA HoldsAtMostOne ==
  ASSUME AtMostOneHeld, NEW t \in Threads, NEW F, AtMostOne(F),
         held' = [held EXCEPT ![t] = F], held \in [Threads -> SUBSET Frame]
  PROVE  AtMostOneHeld'
<1> SUFFICES ASSUME NEW u \in Threads PROVE AtMostOne(held'[u])
  BY DEF AtMostOneHeld, AtMostOne
<1>1. held'[u] = F \/ held'[u] = held[u]
  OBVIOUS
<1> QED BY <1>1 DEF AtMostOneHeld

LEMMA ApplyStep == TypeOK /\ Rest /\ ApplyNext => OnlyTakes /\ KeepsSlots
<1> SUFFICES ASSUME TypeOK, Rest, ApplyNext PROVE OnlyTakes /\ KeepsSlots
  OBVIOUS
<1>1. /\ "apply" \in Threads /\ "capture" \in Threads
      /\ held \in [Threads -> SUBSET Frame]
      /\ pc \in [Threads -> CapturePC \cup ApplyPC \cup KeeperPC]
      /\ q \in [Queues -> Seq(Frame)]
  BY DEF Threads, TypeOK
<1>2. UNCHANGED <<stopping, closed>>
  BY DEF ApplyNext, ApplyPop, ApplyBlend, ApplySync, ApplyShow, ApplyEnd, ApplyExit
<1>3. pc'["capture"] = pc["capture"]
  BY <1>1 DEF ApplyNext, ApplyPop, ApplyBlend, ApplySync, ApplyShow, ApplyEnd, ApplyExit, Goto
<1>4. \/ UNCHANGED held
      \/ held' = [held EXCEPT !["apply"] = {}]
      \/ held' = [held EXCEPT !["apply"] = {q["q_blend"][Len(q["q_blend"])]}]
  BY DEF ApplyNext, ApplyPop, ApplyBlend, ApplySync, ApplyShow, ApplyEnd, ApplyExit
<1>5. AtMostOneHeld' /\ held'["capture"] = held["capture"]
  <2>1. CASE UNCHANGED held
    BY <2>1 DEF Rest, AtMostOneHeld
  <2>2. ASSUME NEW F, AtMostOne(F), held' = [held EXCEPT !["apply"] = F]
        PROVE  AtMostOneHeld' /\ held'["capture"] = held["capture"]
    BY <1>1, <2>2, HoldsAtMostOne DEF Rest
  <2> QED BY <1>4, <2>1, <2>2, FewFrames
<1>6. UNCHANGED q \/ q' = [q EXCEPT !["q_blend"] = <<>>]
  BY DEF ApplyNext, ApplyPop, ApplyBlend, ApplySync, ApplyShow, ApplyEnd, ApplyExit
<1>7. ASSUME NEW c \in Queues PROVE Queued(c)' \subseteq Queued(c)
  <2>1. CASE q'[c] = q[c]
    BY <2>1 DEF Queued
  <2>2. CASE q'[c] = <<>>
    BY <2>2 DEF Queued
  <2> QED BY <1>1, <1>6, <2>1, <2>2
<1>8. KeepsSlots
  BY SameHoldersSameLive
  DEF KeepsSlots, ApplyNext, ApplyPop, ApplyBlend, ApplySync, ApplyShow, ApplyEnd, ApplyExit
<1> QED BY <1>2, <1>3, <1>5, <1>7, <1>8 DEF OnlyTakes, Rest

LEMMA KeeperStep == TypeOK /\ Rest /\ KeeperNext => OnlyTakes /\ KeepsSlots
<1> SUFFICES ASSUME TypeOK, Rest, NEW t \in Keepers,
                    KeeperLoop(t) \/ KeepFrame(t) \/ KeeperExit(t)
             PROVE  OnlyTakes /\ KeepsSlots
  BY DEF KeeperNext
<1>1. /\ t \in Threads /\ "capture" \in Threads /\ t # "capture"
      /\ Feeds[t] \in Queues
      /\ held \in [Threads -> SUBSET Frame]
      /\ pc \in [Threads -> CapturePC \cup ApplyPC \cup KeeperPC]
      /\ q \in [Queues -> Seq(Frame)]
  BY KeepersAssumption DEF Threads, TypeOK, Queues
<1>2. UNCHANGED <<stopping, closed>>
  BY DEF KeeperLoop, KeepFrame, KeeperExit
<1>3. pc'["capture"] = pc["capture"]
  BY <1>1 DEF KeeperLoop, KeepFrame, KeeperExit, Goto
<1>4. \/ UNCHANGED held
      \/ held' = [held EXCEPT ![t] = {}]
      \/ held' = [held EXCEPT ![t] = {Head(q[Feeds[t]])}]
  BY DEF KeeperLoop, KeepFrame, KeeperExit
<1>5. AtMostOneHeld' /\ held'["capture"] = held["capture"]
  <2>1. CASE UNCHANGED held
    BY <2>1 DEF Rest, AtMostOneHeld
  <2>2. ASSUME NEW F, AtMostOne(F), held' = [held EXCEPT ![t] = F]
        PROVE  AtMostOneHeld' /\ held'["capture"] = held["capture"]
    BY <1>1, <2>2, HoldsAtMostOne DEF Rest
  <2> QED BY <1>4, <2>1, <2>2, FewFrames
<1>6. UNCHANGED q \/ (q[Feeds[t]] # <<>> /\ q' = [q EXCEPT ![Feeds[t]] = Tail(@)])
  BY DEF KeeperLoop, KeepFrame, KeeperExit
<1>7. ASSUME NEW c \in Queues PROVE Queued(c)' \subseteq Queued(c)
  <2>1. CASE q'[c] = q[c]
    BY <2>1 DEF Queued
  <2>2. CASE q[c] # <<>> /\ q'[c] = Tail(q[c])
    BY <2>2, TakeOne DEF Queued
  <2> QED BY <1>1, <1>6, <2>1, <2>2
<1>8. KeepsSlots
  BY SameHoldersSameLive DEF KeepsSlots, KeeperLoop, KeepFrame, KeeperExit
<1> QED BY <1>2, <1>3, <1>5, <1>7, <1>8 DEF OnlyTakes, Rest

LEMMA ShutdownStep == TypeOK /\ Rest /\ ShutdownNext => OnlyTakes /\ KeepsSlots
<1> SUFFICES ASSUME TypeOK, Rest, ShutdownNext PROVE OnlyTakes /\ KeepsSlots
  OBVIOUS
<1>1. UNCHANGED <<held, pc>>
  BY DEF ShutdownNext, RequestStop, CloseQueues, DestroyPool, DestroyQueues
<1>2. (stopping => stopping') /\ (closed => closed') /\ (closed' => stopping')
  BY DEF ShutdownNext, RequestStop, CloseQueues, DestroyPool, DestroyQueues, Rest
<1>3. UNCHANGED q \/ q' = [c \in Queues |-> <<>>]
  BY DEF ShutdownNext, RequestStop, CloseQueues, DestroyPool, DestroyQueues
<1>4. ASSUME NEW c \in Queues PROVE Queued(c)' \subseteq Queued(c)
  <2>1. CASE q'[c] = q[c]
    BY <2>1 DEF Queued
  <2>2. CASE q'[c] = <<>>
    BY <2>2 DEF Queued
  <2> QED BY <1>3, <2>1, <2>2
<1>5. AtMostOneHeld'
  BY <1>1 DEF Rest, AtMostOneHeld
<1>6. KeepsSlots
  BY SameHoldersSameLive
  DEF KeepsSlots, ShutdownNext, RequestStop, CloseQueues, DestroyPool, DestroyQueues
<1> QED BY <1>1, <1>2, <1>4, <1>5, <1>6 DEF OnlyTakes

----------------------------------------------------------------------------
(* The capture thread *)

LEMMA CaptureWaitStep == TypeOK /\ Rest /\ (CaptureWait \/ CaptureNothing) => Rest' /\ KeepsSlots
<1> SUFFICES ASSUME TypeOK, Rest, CaptureWait \/ CaptureNothing PROVE Rest' /\ KeepsSlots
  OBVIOUS
<1>1. UNCHANGED <<q, held, stopping, closed, free>>
  BY DEF CaptureWait, CaptureNothing
<1>2. KeepsSlots
  BY <1>1, SameHoldersSameLive DEF KeepsSlots
<1>3. "capture" \in Threads /\ pc \in [Threads -> CapturePC \cup ApplyPC \cup KeeperPC]
  BY DEF Threads, TypeOK
<1>4. Agree(Queues)' <=> Agree(Queues)
  BY <1>1 DEF Agree, Queued
<1>5. \/ pc["capture"] = "loop" /\ stopping /\ pc'["capture"] = "exited"
      \/ pc["capture"] = "loop" /\ ~stopping /\ pc'["capture"] = "pull"
      \/ pc["capture"] = "pull" /\ pc'["capture"] = "loop"
  BY <1>3 DEF CaptureWait, CaptureNothing, Goto
<1>6. QueuesAgree'
  BY <1>1, <1>4, <1>5 DEF Rest, QueuesAgree
<1> QED BY <1>1, <1>2, <1>5, <1>6 DEF Rest, AtMostOneHeld

LEMMA AcquireStep == TypeOK /\ Rest /\ NoSlotLost /\ AcquireSlot => Rest' /\ NoSlotLost'
<1> SUFFICES ASSUME TypeOK, Rest, NoSlotLost, AcquireSlot PROVE Rest' /\ NoSlotLost'
  OBVIOUS
<1>1. UNCHANGED <<q, stopping, closed>> /\ pc["capture"] = "pull"
  BY DEF AcquireSlot
<1>2. /\ "capture" \in Threads /\ pc \in [Threads -> CapturePC \cup ApplyPC \cup KeeperPC]
      /\ held \in [Threads -> SUBSET Frame]
  BY DEF Threads, TypeOK
<1>3. Agree(Queues)' /\ held["capture"] = {}
  BY <1>1 DEF Rest, QueuesAgree, Agree, Queued
<1>4. CASE free = {} /\ UNCHANGED <<free, held, cam_stream>> /\ Goto("capture", "loop")
  <2>1. pc'["capture"] = "loop"
    BY <1>2, <1>4 DEF Goto
  <2>2. NoSlotLost'
    BY <1>1, <1>4, SlotsKept, SameHoldersSameLive DEF KeepsSlots
  <2> QED BY <1>1, <1>3, <1>4, <2>1, <2>2 DEF Rest, QueuesAgree, AtMostOneHeld
<1>5. ASSUME NEW s \in free, free' = free \ {s}, Goto("capture", "q_blend"),
             held' = [held EXCEPT !["capture"] = {[slot |-> s, seq |-> seq + 1]}]
      PROVE  Rest' /\ NoSlotLost'
  <2>1. pc'["capture"] = "q_blend"
    BY <1>2, <1>5 DEF Goto
  <2>2. AtMostOneHeld'
    <3>1. AtMostOne({[slot |-> s, seq |-> seq + 1]})
      BY FewFrames
    <3> QED BY <1>2, <1>5, <3>1, HoldsAtMostOne DEF Rest
  <2>3. Unpushed' = Queues
    BY <2>1 DEF Unpushed
  <2>4. Live \subseteq Live' /\ [slot |-> s, seq |-> seq + 1] \in Live'
    <3>1. [slot |-> s, seq |-> seq + 1] \in held'["capture"]
      BY <1>2, <1>5
    <3>2. \A t \in Threads : held[t] \subseteq held'[t]
      BY <1>2, <1>3, <1>5
    <3>3. \A c \in Queues : Queued(c)' = Queued(c)
      BY <1>1 DEF Queued
    <3> QED BY <1>2, <3>1, <3>2, <3>3 DEF Live
  <2>5. NoSlotLost'
    <3> SUFFICES ASSUME NEW r \in Slots PROVE r \in free' \/ \E f \in Live' : f.slot = r
      BY DEF NoSlotLost
    <3>1. CASE r = s
      BY <2>4, <3>1
    <3>2. CASE r # s
      BY <1>5, <2>4, <3>2 DEF NoSlotLost
    <3> QED BY <3>1, <3>2
  <2>6. QueuesAgree'
    BY <1>3, <2>1, <2>3 DEF QueuesAgree
  <2> QED BY <1>1, <2>1, <2>2, <2>5, <2>6 DEF Rest
<1> QED BY <1>4, <1>5 DEF AcquireSlot

LEMMA PushStep == TypeOK /\ Rest /\ PushFrame => Rest' /\ KeepsSlots
<1> SUFFICES ASSUME TypeOK, Rest, PushFrame PROVE Rest' /\ KeepsSlots
  OBVIOUS
<1>1. UNCHANGED <<held, stopping, closed>> /\ KeepsSlots
  BY DEF PushFrame, KeepsSlots
<1>2. PICK c \in Queues, f \in held["capture"] :
        /\ pc["capture"] = c
        /\ q' = [q EXCEPT ![c] = Pushed(@, f)]
        /\ Goto("capture", AfterPush[c])
  BY DEF PushFrame
<1>3. /\ "capture" \in Threads /\ pc \in [Threads -> CapturePC \cup ApplyPC \cup KeeperPC]
      /\ held \in [Threads -> SUBSET Frame] /\ q \in [Queues -> Seq(Frame)]
      /\ Len(q[c]) <= QueueCap
  BY DEF Threads, TypeOK
<1>4. c \in {"q_blend", "q_seam", "cc2bright"} /\ {"q_blend", "q_seam"} \subseteq Queues
  BY KeepersAssumption DEF Queues, Feeds
<1>5. pc'["capture"] = AfterPush[c]
  BY <1>2, <1>3 DEF Goto
<1>6. /\ pc'["capture"] \in {"q_seam", "cc2bright", "hubs"}
      /\ Unpushed' \subseteq Unpushed \ {c}
      /\ Unpushed \subseteq Unpushed' \cup {c}
  <2>1. CASE c = "q_blend"
    BY <1>2, <1>5, <2>1 DEF AfterPush, Unpushed
  <2>2. CASE c = "q_seam"
    BY <1>2, <1>4, <1>5, <2>2, KeepersAssumption DEF AfterPush, Unpushed, Queues, Feeds
  <2>3. CASE c = "cc2bright"
    BY <1>2, <1>5, <2>3 DEF AfterPush, Unpushed
  <2> QED BY <1>4, <2>1, <2>2, <2>3
<1>7. ASSUME ~closed PROVE Agree(Unpushed') /\ TRUE
  BY <1>2, <1>4, <1>6, <1>7 DEF Rest, QueuesAgree, Agree
<1>8. QueuesAgree'
  <2> SUFFICES ASSUME ~closed
               PROVE  /\ Agree(Unpushed)'
                      /\ \A d \in Queues \ Unpushed' : Queued(d)' \subseteq held'["capture"]
    BY <1>1, <1>6 DEF QueuesAgree
  <2>1. \A d \in Queues \ {c} : Queued(d)' = Queued(d)
    BY <1>2, <1>3 DEF Queued
  <2>2. Queued(c)' = {f}
    <3>1. q'[c] = Pushed(q[c], f) /\ f \in Frame
      BY <1>2, <1>3
    <3>2. q[c] \in Seq(Frame) /\ Len(q[c]) <= QueueCap
      BY <1>3
    <3>3. {Pushed(q[c], f)[i] : i \in 1 .. Len(Pushed(q[c], f))} = {f}
      BY <3>1, <3>2, PushedOne
    <3> QED BY <3>1, <3>3 DEF Queued
  <2>3. Agree(Unpushed)'
    BY <1>6, <1>7, <2>1 DEF Agree, Unpushed
  <2>4. ASSUME NEW d \in Queues \ Unpushed' PROVE Queued(d)' \subseteq held'["capture"]
    <3>1. CASE d = c
      BY <1>1, <1>2, <2>2, <3>1
    <3>2. CASE d # c
      BY <1>1, <1>2, <1>4, <1>6, <2>1, <3>2 DEF Rest, QueuesAgree
    <3> QED BY <3>1, <3>2
  <2> QED BY <2>3, <2>4
<1> QED BY <1>1, <1>6, <1>8 DEF Rest, AtMostOneHeld

LEMMA EndStep == TypeOK /\ Rest /\ CaptureEnd => Rest' /\ KeepsSlots
<1> SUFFICES ASSUME TypeOK, Rest, CaptureEnd PROVE Rest' /\ KeepsSlots
  OBVIOUS
<1>1. /\ "capture" \in Threads /\ pc \in [Threads -> CapturePC \cup ApplyPC \cup KeeperPC]
      /\ held \in [Threads -> SUBSET Frame]
  BY DEF Threads, TypeOK
<1>2. /\ UNCHANGED <<q, stopping, closed>> /\ KeepsSlots
      /\ pc["capture"] = "hubs" /\ pc'["capture"] = "loop"
      /\ held' = [held EXCEPT !["capture"] = {}]
  BY <1>1 DEF CaptureEnd, KeepsSlots, Goto
<1>3. AtMostOneHeld' /\ held'["capture"] = {}
  BY <1>1, <1>2, HoldsAtMostOne, FewFrames DEF Rest
<1>4. ASSUME ~stopping PROVE Agree(Queues)'
  <2>1. \A c \in Queues : Queued(c) \subseteq held["capture"]
    BY <1>2, <1>4 DEF Rest, QueuesAgree, Unpushed
  <2>2. \A c \in Queues : Queued(c)' = Queued(c)
    BY <1>2 DEF Queued
  <2> QED BY <1>1, <2>1, <2>2 DEF Agree, Rest, AtMostOneHeld, AtMostOne
<1>5. QueuesAgree'
  BY <1>2, <1>4 DEF QueuesAgree
<1> QED BY <1>2, <1>3, <1>5 DEF Rest

----------------------------------------------------------------------------
(* The invariant *)

LEMMA InitInv == Init => IInv
<1> SUFFICES ASSUME Init PROVE IInv
  OBVIOUS
<1>1. TypeOK
  BY InitTyped
<1>2. \A c \in Queues : Queued(c) = {}
  <2>1. ASSUME NEW c \in Queues PROVE q[c] = <<>>
    BY DEF Init
  <2> QED BY <2>1, EmptySeq DEF Queued
<1>3. pc["capture"] = "loop" /\ held["capture"] = {}
  BY DEF Init, Threads
<1>4. AtMostOneHeld
  BY DEF Init, AtMostOneHeld, AtMostOne
<1>5. QueuesAgree
  BY <1>2, <1>3 DEF QueuesAgree, Agree
<1>6. NoSlotLost
  BY DEF Init, NoSlotLost
<1> QED BY <1>1, <1>3, <1>4, <1>5, <1>6 DEF IInv, Init

LEMMA CaptureStep == TypeOK /\ Rest /\ NoSlotLost /\ CaptureNext => Rest' /\ NoSlotLost'
BY CaptureWaitStep, AcquireStep, PushStep, EndStep, SlotsKept DEF CaptureNext

LEMMA OthersStep ==
  TypeOK /\ Rest /\ (GpuNext \/ ApplyNext \/ KeeperNext \/ ShutdownNext)
    => OnlyTakes /\ KeepsSlots
BY GpuStep, ApplyStep, KeeperStep, ShutdownStep

LEMMA StepInv == IInv /\ [Next]_vars => IInv'
<1> SUFFICES ASSUME IInv, [Next]_vars PROVE IInv'
  OBVIOUS
<1>1. TypeOK /\ Rest /\ NoSlotLost
  BY DEF IInv, Rest
<1>2. TypeOK'
  BY <1>1, StepTyped
<1>3. Rest' /\ NoSlotLost'
  <2>1. CASE UNCHANGED vars
    <3>1. UNCHANGED <<q, held, pc, stopping, closed, free>>
      BY <2>1 DEF vars
    <3>2. OnlyTakes
      BY <1>1, <3>1 DEF OnlyTakes, Rest, AtMostOneHeld, AtMostOne, Queued
    <3>3. KeepsSlots
      BY <3>1, SameHoldersSameLive DEF KeepsSlots
    <3> QED BY <1>1, <3>2, <3>3, TakingKeepsRest, SlotsKept
  <2>2. CASE CaptureNext
    BY <1>1, <2>2, CaptureStep
  <2>3. CASE GpuNext \/ ApplyNext \/ KeeperNext \/ ShutdownNext
    BY <1>1, <2>3, OthersStep, TakingKeepsRest, SlotsKept
  <2> QED BY <2>1, <2>2, <2>3 DEF Next
<1> QED BY <1>2, <1>3 DEF IInv, Rest

----------------------------------------------------------------------------
(* Counting: who pins a slot *)

Owners == (Keepers \cup {"apply"}) \cup {"queues"}

Pins(o, s) ==
  IF o = "queues" THEN \E c \in Queues : \E f \in Queued(c) : f.slot = s
  ELSE \E f \in held[o] : f.slot = s

LEMMA FewOwners ==
  /\ IsFiniteSet(Owners)
  /\ Cardinality(Owners) < Cardinality(Slots)
<1>1. IsFiniteSet(Keepers) /\ Cardinality(Keepers) \in Nat
  <2>1. IsFiniteSet({"seam"} \cup {"bright"})
    BY FS_Singleton, FS_AddElement
  <2>2. Keepers \in SUBSET ({"seam"} \cup {"bright"})
    BY KeepersAssumption
  <2>3. IsFiniteSet(Keepers)
    BY <2>1, <2>2, FS_Subset
  <2> QED BY <2>3, FS_CardinalityType
<1>2. /\ IsFiniteSet(Keepers \cup {"apply"})
      /\ Cardinality(Keepers \cup {"apply"}) \in {Cardinality(Keepers), Cardinality(Keepers) + 1}
  BY <1>1, FS_AddElement
<1>3. /\ IsFiniteSet(Owners)
      /\ Cardinality(Owners) \in {Cardinality(Keepers \cup {"apply"}),
                                  Cardinality(Keepers \cup {"apply"}) + 1}
  BY <1>2, FS_AddElement DEF Owners
<1>4. Cardinality(Slots) \in Nat /\ Cardinality(Slots) >= Cardinality(Keepers) + 3
  BY SlotsAssumption, FS_CardinalityType
<1> QED BY <1>1, <1>2, <1>3, <1>4

LEMMA InvGivesSlot == IInv => PoolNeverExhausted
<1> SUFFICES ASSUME IInv, pc["capture"] = "pull", free = {} PROVE FALSE
  BY DEF PoolNeverExhausted
<1>1. held["capture"] = {} /\ Agree(Queues) /\ AtMostOneHeld
  BY DEF IInv, QueuesAgree
<1>2. ASSUME NEW s \in Slots PROVE \E o \in Owners : Pins(o, s)
  <2>1. PICK f \in Live : f.slot = s
    BY DEF IInv, NoSlotLost
  <2>2. CASE \E t \in Threads : f \in held[t]
    <3>1. PICK t \in Threads : f \in held[t]
      BY <2>2
    <3>2. t # "capture"
      BY <1>1, <3>1
    <3>3. t \in Keepers \cup {"apply"} /\ t # "queues"
      BY <3>2, KeepersAssumption DEF Threads
    <3> QED BY <2>1, <3>1, <3>3 DEF Owners, Pins
  <2>3. CASE \E c \in Queues : f \in Queued(c)
    <3>1. Pins("queues", s)
      BY <2>1, <2>3 DEF Pins
    <3> QED BY <3>1 DEF Owners
  <2> QED BY <2>2, <2>3 DEF Live
<1>3. ASSUME NEW o \in Owners, NEW r \in Slots, NEW s \in Slots, Pins(o, r), Pins(o, s)
      PROVE  r = s
  <2>1. CASE o = "queues"
    BY <1>1, <1>3, <2>1 DEF Pins, Agree
  <2>2. CASE o # "queues"
    <3>1. o \in Threads
      BY <2>2 DEF Owners, Threads
    <3> QED BY <1>1, <1>3, <2>2, <3>1 DEF Pins, AtMostOneHeld, AtMostOne
  <2> QED BY <2>1, <2>2
<1> DEFINE owner == [s \in Slots |-> CHOOSE o \in Owners : Pins(o, s)]
<1>4. owner \in [Slots -> Owners] /\ \A s \in Slots : Pins(owner[s], s)
  BY <1>2
<1> HIDE DEF owner
<1>5. \E r, s \in Slots : r # s /\ owner[r] = owner[s]
  BY <1>4, FewOwners, SlotsAssumption, FS_PigeonHole
<1> QED BY <1>3, <1>4, <1>5

\* Whatever the number of samples, the lag of the GPU and the speed of the
\* consumers: when capture_thread pulls a sample, warp_pool has a free slot.
THEOREM PoolAlwaysHasASlot == Spec => []PoolNeverExhausted
<1>1. Init => IInv
  BY InitInv
<1>2. IInv /\ [Next]_vars => IInv'
  BY StepInv
<1>3. IInv => PoolNeverExhausted
  BY InvGivesSlot
<1> QED BY <1>1, <1>2, <1>3, PTL DEF Spec

----------------------------------------------------------------------------
(* What a live frame's slot holds. A remap into a slot is queued when the slot
   is free, so the last remap queued into the slot of a live frame is that
   frame's own, and the camera's stream runs them in order. *)

\* A live frame owns its slot and was numbered already.
OneOwner ==
  /\ \A f \in Live : f.slot \notin free /\ f.seq <= seq
  /\ \A f, g \in Live : f.slot = g.slot => f = g

\* No remap into a live frame's slot is queued behind the frame's own.
InOrder ==
  \A i \in 1 .. Len(cam_stream) :
    /\ cam_stream[i].seq <= seq
    /\ \A f \in Live :
         /\ cam_stream[i].seq = f.seq => cam_stream[i] = f
         /\ cam_stream[i].slot = f.slot =>
              \E j \in i .. Len(cam_stream) : cam_stream[j] = f

\* The last blend queued for a picture that is to be pushed reads the frame
\* the apply thread still holds.
BlendInOrder ==
  /\ pc["apply"] = "sync" =>
       \E f \in held["apply"] :
         /\ shown = f.seq
         /\ apply_stream = <<>> => blended = f.seq
         /\ apply_stream # <<>> => apply_stream[Len(apply_stream)] = f
  /\ pc["apply"] = "show" => apply_stream = <<>> /\ blended = shown

ImageInv == OneOwner /\ InOrder /\ FramesKeepTheirImage

LEMMA LiveWithin ==
  ASSUME \A t \in Threads : held'[t] \subseteq Live,
         \A c \in Queues : Queued(c)' \subseteq Live
  PROVE  Live' \subseteq Live
BY DEF Live

LEMMA HeldIsLive ==
  /\ \A t \in Threads : held[t] \subseteq Live
  /\ \A c \in Queues : Queued(c) \subseteq Live
BY DEF Live

\* A step that makes no frame, queues no remap and runs none.
QuietStep == Live' \subseteq Live /\ KeepsSlots /\ UNCHANGED <<cam_stream, warp, seq>>

LEMMA QuietKeepsImages == ImageInv /\ QuietStep => ImageInv'
<1> SUFFICES ASSUME ImageInv, QuietStep PROVE ImageInv'
  OBVIOUS
<1>1. OneOwner'
  <2>1. ASSUME NEW f \in Live' PROVE f.slot \notin free'
    <3>1. f \in Live /\ f.slot \notin free
      BY <2>1 DEF QuietStep, ImageInv, OneOwner
    <3>2. \A g \in Live \ Live' : g.slot # f.slot
      BY <2>1, <3>1 DEF ImageInv, OneOwner
    <3> QED BY <3>1, <3>2 DEF QuietStep, KeepsSlots, ReturnDropped
  <2> QED BY <2>1 DEF QuietStep, ImageInv, OneOwner
<1>2. InOrder'
  BY DEF QuietStep, ImageInv, InOrder
<1>3. FramesKeepTheirImage'
  BY DEF QuietStep, ImageInv, FramesKeepTheirImage, RemapDone
<1> QED BY <1>1, <1>2, <1>3 DEF ImageInv

LEMMA ApplyQuiet == TypeOK /\ ApplyNext => QuietStep
<1> SUFFICES ASSUME TypeOK, ApplyNext PROVE QuietStep
  OBVIOUS
<1>1. /\ held \in [Threads -> SUBSET Frame] /\ q \in [Queues -> Seq(Frame)]
      /\ "apply" \in Threads /\ "q_blend" \in Queues
  BY DEF TypeOK, Threads, Queues
<1>2. KeepsSlots /\ UNCHANGED <<cam_stream, warp, seq>>
  BY SameHoldersSameLive
  DEF KeepsSlots, ApplyNext, ApplyPop, ApplyBlend, ApplySync, ApplyShow, ApplyEnd, ApplyExit
<1>3. ASSUME NEW c \in Queues PROVE Queued(c)' \subseteq Live
  <2>1. UNCHANGED q \/ q' = [q EXCEPT !["q_blend"] = <<>>]
    BY DEF ApplyNext, ApplyPop, ApplyBlend, ApplySync, ApplyShow, ApplyEnd, ApplyExit
  <2>2. q'[c] = q[c] \/ q'[c] = <<>>
    BY <1>1, <2>1
  <2>3. Queued(c)' \subseteq Queued(c)
    BY <2>2 DEF Queued
  <2> QED BY <2>3, HeldIsLive
<1>4. ASSUME NEW t \in Threads PROVE held'[t] \subseteq Live
  <2>1. \/ UNCHANGED held
        \/ held' = [held EXCEPT !["apply"] = {}]
        \/ /\ q["q_blend"] # <<>>
           /\ held' = [held EXCEPT !["apply"] = {q["q_blend"][Len(q["q_blend"])]}]
    BY DEF ApplyNext, ApplyPop, ApplyBlend, ApplySync, ApplyShow, ApplyEnd, ApplyExit
  <2>2. q["q_blend"] # <<>> => q["q_blend"][Len(q["q_blend"])] \in Queued("q_blend")
    BY <1>1, TakeOne
  <2>3. held'[t] \subseteq held[t] \cup Queued("q_blend")
    BY <1>1, <2>1, <2>2
  <2> QED BY <1>1, <2>3, HeldIsLive
<1> QED BY <1>2, <1>3, <1>4, LiveWithin DEF QuietStep

LEMMA KeeperQuiet == TypeOK /\ KeeperNext => QuietStep
<1> SUFFICES ASSUME TypeOK, NEW t \in Keepers,
                    KeeperLoop(t) \/ KeepFrame(t) \/ KeeperExit(t)
             PROVE  QuietStep
  BY DEF KeeperNext
<1>1. /\ held \in [Threads -> SUBSET Frame] /\ q \in [Queues -> Seq(Frame)]
      /\ t \in Threads /\ Feeds[t] \in Queues
  BY KeepersAssumption DEF TypeOK, Threads, Queues
<1>2. KeepsSlots /\ UNCHANGED <<cam_stream, warp, seq>>
  BY SameHoldersSameLive DEF KeepsSlots, KeeperLoop, KeepFrame, KeeperExit
<1>3. ASSUME NEW c \in Queues PROVE Queued(c)' \subseteq Live
  <2>1. UNCHANGED q \/ (q[Feeds[t]] # <<>> /\ q' = [q EXCEPT ![Feeds[t]] = Tail(@)])
    BY DEF KeeperLoop, KeepFrame, KeeperExit
  <2>2. CASE q'[c] = q[c]
    BY <2>2, HeldIsLive DEF Queued
  <2>3. CASE q[c] # <<>> /\ q'[c] = Tail(q[c])
    BY <2>3, TakeOne DEF Queued
  <2> QED BY <1>1, <2>1, <2>2, <2>3
<1>4. ASSUME NEW u \in Threads PROVE held'[u] \subseteq Live
  <2>1. \/ UNCHANGED held
        \/ held' = [held EXCEPT ![t] = {}]
        \/ /\ q[Feeds[t]] # <<>>
           /\ held' = [held EXCEPT ![t] = {Head(q[Feeds[t]])}]
    BY DEF KeeperLoop, KeepFrame, KeeperExit
  <2>2. q[Feeds[t]] # <<>> => Head(q[Feeds[t]]) \in Queued(Feeds[t])
    BY <1>1, TakeOne
  <2>3. held'[u] \subseteq held[u] \cup Queued(Feeds[t])
    BY <1>1, <2>1, <2>2
  <2> QED BY <1>1, <2>3, HeldIsLive
<1> QED BY <1>2, <1>3, <1>4, LiveWithin DEF QuietStep

LEMMA ShutdownQuiet == TypeOK /\ ShutdownNext => QuietStep
<1> SUFFICES ASSUME TypeOK, ShutdownNext PROVE QuietStep
  OBVIOUS
<1>1. UNCHANGED <<held, cam_stream, warp, seq>> /\ KeepsSlots
  BY SameHoldersSameLive
  DEF KeepsSlots, ShutdownNext, RequestStop, CloseQueues, DestroyPool, DestroyQueues
<1>2. ASSUME NEW c \in Queues PROVE Queued(c)' \subseteq Live
  <2>1. UNCHANGED q \/ q' = [d \in Queues |-> <<>>]
    BY DEF ShutdownNext, RequestStop, CloseQueues, DestroyPool, DestroyQueues
  <2>2. q'[c] = q[c] \/ q'[c] = <<>>
    BY <2>1
  <2>3. Queued(c)' \subseteq Queued(c)
    BY <2>2 DEF Queued
  <2> QED BY <2>3, HeldIsLive
<1> QED BY <1>1, <1>2, HeldIsLive, LiveWithin DEF QuietStep

LEMMA CaptureQuiet ==
  TypeOK /\ (CaptureWait \/ CaptureNothing \/ PushFrame \/ CaptureEnd) => QuietStep
<1> SUFFICES ASSUME TypeOK, CaptureWait \/ CaptureNothing \/ PushFrame \/ CaptureEnd
             PROVE  QuietStep
  OBVIOUS
<1>1. /\ held \in [Threads -> SUBSET Frame] /\ q \in [Queues -> Seq(Frame)]
      /\ \A c \in Queues : Len(q[c]) <= QueueCap
      /\ "capture" \in Threads
  BY DEF TypeOK, Threads
<1>2. KeepsSlots /\ UNCHANGED <<cam_stream, warp, seq>>
  BY SameHoldersSameLive DEF KeepsSlots, CaptureWait, CaptureNothing, PushFrame, CaptureEnd
<1>3. ASSUME NEW t \in Threads PROVE held'[t] \subseteq Live
  <2>1. UNCHANGED held \/ held' = [held EXCEPT !["capture"] = {}]
    BY DEF CaptureWait, CaptureNothing, PushFrame, CaptureEnd
  <2> QED BY <1>1, <2>1, HeldIsLive
<1>4. ASSUME NEW c \in Queues PROVE Queued(c)' \subseteq Live
  <2>1. CASE q'[c] = q[c]
    BY <2>1, HeldIsLive DEF Queued
  <2>2. ASSUME NEW f \in held["capture"], q'[c] = Pushed(q[c], f)
        PROVE  Queued(c)' \subseteq Live
    <3>1. f \in Live /\ f \in Frame /\ q[c] \in Seq(Frame) /\ Len(q[c]) <= QueueCap
      BY <1>1, <2>2, HeldIsLive
    <3>2. CASE closed
      BY <2>1, <2>2, <3>2 DEF Pushed
    <3>3. CASE ~closed
      <4>1. {Pushed(q[c], f)[i] : i \in 1 .. Len(Pushed(q[c], f))} = {f}
        BY <3>1, <3>3, PushedOne
      <4> QED BY <2>2, <3>1, <4>1 DEF Queued
    <3> QED BY <3>2, <3>3
  <2>3. \/ UNCHANGED q
        \/ \E d \in Queues, f \in held["capture"] : q' = [q EXCEPT ![d] = Pushed(@, f)]
    BY DEF CaptureWait, CaptureNothing, PushFrame, CaptureEnd
  <2> QED BY <1>1, <2>1, <2>2, <2>3
<1> QED BY <1>2, <1>3, <1>4, LiveWithin DEF QuietStep

\* The new frame's slot was free, so it is no live frame's, and its remap goes
\* behind whatever was queued into the slot before.
LEMMA AcquireImages == TypeOK /\ ImageInv /\ AcquireSlot => ImageInv'
<1> SUFFICES ASSUME TypeOK, ImageInv, AcquireSlot PROVE ImageInv'
  OBVIOUS
<1>1. /\ cam_stream \in Seq(Frame) /\ held \in [Threads -> SUBSET Frame]
      /\ "capture" \in Threads /\ seq \in Nat /\ free \subseteq Slots
      /\ UNCHANGED <<q, warp>> /\ seq' = seq + 1
      /\ seq' \in FrameSeq
  BY MaxFrameAssumption DEF TypeOK, Threads, AcquireSlot, FrameSeq
<1>2. \A f \in Live : f \in Frame /\ f.seq \in Nat /\ f.slot \in Slots
  BY LiveFrames DEF Frame, FrameSeq
<1>3. ASSUME NEW i \in 1 .. Len(cam_stream) PROVE cam_stream[i].seq \in Nat
  <2>1. cam_stream[i] \in Frame
    BY <1>1, ElementOfSeq
  <2> QED BY <2>1 DEF Frame, FrameSeq
<1>4. \A f \in Live : f.seq <= seq /\ f.slot \notin free
  BY DEF ImageInv, OneOwner
<1>5. Len(cam_stream) \in Nat
  BY <1>1, LenProperties
<1>6. CASE UNCHANGED <<free, held, cam_stream>>
  <2>1. Live' = Live
    BY <1>1, <1>6, SameHoldersSameLive
  <2>2. OneOwner'
    BY <1>1, <1>2, <1>4, <1>6, <2>1 DEF ImageInv, OneOwner
  <2>3. InOrder'
    <3> SUFFICES ASSUME NEW i \in 1 .. Len(cam_stream)
                 PROVE  /\ cam_stream[i].seq <= seq'
                        /\ \A f \in Live :
                             /\ cam_stream[i].seq = f.seq => cam_stream[i] = f
                             /\ cam_stream[i].slot = f.slot =>
                                  \E j \in i .. Len(cam_stream) : cam_stream[j] = f
      BY <1>6, <2>1 DEF InOrder
    <3>1. cam_stream[i].seq <= seq /\ cam_stream[i].seq \in Nat
      BY <1>3 DEF ImageInv, InOrder
    <3> QED BY <1>1, <3>1 DEF ImageInv, InOrder
  <2>4. FramesKeepTheirImage'
    BY <1>1, <1>6, <2>1 DEF ImageInv, FramesKeepTheirImage, RemapDone
  <2> QED BY <2>2, <2>3, <2>4 DEF ImageInv
<1>7. ASSUME NEW s \in free, NEW g, g = [slot |-> s, seq |-> seq + 1],
             free' = free \ {s}, held' = [held EXCEPT !["capture"] = {g}],
             cam_stream' = Append(cam_stream, g)
      PROVE  ImageInv'
  <2>1. g \in Frame /\ g.slot = s /\ g.seq = seq + 1
    BY <1>1, <1>7 DEF Frame
  <2>2. \A f \in Live' : f = g \/ f \in Live
    BY <1>1, <1>7 DEF Live, Queued
  <2>3. /\ Len(cam_stream') = Len(cam_stream) + 1
        /\ \A i \in 1 .. Len(cam_stream) : cam_stream'[i] = cam_stream[i]
        /\ cam_stream'[Len(cam_stream) + 1] = g
    BY <1>1, <1>7, <2>1, AppendProperties
  <2>4. OneOwner'
    <3>1. \A f \in Live' : f.slot \notin free' /\ f.seq <= seq'
      BY <1>1, <1>2, <1>4, <1>7, <2>1, <2>2
    <3>2. \A f, h \in Live' : f.slot = h.slot => f = h
      BY <1>4, <2>1, <2>2 DEF ImageInv, OneOwner
    <3> QED BY <3>1, <3>2 DEF OneOwner
  <2>5. InOrder'
    <3> SUFFICES ASSUME NEW i \in 1 .. Len(cam_stream')
                 PROVE  /\ cam_stream'[i].seq <= seq'
                        /\ \A f \in Live' :
                             /\ cam_stream'[i].seq = f.seq => cam_stream'[i] = f
                             /\ cam_stream'[i].slot = f.slot =>
                                  \E j \in i .. Len(cam_stream') : cam_stream'[j] = f
      BY DEF InOrder
    <3>1. CASE i = Len(cam_stream) + 1
      <4>1. cam_stream'[i] = g
        BY <2>3, <3>1
      <4>2. ASSUME NEW f \in Live', f # g PROVE g.seq # f.seq /\ g.slot # f.slot
        BY <1>1, <1>2, <1>4, <2>1, <2>2, <4>2
      <4>3. i \in i .. Len(cam_stream')
        OBVIOUS
      <4> QED BY <1>1, <2>1, <4>1, <4>2, <4>3
    <3>2. CASE i \in 1 .. Len(cam_stream)
      <4>1. cam_stream'[i] = cam_stream[i] /\ cam_stream[i].seq <= seq
        BY <2>3, <3>2 DEF ImageInv, InOrder
      <4>2. cam_stream'[i].seq <= seq' /\ cam_stream'[i].seq # g.seq
        BY <1>1, <1>3, <2>1, <3>2, <4>1
      <4>3. (Len(cam_stream) + 1) \in i .. Len(cam_stream')
        BY <1>5, <2>3, <3>2
      <4>4. ASSUME NEW f \in Live
            PROVE  /\ cam_stream[i].seq = f.seq => cam_stream[i] = f
                   /\ cam_stream[i].slot = f.slot =>
                        \E j \in i .. Len(cam_stream') : cam_stream'[j] = f
        <5>1. /\ cam_stream[i].seq = f.seq => cam_stream[i] = f
              /\ cam_stream[i].slot = f.slot =>
                   \E j \in i .. Len(cam_stream) : cam_stream[j] = f
          BY <3>2 DEF ImageInv, InOrder
        <5>2. \A j \in i .. Len(cam_stream) :
                j \in i .. Len(cam_stream') /\ cam_stream'[j] = cam_stream[j]
          BY <1>5, <2>3, <3>2
        <5> QED BY <5>1, <5>2
      <4> QED BY <2>2, <2>3, <4>1, <4>2, <4>3, <4>4
    <3> QED BY <1>5, <2>3, <3>1, <3>2
  <2>6. FramesKeepTheirImage'
    <3> SUFFICES ASSUME NEW f \in Live', RemapDone(f)' PROVE warp'[f.slot] = f.seq
      BY DEF FramesKeepTheirImage
    <3>1. Len(cam_stream) + 1 \in 1 .. Len(cam_stream')
      BY <1>5, <2>3
    <3>2. f # g /\ f \in Live
      BY <2>2, <2>3, <3>1 DEF RemapDone
    <3>3. \A i \in 1 .. Len(cam_stream) :
            i \in 1 .. Len(cam_stream') /\ cam_stream'[i] = cam_stream[i]
      BY <1>5, <2>3
    <3>4. RemapDone(f)
      BY <3>3 DEF RemapDone
    <3> QED BY <1>1, <3>2, <3>4 DEF ImageInv, FramesKeepTheirImage
  <2> QED BY <2>4, <2>5, <2>6 DEF ImageInv
<1> QED BY <1>6, <1>7 DEF AcquireSlot

\* A remap that runs into a live frame's slot is the frame's own, or the
\* frame's own is still to come.
LEMMA RemapImages == TypeOK /\ ImageInv /\ ExecuteRemap => ImageInv'
<1> SUFFICES ASSUME TypeOK, ImageInv, ExecuteRemap PROVE ImageInv'
  OBVIOUS
<1>1. /\ cam_stream \in Seq(Frame) /\ cam_stream # <<>>
      /\ warp \in [Slots -> 0 .. MaxFrame]
      /\ UNCHANGED <<q, held, free, seq>>
      /\ warp' = [warp EXCEPT ![Head(cam_stream).slot] = Head(cam_stream).seq]
      /\ cam_stream' = Tail(cam_stream)
  BY DEF TypeOK, ExecuteRemap
<1>2. /\ Len(cam_stream) \in Nat /\ Len(cam_stream) >= 1
      /\ Len(cam_stream') = Len(cam_stream) - 1
      /\ \A i \in 1 .. Len(cam_stream') : cam_stream'[i] = cam_stream[i + 1]
      /\ Head(cam_stream) = cam_stream[1]
  BY <1>1, HeadTailProperties, EmptySeq, LenProperties
<1>3. Live' = Live
  BY <1>1, SameHoldersSameLive
<1>4. \A f \in Live : f \in Frame /\ f.slot \in Slots
  BY LiveFrames DEF Frame
<1>5. OneOwner'
  BY <1>1, <1>3 DEF ImageInv, OneOwner
<1>6. InOrder'
  <2> SUFFICES ASSUME NEW i \in 1 .. Len(cam_stream')
               PROVE  /\ cam_stream'[i].seq <= seq
                      /\ \A f \in Live :
                           /\ cam_stream'[i].seq = f.seq => cam_stream'[i] = f
                           /\ cam_stream'[i].slot = f.slot =>
                                \E j \in i .. Len(cam_stream') : cam_stream'[j] = f
    BY <1>1, <1>3 DEF InOrder
  <2>1. i + 1 \in 1 .. Len(cam_stream) /\ cam_stream'[i] = cam_stream[i + 1]
    BY <1>2
  <2>2. ASSUME NEW f \in Live, NEW j \in (i + 1) .. Len(cam_stream), cam_stream[j] = f
        PROVE  \E k \in i .. Len(cam_stream') : cam_stream'[k] = f
    <3>1. j - 1 \in i .. Len(cam_stream') /\ cam_stream'[j - 1] = cam_stream[j]
      BY <1>2
    <3> QED BY <2>2, <3>1
  <2> QED BY <2>1, <2>2 DEF ImageInv, InOrder
<1>7. FramesKeepTheirImage'
  <2> SUFFICES ASSUME NEW f \in Live, RemapDone(f)' PROVE warp'[f.slot] = f.seq
    BY <1>3 DEF FramesKeepTheirImage
  <2>1. \A j \in 2 .. Len(cam_stream) : cam_stream[j].seq # f.seq
    <3> SUFFICES ASSUME NEW j \in 2 .. Len(cam_stream) PROVE cam_stream[j].seq # f.seq
      OBVIOUS
    <3>1. j - 1 \in 1 .. Len(cam_stream') /\ cam_stream'[j - 1] = cam_stream[j]
      BY <1>2
    <3> QED BY <3>1 DEF RemapDone
  <2>2. CASE cam_stream[1] = f
    BY <1>1, <1>2, <1>4, <2>2
  <2>3. CASE cam_stream[1] # f
    <3>1. 1 \in 1 .. Len(cam_stream)
      BY <1>2
    <3>2. cam_stream[1].seq # f.seq
      BY <2>3, <3>1 DEF ImageInv, InOrder
    <3>3. cam_stream[1].slot # f.slot
      <4>1. \A j \in 1 .. Len(cam_stream) : cam_stream[j] # f
        BY <2>1, <2>3, <1>2
      <4> QED BY <3>1, <4>1 DEF ImageInv, InOrder
    <3>4. RemapDone(f)
      BY <1>2, <2>1, <3>2 DEF RemapDone
    <3>5. warp[f.slot] = f.seq
      BY <3>4 DEF ImageInv, FramesKeepTheirImage
    <3> QED BY <1>1, <1>2, <1>4, <3>3, <3>5
  <2> QED BY <2>2, <2>3
<1> QED BY <1>5, <1>6, <1>7 DEF ImageInv

LEMMA BlendQuiet == ExecuteBlend => QuietStep
BY SameHoldersSameLive DEF ExecuteBlend, QuietStep, KeepsSlots

LEMMA InitImages == Init => ImageInv
<1> SUFFICES ASSUME Init PROVE ImageInv
  OBVIOUS
<1>1. Live = {}
  <2>1. \A c \in Queues : q[c] = <<>>
    BY DEF Init
  <2>2. \A c \in Queues : Queued(c) = {}
    BY <2>1, EmptySeq DEF Queued
  <2>3. \A t \in Threads : held[t] = {}
    BY DEF Init
  <2> QED BY <2>2, <2>3 DEF Live
<1>2. \A i \in 1 .. Len(cam_stream) : FALSE
  BY EmptySeq DEF Init
<1> QED BY <1>1, <1>2 DEF ImageInv, OneOwner, InOrder, FramesKeepTheirImage

LEMMA StepImages == TypeOK /\ ImageInv /\ [Next]_vars => ImageInv'
<1> SUFFICES ASSUME TypeOK, ImageInv, [Next]_vars PROVE ImageInv'
  OBVIOUS
<1>1. CASE CaptureNext
  BY <1>1, CaptureQuiet, AcquireImages, QuietKeepsImages DEF CaptureNext
<1>2. CASE GpuNext
  BY <1>2, RemapImages, BlendQuiet, QuietKeepsImages DEF GpuNext
<1>3. CASE ApplyNext
  BY <1>3, ApplyQuiet, QuietKeepsImages
<1>4. CASE KeeperNext
  BY <1>4, KeeperQuiet, QuietKeepsImages
<1>5. CASE ShutdownNext
  BY <1>5, ShutdownQuiet, QuietKeepsImages
<1>6. CASE UNCHANGED vars
  <2>1. QuietStep
    BY <1>6, SameHoldersSameLive DEF vars, QuietStep, KeepsSlots
  <2> QED BY <2>1, QuietKeepsImages
<1> QED BY <1>1, <1>2, <1>3, <1>4, <1>5, <1>6 DEF Next

----------------------------------------------------------------------------
(* What is pushed to the viewers *)

LEMMA InitBlend == Init => BlendInOrder
BY DEF Init, BlendInOrder, Threads

\* A step of another thread leaves the picture being made alone.
ApplyAlone == /\ pc'["apply"] = pc["apply"] /\ held'["apply"] = held["apply"]
              /\ UNCHANGED <<apply_stream, blended, shown>>

LEMMA AloneKeepsBlend == BlendInOrder /\ ApplyAlone => BlendInOrder'
BY DEF BlendInOrder, ApplyAlone

LEMMA OthersLeaveApply ==
  TypeOK /\ (CaptureNext \/ ExecuteRemap \/ KeeperNext \/ ShutdownNext \/ UNCHANGED vars)
    => ApplyAlone
<1> SUFFICES ASSUME TypeOK,
                    CaptureNext \/ ExecuteRemap \/ KeeperNext \/ ShutdownNext \/ UNCHANGED vars
             PROVE  ApplyAlone
  OBVIOUS
<1>1. /\ pc \in [Threads -> CapturePC \cup ApplyPC \cup KeeperPC]
      /\ held \in [Threads -> SUBSET Frame]
      /\ "apply" \in Threads /\ "apply" \notin Keepers /\ Keepers \subseteq Threads
  BY KeepersAssumption DEF TypeOK, Threads
<1>2. CASE CaptureNext
  BY <1>1, <1>2 DEF CaptureNext, CaptureWait, CaptureNothing, AcquireSlot, PushFrame,
                    CaptureEnd, Goto, ApplyAlone
<1>3. CASE ExecuteRemap
  BY <1>3 DEF ExecuteRemap, ApplyAlone
<1>4. CASE KeeperNext
  BY <1>1, <1>4 DEF KeeperNext, KeeperLoop, KeepFrame, KeeperExit, Goto, ApplyAlone
<1>5. CASE ShutdownNext
  BY <1>5 DEF ShutdownNext, RequestStop, CloseQueues, DestroyPool, DestroyQueues, ApplyAlone
<1>6. CASE UNCHANGED vars
  BY <1>6 DEF vars, ApplyAlone
<1> QED BY <1>2, <1>3, <1>4, <1>5, <1>6

\* The blend that empties the stream read the frame the thread still holds,
\* whose image is complete and in place.
LEMMA ExecuteBlendOrder ==
  TypeOK /\ FramesKeepTheirImage /\ BlendInOrder /\ ExecuteBlend => BlendInOrder'
<1> SUFFICES ASSUME TypeOK, FramesKeepTheirImage, BlendInOrder, ExecuteBlend
             PROVE  BlendInOrder'
  OBVIOUS
<1>1. /\ apply_stream \in Seq(Frame) /\ apply_stream # <<>> /\ "apply" \in Threads
      /\ RemapDone(Head(apply_stream))
      /\ blended' = warp[Head(apply_stream).slot]
      /\ apply_stream' = Tail(apply_stream)
      /\ UNCHANGED <<held, pc, shown>>
  BY DEF TypeOK, Threads, ExecuteBlend
<1>2. /\ Len(apply_stream) \in Nat /\ Len(apply_stream) >= 1
      /\ Tail(apply_stream) \in Seq(Frame)
      /\ Len(apply_stream') = Len(apply_stream) - 1
      /\ \A i \in 1 .. Len(apply_stream') : apply_stream'[i] = apply_stream[i + 1]
      /\ Head(apply_stream) = apply_stream[1]
  BY <1>1, HeadTailProperties, EmptySeq, LenProperties
<1>3. pc["apply"] # "show"
  BY <1>1 DEF BlendInOrder
<1>4. ASSUME pc["apply"] = "sync"
      PROVE  \E f \in held["apply"] :
               /\ shown = f.seq
               /\ apply_stream' = <<>> => blended' = f.seq
               /\ apply_stream' # <<>> => apply_stream'[Len(apply_stream')] = f
  <2>1. PICK f \in held["apply"] : shown = f.seq /\ apply_stream[Len(apply_stream)] = f
    BY <1>1, <1>4 DEF BlendInOrder
  <2>2. ASSUME apply_stream' = <<>> PROVE blended' = f.seq
    <3>1. Len(apply_stream') = 0
      BY <2>2, EmptySeq
    <3>2. Head(apply_stream) = f
      <4>1. Len(apply_stream) = 1
        BY <1>2, <3>1
      <4> QED BY <1>2, <2>1, <4>1
    <3>3. f \in Live
      BY <1>1, <2>1, HeldIsLive
    <3> QED BY <1>1, <3>2, <3>3 DEF FramesKeepTheirImage
  <2>3. ASSUME apply_stream' # <<>> PROVE apply_stream'[Len(apply_stream')] = f
    <3>1. Len(apply_stream') # 0
      BY <1>1, <1>2, <2>3, EmptySeq
    <3>2. Len(apply_stream') \in 1 .. Len(apply_stream')
      BY <1>2, <3>1
    <3> QED BY <1>2, <2>1, <3>2
  <2> QED BY <2>1, <2>2, <2>3
<1> QED BY <1>1, <1>3, <1>4 DEF BlendInOrder

LEMMA ApplyBlendOrder == TypeOK /\ BlendInOrder /\ ApplyNext => BlendInOrder'
<1> SUFFICES ASSUME TypeOK, BlendInOrder, ApplyNext PROVE BlendInOrder'
  OBVIOUS
<1>1. /\ pc \in [Threads -> CapturePC \cup ApplyPC \cup KeeperPC] /\ "apply" \in Threads
      /\ apply_stream \in Seq(Frame) /\ held["apply"] \subseteq Frame
  BY DEF TypeOK, Threads
<1>2. CASE ApplyBlend
  <2>1. PICK f \in held["apply"] :
          /\ apply_stream' = Append(apply_stream, f)
          /\ \/ shown' = f.seq /\ Goto("apply", "sync")
             \/ Goto("apply", "recycle") /\ UNCHANGED shown
          /\ UNCHANGED held
    BY <1>2 DEF ApplyBlend
  <2>2. /\ apply_stream' # <<>> /\ apply_stream'[Len(apply_stream')] = f
    <3>1. f \in Frame
      BY <1>1, <2>1
    <3>2. /\ Append(apply_stream, f) \in Seq(Frame)
          /\ Len(Append(apply_stream, f)) = Len(apply_stream) + 1
          /\ Append(apply_stream, f)[Len(apply_stream) + 1] = f
      BY <1>1, <3>1, AppendProperties
    <3>3. Len(apply_stream) \in Nat
      BY <1>1, LenProperties
    <3> QED BY <2>1, <3>2, <3>3, EmptySeq
  <2>3. \/ pc'["apply"] = "sync" /\ shown' = f.seq
        \/ pc'["apply"] = "recycle"
    BY <1>1, <2>1 DEF Goto
  <2> QED BY <2>1, <2>2, <2>3 DEF BlendInOrder
<1>3. CASE ApplySync
  <2>1. /\ pc["apply"] = "sync" /\ apply_stream = <<>> /\ pc'["apply"] = "show"
        /\ UNCHANGED <<apply_stream, blended, shown>>
    BY <1>1, <1>3 DEF ApplySync, Goto
  <2> QED BY <2>1 DEF BlendInOrder
<1>4. CASE ApplyPop
  <2>1. pc'["apply"] \in {"loop", "blend"}
    BY <1>1, <1>4 DEF ApplyPop, Goto
  <2> QED BY <2>1 DEF BlendInOrder
<1>5. CASE ApplyShow \/ ApplyEnd \/ ApplyExit
  <2>1. pc'["apply"] \in {"recycle", "loop", "exited"}
    BY <1>1, <1>5 DEF ApplyShow, ApplyEnd, ApplyExit, Goto
  <2> QED BY <2>1 DEF BlendInOrder
<1> QED BY <1>2, <1>3, <1>4, <1>5 DEF ApplyNext

PictureInv == TypeOK /\ ImageInv /\ BlendInOrder

LEMMA InitPicture == Init => PictureInv
BY InitTyped, InitImages, InitBlend DEF PictureInv

LEMMA StepPicture == PictureInv /\ [Next]_vars => PictureInv'
<1> SUFFICES ASSUME PictureInv, [Next]_vars PROVE PictureInv'
  OBVIOUS
<1>1. TypeOK /\ ImageInv /\ BlendInOrder /\ FramesKeepTheirImage
  BY DEF PictureInv, ImageInv
<1>2. BlendInOrder'
  <2>1. CASE CaptureNext \/ ExecuteRemap \/ KeeperNext \/ ShutdownNext \/ UNCHANGED vars
    BY <1>1, <2>1, OthersLeaveApply, AloneKeepsBlend
  <2>2. CASE ExecuteBlend
    BY <1>1, <2>2, ExecuteBlendOrder
  <2>3. CASE ApplyNext
    BY <1>1, <2>3, ApplyBlendOrder
  <2> QED BY <2>1, <2>2, <2>3 DEF Next, GpuNext
<1> QED BY <1>1, <1>2, StepTyped, StepImages DEF PictureInv

\* However far the GPU lags and whoever keeps a frame for however long: while
\* a FramePtr to a frame exists, its warp_pool slot holds that frame's image
\* (once its remap has run) and is not remapped into.
THEOREM FramesAlwaysKeepTheirImage == Spec => []FramesKeepTheirImage
<1>1. PictureInv => FramesKeepTheirImage
  BY DEF PictureInv, ImageInv
<1> QED BY <1>1, InitPicture, StepPicture, PTL DEF Spec

\* The panorama pushed to the V1234 hubs was blended from the frame whose
\* number it is tagged with, although blend_apply has released that frame
\* before the push: the synchronisation in between is enough.
THEOREM ViewersAlwaysSeeTheirFrame == Spec => []ViewersSeeTheirFrame
<1>1. PictureInv => ViewersSeeTheirFrame
  BY DEF PictureInv, BlendInOrder, ViewersSeeTheirFrame
<1> QED BY <1>1, InitPicture, StepPicture, PTL DEF Spec
=============================================================================
