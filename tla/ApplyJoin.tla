----------------------------- MODULE ApplyJoin -----------------------------
(***************************************************************************)
(* How the frames of the cameras meet. Every capture_thread leaves its     *)
(* newest frame in q_blend (room for one, see FramePool) and then sets its *)
(* bit in blender_apply_sync; thread_blender_apply waits for all bits,     *)
(* takes the newest frame of one camera after the other and blends them    *)
(* with a blender from blender_ptr_pool. A used blender goes through       *)
(* blender_prepare_queue to thread_blender_prepare, which clears it and    *)
(* puts it back. Cameras run on while apply looks at the others.           *)
(***************************************************************************)
EXTENDS Integers, Sequences, FiniteSets

CONSTANTS
  NumCams,           \* cameras (4)
  BLENDER_POOL_SIZE, \* blenders made by init_blender (3)
  MaxSeq             \* bound: samples a camera delivers in one behaviour

ASSUME NumCamsAssumption == NumCams \in Nat \ {0}
ASSUME PoolAssumption == BLENDER_POOL_SIZE \in Nat \ {0}
ASSUME MaxSeqAssumption == MaxSeq \in Nat \ {0}

Cams     == 0 .. NumCams - 1
Blenders == 1 .. BLENDER_POOL_SIZE
None     == 0                        \* no frame; CamCtx::seq counts from 1
FrameSeq == None .. MaxSeq

VARIABLES
  seq,         \* CamCtx::seq, the number of each camera's newest sample
  capture,     \* where each capture thread is
  q_blend,     \* the frame in each camera's queue, or None
  done_mask,   \* blender_apply_sync.done_mask, as a set of cameras
  gain_ready,  \* gain_epoch # 0: the first gain maps exist
  apply,       \* where the apply thread is
  tried,       \* queues it has looked at in this round
  cur,         \* the frames it has taken in this round
  ptr,         \* the blender in its hands, as a set
  pool,        \* blender_ptr_pool
  dirty,       \* blender_prepare_queue
  preparing,   \* the blender in the hands of the prepare thread, as a set
  clean,       \* blenders whose destination is cleared
  stopping,    \* the stop flags are set and all waiters notified
  pano,        \* the frames of the latest panorama
  signalled,   \* history: the newest frame each camera has signalled
  joined,      \* history: signalled, as it was when wait_all returned
  misses       \* history: rounds in a row each camera was missing from, up to 3

vars == <<seq, capture, q_blend, done_mask, gain_ready, apply, tried, cur, ptr,
          pool, dirty, preparing, clean, stopping, pano, signalled,
          joined, misses>>

cameras  == <<seq, capture, signalled>>
blenders == <<pool, dirty, preparing, clean>>
history  == <<joined, misses>>

Init ==
  /\ seq = [c \in Cams |-> 0]
  /\ capture = [c \in Cams |-> "pull"]
  /\ q_blend = [c \in Cams |-> None]
  /\ done_mask = {}
  /\ gain_ready = FALSE
  /\ apply = "gain"
  /\ tried = 0
  /\ cur = [c \in Cams |-> None]
  /\ ptr = {}
  /\ pool = [i \in Blenders |-> i]
  /\ dirty = <<>>
  /\ preparing = {}
  /\ clean = Blenders
  /\ stopping = FALSE
  /\ pano = [c \in Cams |-> None]
  /\ signalled = [c \in Cams |-> None]
  /\ joined = [c \in Cams |-> None]
  /\ misses = [c \in Cams |-> 0]

----------------------------------------------------------------------------
(* capture_thread of camera c *)

\* Mutant: the bit is set before the frame is in the queue.
Following_SignalFirst == [pull |-> "signal", signal |-> "push", push |-> "pull"]
Following == [pull |-> "push", push |-> "signal", signal |-> "pull"]
Advance(c) == capture' = [capture EXCEPT ![c] = Following[@]]

\* A sample arrives and gets the next number; one that cannot be mapped is
\* dropped and leaves a gap.
Pull(c) ==
  /\ capture[c] = "pull"
  /\ ~stopping
  /\ seq[c] < MaxSeq
  /\ seq' = [seq EXCEPT ![c] = @ + 1]
  /\ Advance(c) \/ UNCHANGED capture
  /\ UNCHANGED <<q_blend, done_mask, gain_ready, apply, tried, cur, ptr,
                 blenders, stopping, pano, signalled, history>>

\* q_blend.try_push drops a frame nobody has taken; a closed queue refuses.
Push(c) ==
  /\ capture[c] = "push"
  /\ Advance(c)
  /\ \/ q_blend' = [q_blend EXCEPT ![c] = seq[c]]
     \/ stopping /\ UNCHANGED q_blend
  /\ UNCHANGED <<seq, done_mask, gain_ready, apply, tried, cur, ptr, blenders,
                 stopping, pano, signalled, history>>

\* Mutant: cameras counted from one.
SignalId_OneBased(c) ==
  /\ capture[c] = "signal"
  /\ Advance(c)
  /\ done_mask' = done_mask \cup {c + 1}
  /\ signalled' = [signalled EXCEPT ![c] = seq[c]]
  /\ UNCHANGED <<seq, q_blend, gain_ready, apply, tried, cur, ptr, blenders,
                 stopping, pano, history>>

\* blender_apply_sync.signal_id
SignalId(c) ==
  /\ capture[c] = "signal"
  /\ Advance(c)
  /\ done_mask' = done_mask \cup {c}
  /\ signalled' = [signalled EXCEPT ![c] = seq[c]]
  /\ UNCHANGED <<seq, q_blend, gain_ready, apply, tried, cur, ptr, blenders,
                 stopping, pano, history>>

\* thread_seam_find publishes its first gain maps.
GainReady ==
  /\ ~gain_ready
  /\ gain_ready' = TRUE
  /\ UNCHANGED <<cameras, q_blend, done_mask, apply, tried, cur, ptr, blenders,
                 stopping, pano, history>>

----------------------------------------------------------------------------
(* thread_blender_apply *)

\* Mutant: both conditions have to hold.
WaitGain_Both ==
  /\ apply = "gain"
  /\ gain_ready /\ stopping
  /\ apply' = "wait"
  /\ UNCHANGED <<cameras, q_blend, done_mask, gain_ready, tried, cur, ptr,
                 blenders, stopping, pano, history>>

\* Until there are gain maps nothing is taken from the queues.
WaitGain ==
  /\ apply = "gain"
  /\ gain_ready \/ stopping
  /\ apply' = "wait"
  /\ UNCHANGED <<cameras, q_blend, done_mask, gain_ready, tried, cur, ptr,
                 blenders, stopping, pano, history>>

\* Mutant: the mask is left as it is.
WaitAll_KeepMask ==
  /\ apply = "wait"
  /\ ~stopping
  /\ done_mask = Cams
  /\ apply' = "pop"
  /\ tried' = 0
  /\ joined' = signalled
  /\ UNCHANGED <<cameras, q_blend, done_mask, gain_ready, cur, ptr, blenders,
                 stopping, pano, misses>>

\* wait_all: every camera has signalled since the last round.
WaitAll ==
  /\ apply = "wait"
  /\ ~stopping
  /\ done_mask = Cams
  /\ done_mask' = {}
  /\ apply' = "pop"
  /\ tried' = 0
  /\ joined' = signalled
  /\ UNCHANGED <<cameras, q_blend, gain_ready, cur, ptr, blenders,
                 stopping, pano, misses>>

ApplyExit ==
  /\ apply = "wait"
  /\ stopping
  /\ apply' = "exited"
  /\ UNCHANGED <<cameras, q_blend, done_mask, gain_ready, tried, cur, ptr,
                 blenders, stopping, pano, history>>

\* Mutant: the frame is looked at but stays in the queue.
TryPopLatest_Peek ==
  /\ apply = "pop"
  /\ tried < NumCams
  /\ cur' = [cur EXCEPT ![tried] = q_blend[tried]]
  /\ tried' = tried + 1
  /\ UNCHANGED <<cameras, q_blend, done_mask, gain_ready, apply, ptr, blenders,
                 stopping, pano, history>>

\* try_pop_latest of the next camera, which may find nothing.
TryPopLatest ==
  /\ apply = "pop"
  /\ tried < NumCams
  /\ cur' = [cur EXCEPT ![tried] = q_blend[tried]]
  /\ q_blend' = [q_blend EXCEPT ![tried] = None]
  /\ tried' = tried + 1
  /\ UNCHANGED <<cameras, done_mask, gain_ready, apply, ptr, blenders,
                 stopping, pano, history>>

CountMisses ==
  misses' = [c \in Cams |-> IF cur[c] # None THEN 0
                            ELSE IF misses[c] < 3 THEN misses[c] + 1 ELSE 3]

\* A frame is missing, or all blenders are in use: the round is dropped.
DropRound ==
  /\ apply = "pop"
  /\ tried = NumCams
  /\ (\E c \in Cams : cur[c] = None) \/ pool = <<>>
  /\ CountMisses
  /\ cur' = [c \in Cams |-> None]
  /\ apply' = "wait"
  /\ UNCHANGED <<cameras, q_blend, done_mask, gain_ready, tried, ptr, blenders,
                 stopping, pano, joined>>

TakeBlender ==
  /\ apply = "pop"
  /\ tried = NumCams
  /\ \A c \in Cams : cur[c] # None
  /\ pool # <<>>
  /\ ptr' = {Head(pool)}
  /\ CountMisses
  /\ pool' = Tail(pool)
  /\ apply' = "blend"
  /\ UNCHANGED <<cameras, q_blend, done_mask, gain_ready, tried, cur, dirty,
                 preparing, clean, stopping, pano, joined>>

\* feed and blend write into the blender; the panorama goes to the hubs.
Blend ==
  /\ apply = "blend"
  /\ pano' = cur
  /\ clean' = clean \ ptr
  /\ cur' = [c \in Cams |-> None]
  /\ apply' = "recycle"
  /\ UNCHANGED <<cameras, q_blend, done_mask, gain_ready, tried, ptr, pool,
                 dirty, preparing, stopping, history>>

\* Mutant: the blender returns to the pool as well as to the prepare queue.
Recycle_ToPool ==
  \E b \in ptr :
    /\ apply = "recycle"
    /\ dirty' = Append(dirty, b)
    /\ pool' = Append(pool, b)
    /\ ptr' = {}
    /\ apply' = "wait"
    /\ UNCHANGED <<cameras, q_blend, done_mask, gain_ready, tried, cur,
                   preparing, clean, stopping, pano, history>>

\* Mutant: the blender is not queued for preparation.
Recycle_Lost ==
  /\ apply = "recycle"
  /\ ptr' = {}
  /\ apply' = "wait"
  /\ UNCHANGED <<cameras, q_blend, done_mask, gain_ready, tried, cur, blenders,
                 stopping, pano, history>>

Recycle ==
  \E b \in ptr :
    /\ apply = "recycle"
    /\ dirty' = Append(dirty, b)
    /\ ptr' = {}
    /\ apply' = "wait"
    /\ UNCHANGED <<cameras, q_blend, done_mask, gain_ready, tried, cur, pool,
                   preparing, clean, stopping, pano, history>>

----------------------------------------------------------------------------
(* thread_blender_prepare; after a stop it takes nothing more *)

PrepareTake ==
  /\ preparing = {}
  /\ ~stopping
  /\ dirty # <<>>
  /\ preparing' = {Head(dirty)}
  /\ dirty' = Tail(dirty)
  /\ UNCHANGED <<cameras, q_blend, done_mask, gain_ready, apply, tried, cur,
                 ptr, pool, clean, stopping, pano, history>>

\* Mutant: the blender is returned as it is.
Prepare_Skipped ==
  \E b \in preparing :
    /\ pool' = Append(pool, b)
    /\ preparing' = {}
    /\ UNCHANGED <<cameras, q_blend, done_mask, gain_ready, apply, tried, cur,
                   ptr, dirty, clean, stopping, pano, history>>

Prepare ==
  \E b \in preparing :
    /\ clean' = clean \cup {b}
    /\ pool' = Append(pool, b)
    /\ preparing' = {}
    /\ UNCHANGED <<cameras, q_blend, done_mask, gain_ready, apply, tried, cur,
                   ptr, dirty, stopping, pano, history>>

RequestStop ==
  /\ ~stopping
  /\ stopping' = TRUE
  /\ UNCHANGED <<cameras, q_blend, done_mask, gain_ready, apply, tried, cur,
                 ptr, blenders, pano, history>>

CaptureNext == \E c \in Cams : Pull(c) \/ Push(c) \/ SignalId(c)
ApplyNext   == WaitGain \/ WaitAll \/ ApplyExit \/ TryPopLatest \/ DropRound
                 \/ TakeBlender \/ Blend \/ Recycle
PrepareNext == PrepareTake \/ Prepare

Next == CaptureNext \/ GainReady \/ ApplyNext \/ PrepareNext \/ RequestStop

Spec == Init /\ [][Next]_vars

\* The threads keep running; cameras may fall silent and nobody has to stop.
FairSpec ==
  /\ Spec
  /\ WF_vars(ApplyNext)
  /\ WF_vars(PrepareNext)
  /\ WF_vars(GainReady)
  /\ \A c \in Cams : WF_vars(Push(c)) /\ WF_vars(SignalId(c))

----------------------------------------------------------------------------
Elems(s) == {s[i] : i \in 1 .. Len(s)}
NoDuplicates(s) == \A i, j \in 1 .. Len(s) : s[i] = s[j] => i = j

\* The variables have their types; a queue holds one frame at most.
TypeOK ==
  /\ seq \in [Cams -> FrameSeq]
  /\ capture \in [Cams -> {"pull", "push", "signal"}]
  /\ q_blend \in [Cams -> FrameSeq]
  /\ done_mask \in SUBSET Cams
  /\ gain_ready \in BOOLEAN
  /\ apply \in {"gain", "wait", "pop", "blend", "recycle", "exited"}
  /\ tried \in 0 .. NumCams
  /\ cur \in [Cams -> FrameSeq]
  /\ ptr \in SUBSET Blenders
  /\ pool \in Seq(Blenders)
  /\ dirty \in Seq(Blenders)
  /\ preparing \in SUBSET Blenders
  /\ clean \in SUBSET Blenders
  /\ stopping \in BOOLEAN
  /\ pano \in [Cams -> FrameSeq]
  /\ signalled \in [Cams -> FrameSeq]
  /\ joined \in [Cams -> FrameSeq]
  /\ misses \in [Cams -> 0 .. 3]

\* Every blender is in exactly one place: no thread writes into a blender
\* that another one has or that is offered to the next round, and none is lost.
BlendersConserved ==
  /\ NoDuplicates(pool) /\ NoDuplicates(dirty)
  /\ Elems(pool) \cap Elems(dirty) = {}
  /\ ptr \cap (Elems(pool) \cup Elems(dirty) \cup preparing) = {}
  /\ preparing \cap (Elems(pool) \cup Elems(dirty)) = {}
  /\ Elems(pool) \cup Elems(dirty) \cup ptr \cup preparing = Blenders

\* Panoramas are blended into cleared destinations: the no-blend kernel only
\* writes where its mask says so, the rest would show an older picture.
BlendsOnClean == apply = "blend" => ptr \subseteq clean

\* Once its bit has been seen, a camera contributes the frame it signalled or
\* a newer one, never an older one.
NeverOlderThanSignalled ==
  apply = "blend" => \A c \in Cams : cur[c] >= joined[c]

\* Each panorama advances every camera: no frame is shown twice, none is shown
\* after a newer one of the same camera.
EveryCameraAdvances ==
  [][pano' # pano => \A c \in Cams : pano'[c] > pano[c]]_vars

\* A camera can be missing from a round because the previous one took its
\* frame early, and once more when that frame's signal came late; the third
\* round has a frame of it again, so nobody is left out for good.
NoCameraMissesThrice == \A c \in Cams : misses[c] < 3

\* A used blender comes back to the pool, unless the program stops.
BlenderComesBack ==
  \A b \in Blenders :
    (b \notin clean) ~> (stopping \/ b \in clean \cap Elems(pool))

\* A complete mask is answered with a new round.
JoinIsAnswered ==
  (done_mask = Cams /\ gain_ready) ~> (stopping \/ done_mask # Cams)

\* The rounds go on: a used blender comes back to the pool and a complete mask
\* is answered with a new round, unless the program stops.
RoundsGoOn == BlenderComesBack /\ JoinIsAnswered
=============================================================================
