----------------------------- MODULE SeamEpoch -----------------------------
(***************************************************************************)
(* Seam search and exposure gains (gy_two_cam.cpp). Camera Lead measures   *)
(* how much its picture changes and from time to time begins a new epoch.  *)
(* The preparation thread of each camera then delivers one small image for *)
(* that epoch. When all have delivered, the search thread computes gains   *)
(* and masks into the buffers that are not in front and flips them. The    *)
(* apply thread draws with the front buffers, without a lock.              *)
(***************************************************************************)
EXTENDS SeamTrigger

CONSTANTS
  Cams, Lead,  \* the cameras; the one that decides, camera 0
  SmallBase,   \* up to this base a part of the masks is kept, 10
  KeepFor      \* ... for so many searches, 10

ASSUME SeamAssumption ==
  Lead \in Cams /\ SmallBase \in Nat /\ KeepFor \in Nat \ {0}

VARIABLES
  pc, snapshot, last_done_epoch,  \* of each preparation thread
  done_mask,                      \* seam_find_sync
  spc, e, last_seen_epoch,        \* the search thread
  searches, uses,                 \* searches begun; how many used the present image
  front, made,                    \* of each double buffer: the one in front, which
                                  \* search filled each
  gain_epoch,
  re_seam_12, saved, restored,    \* kept masks: counter, whether any were saved,
                                  \* how often they were used again since
  apc, reading                    \* the apply thread and what its kernels read

prepVars == <<pc, snapshot, last_done_epoch>>
keepVars == <<re_seam_12, saved, restored>>
bufVars == <<front, made, gain_epoch>>
searchVars == <<spc, e, last_seen_epoch, searches>>
applyVars == <<apc, reading>>
vars == <<leadVars, prepVars, done_mask, searchVars, uses, bufVars, keepVars, applyVars>>

Buffers == {"gain", "mask"}
Nothing == [buf \in Buffers |-> [at |-> 0, made |-> 0]]

\* Both mask buffers are filled from the calibration, the gain buffers are
\* empty: search 0 stands for the calibration, -1 for no search.
Init ==
  /\ TriggerInit
  /\ pc = [c \in Cams |-> "snapshot"]
  /\ snapshot = [c \in Cams |-> 0] /\ last_done_epoch = [c \in Cams |-> 0]
  /\ uses = [c \in Cams |-> 0] /\ done_mask = {}
  /\ spc = "wait" /\ e = 0 /\ last_seen_epoch = 0 /\ searches = 0
  /\ front = [buf \in Buffers |-> 0]
  /\ made = [buf \in Buffers |-> [i \in {0, 1} |-> IF buf = "mask" THEN 0 ELSE -1]]
  /\ gain_epoch = 0
  /\ re_seam_12 = 0 /\ saved = FALSE /\ restored = 0
  /\ apc = "warm" /\ reading = Nothing

----------------------------------------------------------------------------
(* thread_cc_prepare_seam_input *)

Move(c, from, to) == pc[c] = from /\ pc' = [pc EXCEPT ![c] = to]

\* The epoch is read before the frame is waited for.
Snapshot(c) ==
  /\ Move(c, "snapshot", "pop")
  /\ snapshot' = [snapshot EXCEPT ![c] = seam_epoch]
  /\ UNCHANGED <<leadVars, last_done_epoch, done_mask, searchVars, uses, bufVars, keepVars, applyVars>>

AfterImage(c) == IF c = Lead THEN "decide" ELSE "snapshot"

NeedsImage(c) == snapshot[c] # 0 /\ snapshot[c] # last_done_epoch[c]

\* The frame is waited for; if the epoch read before is new, its small image
\* is downloaded and copied into images_warped_resize_u.
Pop(c) ==
  /\ Move(c, "pop", IF NeedsImage(c) THEN "signal" ELSE AfterImage(c))
  /\ uses' = [uses EXCEPT ![c] = IF NeedsImage(c) THEN 0 ELSE @]
  /\ UNCHANGED <<leadVars, snapshot, last_done_epoch, done_mask, searchVars, bufVars, keepVars, applyVars>>

SignalId(c) ==
  /\ Move(c, "signal", AfterImage(c))
  /\ done_mask' = done_mask \cup {c}
  /\ last_done_epoch' = [last_done_epoch EXCEPT ![c] = snapshot[c]]
  /\ UNCHANGED <<leadVars, snapshot, searchVars, uses, bufVars, keepVars, applyVars>>

LeadDecides ==
  /\ Move(Lead, "decide", "snapshot")
  /\ \E changed \in BOOLEAN : Decide(changed)
  /\ UNCHANGED <<snapshot, last_done_epoch, done_mask, searchVars, uses, bufVars, keepVars, applyVars>>

Prepare(c) == Snapshot(c) \/ Pop(c) \/ SignalId(c) \/ (c = Lead /\ LeadDecides)

----------------------------------------------------------------------------
(* thread_seam_find *)

Step(from, to) == spc = from /\ spc' = to

\* Mutant: the join does not clear its mask.
WaitAll_NoClear ==
  /\ Step("wait", "epoch") /\ done_mask = Cams
  /\ UNCHANGED <<leadVars, prepVars, done_mask, e, last_seen_epoch, searches, uses, bufVars, keepVars, applyVars>>

WaitAll ==
  /\ Step("wait", "epoch") /\ done_mask = Cams /\ done_mask' = {}
  /\ UNCHANGED <<leadVars, prepVars, e, last_seen_epoch, searches, uses, bufVars, keepVars, applyVars>>

\* The epoch is read after the join: a join of an epoch searched before is dropped.
ReadEpoch ==
  /\ spc = "epoch" /\ e' = seam_epoch
  /\ spc' = IF seam_epoch \in {0, last_seen_epoch} THEN "wait" ELSE "feed"
  /\ UNCHANGED <<leadVars, prepVars, done_mask, last_seen_epoch, searches, uses, bufVars, keepVars, applyVars>>

\* Mutant: the buffer in front is written.
Fill_Front(buf, n) == made' = [made EXCEPT ![buf][front[buf]] = n]
Fill(buf, n) == made' = [made EXCEPT ![buf][1 - front[buf]] = n]
Flip(buf) == front' = [front EXCEPT ![buf] = 1 - @]

\* The compensator reads the images, its gains go into the back buffer.
Feed ==
  /\ Step("feed", "flip_gain")
  /\ searches' = searches + 1
  /\ uses' = [c \in Cams |-> uses[c] + 1]
  /\ Fill("gain", searches + 1)
  /\ UNCHANGED <<leadVars, prepVars, done_mask, e, last_seen_epoch, front, gain_epoch, keepVars, applyVars>>

FlipGains ==
  /\ Step("flip_gain", "announce") /\ Flip("gain")
  /\ UNCHANGED <<leadVars, prepVars, done_mask, e, last_seen_epoch, searches, uses, made, gain_epoch, keepVars, applyVars>>

AnnounceGains ==
  /\ Step("announce", "find") /\ gain_epoch' = gain_epoch + 1
  /\ UNCHANGED <<leadVars, prepVars, done_mask, e, last_seen_epoch, searches, uses, front, made, keepVars, applyVars>>

\* Mutant: the seam is saved once and never again.
SaveDue_Once == re_seam_12 = 0

SaveDue == re_seam_12 % KeepFor = 0

\* The base is compared unsigned: one below 0 is a large one.
SearchesAreFast == seam_c_base \in 0 .. SmallBase

\* The finder's masks go into the back buffer. While searches come fast, the
\* seam between cameras 1 and 2 is kept.
Find ==
  /\ Step("find", "flip_mask") /\ Fill("mask", searches)
  /\ \/ ~SearchesAreFast /\ UNCHANGED keepVars
     \/ /\ SearchesAreFast /\ SaveDue
        /\ saved' = TRUE /\ restored' = 0 /\ re_seam_12' = 1
     \/ /\ SearchesAreFast /\ ~SaveDue
        /\ restored' = restored + 1 /\ re_seam_12' = re_seam_12 + 1 /\ UNCHANGED saved
  /\ UNCHANGED <<leadVars, prepVars, done_mask, e, last_seen_epoch, searches, uses, front, gain_epoch, applyVars>>

\* Mutant: the mask of the join is cleared again when the search is done.
FlipMasks_ClearMask ==
  /\ Step("flip_mask", "wait") /\ Flip("mask") /\ last_seen_epoch' = e /\ done_mask' = {}
  /\ UNCHANGED <<leadVars, prepVars, e, searches, uses, made, gain_epoch, keepVars, applyVars>>

FlipMasks ==
  /\ Step("flip_mask", "wait") /\ Flip("mask") /\ last_seen_epoch' = e
  /\ UNCHANGED <<leadVars, prepVars, done_mask, e, searches, uses, made, gain_epoch, keepVars, applyVars>>

SeamFind ==
  WaitAll \/ ReadEpoch \/ Feed \/ FlipGains \/ AnnounceGains \/ Find \/ FlipMasks

----------------------------------------------------------------------------
(* thread_blender_apply: the masks are chosen before the gains; the kernels *)
(* read both until the GPU is done.                                         *)

Front(buf) == [at |-> front[buf], made |-> made[buf][front[buf]]]

Warm ==
  /\ apc = "warm" /\ gain_epoch # 0 /\ apc' = "mask"
  /\ UNCHANGED <<leadVars, prepVars, done_mask, searchVars, uses, bufVars, keepVars, reading>>

\* Mutant: the gains are chosen before the masks.
TakeFront_Swapped(buf, from, to) ==
  LET other == IF buf = "mask" THEN "gain" ELSE "mask" IN
    /\ apc = from /\ apc' = to
    /\ reading' = [reading EXCEPT ![other] = Front(other)]
    /\ UNCHANGED <<leadVars, prepVars, done_mask, searchVars, uses, bufVars, keepVars>>

TakeFront(buf, from, to) ==
  /\ apc = from /\ apc' = to
  /\ reading' = [reading EXCEPT ![buf] = Front(buf)]
  /\ UNCHANGED <<leadVars, prepVars, done_mask, searchVars, uses, bufVars, keepVars>>

TakeMasks == TakeFront("mask", "mask", "gain")
TakeGains == TakeFront("gain", "gain", "draw")

Drawn ==
  /\ apc = "draw" /\ apc' = "mask" /\ reading' = Nothing
  /\ UNCHANGED <<leadVars, prepVars, done_mask, searchVars, uses, bufVars, keepVars>>

Apply == Warm \/ TakeMasks \/ TakeGains \/ Drawn

Next == SeamFind \/ Apply \/ \E c \in Cams : Prepare(c)

\* Threads that can run do run. Nothing makes the cameras send frames.
Spec ==
  /\ Init /\ [][Next]_vars
  /\ WF_vars(SeamFind)
  /\ \A c \in Cams : WF_vars(Snapshot(c)) /\ WF_vars(SignalId(c)) /\ WF_vars(c = Lead /\ LeadDecides)

----------------------------------------------------------------------------
(* Properties *)

TypeOK ==
  /\ TriggerTypeOK
  /\ pc \in [Cams -> {"snapshot", "pop", "signal", "decide"}]
  /\ snapshot \in [Cams -> 0 .. MaxEpoch] /\ last_done_epoch \in [Cams -> 0 .. MaxEpoch]
  /\ uses \in [Cams -> Nat] /\ done_mask \subseteq Cams
  /\ spc \in {"wait", "epoch", "feed", "flip_gain", "announce", "find", "flip_mask"}
  /\ e \in 0 .. MaxEpoch /\ last_seen_epoch \in 0 .. MaxEpoch
  /\ searches \in 0 .. MaxEpoch /\ gain_epoch \in 0 .. MaxEpoch
  /\ front \in [Buffers -> {0, 1}]
  /\ made \in [Buffers -> [{0, 1} -> -1 .. MaxEpoch]]
  /\ re_seam_12 \in 0 .. KeepFor /\ saved \in BOOLEAN /\ restored \in Nat
  /\ apc \in {"warm", "mask", "gain", "draw"}
  /\ reading \in [Buffers -> [at : {0, 1}, made : -1 .. MaxEpoch]]

\* An image is used by at most three searches: by the one in progress when it
\* was copied, by the next, for which the image before it has set the camera's
\* bit, and by the one after that, for its own bit.
ImagesAreReplaced == \A c \in Cams : uses[c] <= 3

\* The apply thread never draws with gains nobody uploaded, and never with
\* masks of a later search than the gains.
GainsAreThere ==
  apc = "draw" => reading["gain"].made >= 1 /\ reading["gain"].made >= reading["mask"].made

\* Kernels that read a front buffer have it to themselves for a whole search:
\* only a draw that lasts until the search after the next sees it overwritten.
FrontIsStable ==
  \A buf \in Buffers :
    LET r == reading[buf] IN
      apc = "draw" /\ made[buf][r.at] # r.made => made[buf][r.at] >= r.made + 2

\* The kept seam between cameras 1 and 2 was saved by a search, and is used
\* again by fewer than KeepFor searches.
KeptSeamIsReplaced ==
  /\ restored < KeepFor
  /\ restored > 0 => saved

\* What a search works on is of its own time: images of the last joins, and a
\* kept seam that some search saved and few have used.
SeamInv == TypeOK /\ ImagesAreReplaced /\ KeptSeamIsReplaced

\* What the apply thread draws with, though it takes no lock: gains that some
\* search uploaded and none older than the masks, from buffers that are written
\* meanwhile only when one draw outlasts the whole next search.
ReaderIsSafe == GainsAreThere /\ FrontIsStable

\* While the cameras send frames every epoch is searched, or a later one is:
\* when no epoch begins any more, the last one is searched and stays it.
EpochsAreSearched ==
  (\A c \in Cams : WF_vars(Pop(c))) => <>[](last_seen_epoch = seam_epoch)
=============================================================================
