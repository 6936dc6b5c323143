----------------------------- MODULE TrackTable -----------------------------
(***************************************************************************)
(* What thread_infer_worker does with the detections of a frame: by the    *)
(* AI mode it runs the tracker, updates the table of tracks and makes the  *)
(* boxes to draw. ByteTrack is external: any tracks, each with one id, come*)
(* out of it. How well a track and a detection overlap is a level from 0   *)
(* (not at all) to Best; the worker takes every overlap from Enough up.    *)
(***************************************************************************)
EXTENDS Integers, Sequences, FiniteSets, SequencesExt

CONSTANTS
  Ids,      \* the ids ByteTrack gives
  MAX_LOST, \* frames a track may be missing, 5 in the code
  MaxDets,  \* bound on the detections of a frame
  Best,     \* the highest level of overlap
  Enough,   \* IOU_THRESHOLD
  MaxCalls  \* bound on the frames

ASSUME TrackAssumption ==
  /\ IsFiniteSet(Ids) /\ MAX_LOST \in Nat /\ MaxDets \in Nat /\ MaxCalls \in Nat
  /\ Best \in Nat /\ Enough \in 1 .. Best

VARIABLES
  mode,     \* AiRuntime.mode: 0 off, 1 detect only, 2 detect to track
  table,    \* g_tracks_by_id: lost_count of the tracks it holds
  matched,  \* history: the tracks of the last frame, their overlaps, who took what
  calls,    \* history: frames so far
  seen      \* history: the frame each id was last in, 0 before the first

trackVars == <<mode, table, matched, calls, seen>>

NoMatch == [tracks |-> <<>>, dets |-> 0, overlap |-> <<>>, took |-> <<>>]

\* init_ai_runtime_from_cfg: anything but 1 and 2 is off; the mode then stays.
Objectdet(n) == IF n \in {1, 2} THEN n ELSE 0

TrackInit ==
  /\ \E objectdet \in 0 .. 3 : mode = Objectdet(objectdet)
  /\ table = <<>> /\ matched = NoMatch /\ calls = 0 /\ seen = [i \in Ids |-> 0]

\* Mutant: a detection may be taken again.
Unused_All(dets, took, k) == 1 .. dets

\* Detections no track before the k-th took.
Unused(dets, took, k) == (1 .. dets) \ {took[j] : j \in 1 .. k - 1}

\* Mutant: the first detection that overlaps enough will do, the next if it
\* does not.
Pick_First(overlap, open) ==
  IF open = {} THEN 0
  ELSE LET d == CHOOSE e \in open : \A f \in open : e <= f IN
       IF overlap[d] >= Enough THEN d ELSE 0

\* The open detection with the best overlap, the first of equals; 0 if even
\* that one is too far away: the track then keeps the box of its own.
Pick(overlap, open) ==
  IF \A d \in open : overlap[d] < Enough THEN 0
  ELSE CHOOSE d \in open : \A e \in open :
         overlap[e] < overlap[d] \/ (overlap[e] = overlap[d] /\ d <= e)

\* The loop over output_tracks: each track in turn picks among what is left.
\* There is one such outcome.
Match(tracks, overlap, dets) ==
  {took \in [DOMAIN tracks -> 0 .. dets] :
     \A k \in DOMAIN tracks : took[k] = Pick(overlap[tracks[k]], Unused(dets, took, k))}

\* Mutant: a track that comes back goes on with its old count.
Refreshed_KeepsCount(id) ==
  IF id \in DOMAIN table THEN table[id] ELSE 0

\* A track of this frame is not lost, be it known or new.
Refreshed(id) == 0

\* The other tracks are one frame more lost, and go when they were lost too long.
UpdateTrackTable(tracks, overlap, dets) ==
  LET now  == ToSet(tracks)
      kept == now \cup {i \in DOMAIN table \ now : table[i] + 1 <= MAX_LOST} IN
  /\ table' = [i \in kept |-> IF i \in now THEN Refreshed(i) ELSE table[i] + 1]
  /\ \E took \in Match(tracks, overlap, dets) :
       matched' = [tracks |-> tracks, dets |-> dets, overlap |-> overlap, took |-> took]

\* Every order of every set of tracks.
Tracks == UNION {SetToSeqs(S) : S \in SUBSET Ids}

\* A frame of thread_infer_worker: only in mode 2 the tracks are looked at.
InferFrame ==
  /\ calls < MaxCalls
  /\ IF mode = 2
     THEN \E tracks \in Tracks, dets \in 0 .. MaxDets :
            \E overlap \in [ToSet(tracks) -> [1 .. dets -> 0 .. Best]] :
              /\ UpdateTrackTable(tracks, overlap, dets)
              /\ seen' = [i \in Ids |-> IF i \in ToSet(tracks) THEN calls + 1 ELSE seen[i]]
     ELSE UNCHANGED <<table, matched, seen>>
  /\ calls' = calls + 1
  /\ UNCHANGED mode

TrackNext == InferFrame

----------------------------------------------------------------------------
(* Properties *)

\* The table holds exactly the ids that were in one of the last MAX_LOST + 1
\* frames, each with the number of frames since: a track that comes and goes
\* is neither forgotten early nor kept for ever.
TableIsRecent ==
  mode = 2 =>
    /\ DOMAIN table = {i \in Ids : seen[i] > 0 /\ calls - seen[i] <= MAX_LOST}
    /\ \A i \in DOMAIN table : table[i] = calls - seen[i]

\* No detection is taken by two tracks, and where a track keeps its own box
\* every detection that overlaps it enough was taken by a track before it: the
\* greedy choice leaves no pair that could still be matched.
MatchIsMaximal ==
  LET took == matched.took
      pos  == DOMAIN took IN
  /\ \A j, k \in pos : j # k /\ took[j] = took[k] => took[j] = 0
  /\ \A j \in pos, d \in 1 .. matched.dets :
       took[j] = 0 /\ matched.overlap[matched.tracks[j]][d] >= Enough =>
         \E k \in pos : k < j /\ took[k] = d

\* The tracks are matched as well as the greedy choice can, and the table
\* remembers just those that were there lately.
TableInv == TableIsRecent /\ MatchIsMaximal
=============================================================================
