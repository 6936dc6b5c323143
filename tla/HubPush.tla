------------------------------ MODULE HubPush ------------------------------
(***************************************************************************)
(* How frames enter the encoder hubs (H265Hub, H264Hub). A pusher thread,  *)
(* one per camera or the apply thread, asks for every hub of its picture   *)
(* whether somebody wants it and whether StreamFpsGate lets it through,    *)
(* stamps the GstBuffer and pushes it into the hub's appsrc. The capture   *)
(* thread pushes one GstBuffer to all its hubs, the apply thread makes one *)
(* for each. The hub's streaming thread reads the timestamp later. RTSP    *)
(* clients come and go; at shutdown the main thread tears the hubs down.   *)
(* Time is counted in trigger periods, the pace of the full 60 fps.        *)
(***************************************************************************)
EXTENDS Integers, Sequences, FiniteSets

CONSTANTS
  Feeds,    \* the pictures to look at, each a record of
            \*   dur: the frame time of each of its hubs, 1 for 60 fps
            \*   shared: all its hubs get the same GstBuffer (capture_thread)
            \*   stops: the main thread shuts the hubs down
            \*   frames, until: bounds on the pictures and on the clock
  Recorded, \* hubs that record, wanted without any viewer
  Gaps,     \* periods from one picture to the next: 1, more when some are missed
  MaxJoins  \* bound on the viewers that ever join

ASSUME HubAssumption ==
  /\ \A f \in Feeds : /\ f.dur \in Seq(Nat \ {0}) /\ f.dur # <<>>
                      /\ f.shared \in BOOLEAN /\ f.stops \in BOOLEAN
                      /\ f.frames \in Nat /\ f.until \in Nat \ {0}
  /\ Gaps \subseteq Nat \ {0} /\ MaxJoins \in Nat

VARIABLES
  feed,     \* the picture, one of Feeds
  now,      \* CLOCK_MONOTONIC
  frame,    \* the number of the picture being pushed
  at,       \* the hub the pusher is at
  step,     \* and what it does there
  loaded,   \* last_ns as allow() loaded it
  last,     \* StreamFpsGate.last_ns, 0 after a reset
  credit,   \* StreamFpsGate.credit_ns
  viewers,  \* viewer counts
  joins,    \* history: gate resets by viewers of each hub
  t0,       \* H265Hub.t0_ns_, 0 before the first push
  prev,     \* H265Hub.last_pts_
  started,  \* hubs with started set
  life,     \* of a hub: "playing", "eos", "null" (state NULL), "freed"
  pts,      \* GST_BUFFER_PTS of each buffer
  refs,     \* its reference count
  queued,   \* buffers between appsrc and the reader of the timestamp
  shown     \* history: the timestamp each encoder was given last

gateVars == <<loaded, last, credit>>
lifeVars == <<started, life>>
vars == <<feed, now, frame, at, step, gateVars, viewers, joins, t0, prev, lifeVars,
          pts, refs, queued, shown>>

Hubs    == DOMAIN feed.dur
NumHubs == Len(feed.dur)
Dur     == feed.dur
Shared  == feed.shared

\* The buffer for hub h of the present picture.
Buf(h) == <<frame, IF Shared THEN 1 ELSE h>>
Buffers == (1 .. feed.frames) \X Hubs

Init ==
  /\ feed \in Feeds
  /\ now = 1 /\ frame = 0 /\ at = NumHubs /\ step = "idle"
  /\ loaded = 0
  /\ last = [h \in Hubs |-> 0] /\ credit = [h \in Hubs |-> 0]
  /\ viewers = [h \in Hubs |-> 0] /\ joins = [h \in Hubs |-> 0]
  /\ t0 = [h \in Hubs |-> 0] /\ prev = [h \in Hubs |-> 0]
  /\ started = Hubs /\ life = [h \in Hubs |-> "playing"]
  /\ pts = [b \in Buffers |-> 0] /\ refs = [b \in Buffers |-> 0]
  /\ queued = [h \in Hubs |-> <<>>] /\ shown = [h \in Hubs |-> 0]

----------------------------------------------------------------------------
(* The pusher *)

\* The frame is done with, its sample goes.
Release(b) == IF Shared /\ frame > 0 THEN [refs EXCEPT ![b] = @ - 1] ELSE refs

\* The next picture; a captured one is held by its sample.
NextPicture ==
  /\ step = "idle" /\ frame < feed.frames
  /\ \E d \in Gaps : now + d <= feed.until /\ now' = now + d
  /\ frame' = frame + 1
  /\ at' = 1 /\ step' = "want"
  /\ refs' = IF Shared THEN [Release(<<frame, 1>>) EXCEPT ![<<frame + 1, 1>>] = 1] ELSE refs
  /\ UNCHANGED <<gateVars, viewers, joins, t0, prev, lifeVars, pts, queued, shown>>

\* Mutant: one hub too many.
Done_PastEnd ==
  IF at > NumHubs THEN at' = at /\ step' = "idle" ELSE at' = at + 1 /\ step' = "idle"

\* On to the next hub.
Done ==
  IF at = NumHubs THEN at' = at /\ step' = "idle" ELSE at' = at + 1 /\ step' = "want"

\* want_push: somebody looks or the hub records.
Wanted(h) == viewers[h] > 0 \/ h \in Recorded

Want ==
  /\ step = "want"
  /\ IF Wanted(at) THEN step' = "gate" /\ at' = at ELSE Done
  /\ UNCHANGED <<now, frame, gateVars, viewers, joins, t0, prev, lifeVars, pts, refs, queued, shown>>

\* StreamFpsGate::allow. At 60 fps everything passes; else the clock since the
\* last call is earned as credit, up to two periods, and a picture costs one.
\* The loads and stores are atomics, not a critical section.
GateLoad ==
  /\ step = "gate"
  /\ step' = IF Dur[at] <= 1 THEN "check" ELSE "allow"
  /\ loaded' = last[at]
  /\ UNCHANGED <<now, frame, at, last, credit, viewers, joins, t0, prev, lifeVars, pts, refs, queued, shown>>

\* Mutant: credit without a ceiling.
Earned_Uncapped(h) == credit[h] + (now - loaded)

Earned(h) ==
  LET sum == credit[h] + (now - loaded) IN IF sum > 2 * Dur[h] THEN 2 * Dur[h] ELSE sum

\* A fresh gate passes at once, with a whole period to spend.
First == loaded = 0 \/ now < loaded

Passes(h) == First \/ Earned(h) >= Dur[h]

GateStore ==
  /\ step = "allow"
  /\ last' = [last EXCEPT ![at] = now]
  /\ credit' = [credit EXCEPT ![at] =
                  IF First THEN Dur[at]
                  ELSE IF Passes(at) THEN Earned(at) - Dur[at] ELSE Earned(at)]
  /\ IF Passes(at) THEN step' = "check" /\ at' = at ELSE Done
  /\ UNCHANGED <<now, frame, loaded, viewers, joins, t0, prev, lifeVars, pts, refs, queued, shown>>

\* Mutant: the shared buffer is pushed without gst_buffer_ref.
PushCheck_NoRef ==
  /\ step = "check"
  /\ IF at \in started THEN step' = "state" /\ at' = at ELSE Done
  /\ UNCHANGED <<now, frame, gateVars, viewers, joins, t0, prev, lifeVars, pts, refs, queued, shown>>

\* push_nvmm_rgba_buffer is handed a reference: a new one of the shared buffer,
\* or the only one of a buffer made for this hub. It looks at started and at
\* the pointers without a lock.
PushCheck ==
  /\ step = "check"
  /\ IF at \in started
     THEN refs' = [refs EXCEPT ![Buf(at)] = @ + 1] /\ step' = "state" /\ at' = at
     ELSE Done /\ UNCHANGED refs
  /\ UNCHANGED <<now, frame, gateVars, viewers, joins, t0, prev, lifeVars, pts, queued, shown>>

\* gst_element_get_state: a pipeline below PAUSED does not get the buffer.
PushState ==
  /\ step = "state"
  /\ IF life[at] \in {"playing", "eos"} THEN step' = "stamp" /\ at' = at /\ UNCHANGED refs
     ELSE Done /\ refs' = [refs EXCEPT ![Buf(at)] = @ - 1]
  /\ UNCHANGED <<now, frame, gateVars, viewers, joins, t0, prev, lifeVars, pts, queued, shown>>

\* Mutant: the quantised clock, monotonic or not.
Stamp_Clock(h, zero) == ((now - zero) \div Dur[h]) * Dur[h]

\* The clock since the first push, in whole frame times, and at least one frame
\* time after the stamp before.
Stamp(h, zero) ==
  LET q == ((now - zero) \div Dur[h]) * Dur[h] IN IF q <= prev[h] THEN prev[h] + Dur[h] ELSE q

PushStamp ==
  /\ step = "stamp"
  /\ LET zero == IF t0[at] = 0 THEN now ELSE t0[at]
         new  == Stamp(at, zero) IN
     /\ t0' = [t0 EXCEPT ![at] = zero]
     /\ prev' = [prev EXCEPT ![at] = new]
     /\ pts' = [pts EXCEPT ![Buf(at)] = new]
  /\ step' = "push"
  /\ UNCHANGED <<now, frame, at, gateVars, viewers, joins, lifeVars, refs, queued, shown>>

\* gst_app_src_push_buffer owns the reference from here on, whatever it returns.
\* After end-of-stream or in state NULL it drops it and returns an error, and
\* the hub then drops "its" reference.
PushQueue ==
  /\ step = "push"
  /\ IF life[at] = "playing"
     THEN queued' = [queued EXCEPT ![at] = Append(@, Buf(at))] /\ UNCHANGED refs
     ELSE refs' = [refs EXCEPT ![Buf(at)] = @ - 2] /\ UNCHANGED queued
  /\ Done
  /\ UNCHANGED <<now, frame, gateVars, viewers, joins, t0, prev, lifeVars, pts, shown>>

----------------------------------------------------------------------------
(* The hub's streaming thread, the viewers and the main thread *)

\* The timestamp is read when the buffer reaches the encoder's side ...
Emit(h) ==
  /\ queued[h] # <<>> /\ life[h] \in {"playing", "eos"}
  /\ shown' = [shown EXCEPT ![h] = pts[Head(queued[h])]]
  /\ refs' = [refs EXCEPT ![Head(queued[h])] = @ - 1]
  /\ queued' = [queued EXCEPT ![h] = Tail(@)]
  /\ UNCHANGED <<now, frame, at, step, gateVars, viewers, joins, t0, prev, lifeVars, pts>>

\* ... unless the leaky queue drops the oldest for a newer one.
Leak(h) ==
  /\ Len(queued[h]) > 1 /\ life[h] \in {"playing", "eos"}
  /\ refs' = [refs EXCEPT ![Head(queued[h])] = @ - 1]
  /\ queued' = [queued EXCEPT ![h] = Tail(@)]
  /\ UNCHANGED <<now, frame, at, step, gateVars, viewers, joins, t0, prev, lifeVars, pts, shown>>

\* viewer_inc resets the gate, so that the newcomer gets a picture at once.
ViewerInc(h) ==
  /\ joins[h] < MaxJoins
  /\ last' = [last EXCEPT ![h] = 0] /\ credit' = [credit EXCEPT ![h] = 0]
  /\ viewers' = [viewers EXCEPT ![h] = @ + 1] /\ joins' = [joins EXCEPT ![h] = @ + 1]
  /\ UNCHANGED <<now, frame, at, step, loaded, t0, prev, lifeVars, pts, refs, queued, shown>>

ViewerDec(h) ==
  /\ viewers[h] > 0
  /\ viewers' = [viewers EXCEPT ![h] = @ - 1]
  /\ UNCHANGED <<now, frame, at, step, gateVars, joins, t0, prev, lifeVars, pts, refs, queued, shown>>

\* stop_rec and stop, hub after hub: the flag, end-of-stream where a recording
\* is to be finished, state NULL, the last references.
Turn(h) == feed.stops /\ \A g \in Hubs : g < h => life[g] = "freed"

StopFlag(h) ==
  /\ Turn(h) /\ h \in started
  /\ started' = started \ {h}
  /\ UNCHANGED <<now, frame, at, step, gateVars, viewers, joins, t0, prev, life, pts, refs, queued, shown>>

EndOfStream(h) ==
  /\ Turn(h) /\ h \notin started /\ h \in Recorded /\ life[h] = "playing"
  /\ life' = [life EXCEPT ![h] = "eos"]
  /\ UNCHANGED <<now, frame, at, step, gateVars, viewers, joins, t0, prev, started, pts, refs, queued, shown>>

\* State NULL flushes what is queued.
CountOf(b, s) == Cardinality({i \in DOMAIN s : s[i] = b})

SetNull(h) ==
  /\ Turn(h) /\ h \notin started
  /\ life[h] = IF h \in Recorded THEN "eos" ELSE "playing"
  /\ life' = [life EXCEPT ![h] = "null"]
  /\ refs' = [b \in Buffers |-> refs[b] - CountOf(b, queued[h])]
  /\ queued' = [queued EXCEPT ![h] = <<>>]
  /\ UNCHANGED <<now, frame, at, step, gateVars, viewers, joins, t0, prev, started, pts, shown>>

Unref(h) ==
  /\ Turn(h) /\ life[h] = "null"
  /\ life' = [life EXCEPT ![h] = "freed"]
  /\ UNCHANGED <<now, frame, at, step, gateVars, viewers, joins, t0, prev, started, pts, refs, queued, shown>>

Push == NextPicture \/ Want \/ GateLoad \/ GateStore \/ PushCheck \/ PushState \/ PushStamp \/ PushQueue

Hub(h) ==
  \/ Emit(h) \/ Leak(h) \/ ViewerInc(h) \/ ViewerDec(h)
  \/ StopFlag(h) \/ EndOfStream(h) \/ SetNull(h) \/ Unref(h)

Next == UNCHANGED feed /\ (Push \/ \E h \in Hubs : Hub(h))

Spec == Init /\ [][Next]_vars

----------------------------------------------------------------------------
\* The variables have their types.
TypeOK ==
  /\ feed \in Feeds /\ now \in 1 .. feed.until /\ frame \in 0 .. feed.frames /\ at \in Hubs
  /\ step \in {"idle", "want", "gate", "allow", "check", "state", "stamp", "push"}
  /\ loaded \in 0 .. now /\ last \in [Hubs -> 0 .. now] /\ credit \in [Hubs -> Nat]
  /\ viewers \in [Hubs -> 0 .. MaxJoins] /\ joins \in [Hubs -> 0 .. MaxJoins]
  /\ t0 \in [Hubs -> 0 .. now] /\ prev \in [Hubs -> Nat]
  /\ started \subseteq Hubs /\ life \in [Hubs -> {"playing", "eos", "null", "freed"}]
  /\ pts \in [Buffers -> Nat] /\ refs \in [Buffers -> Int]
  /\ \A h \in Hubs : queued[h] \in Seq(Buffers) /\ shown[h] \in Nat

\* "Enforce monotonic (+dur)": the encoder of a hub never gets a timestamp less
\* than one frame time after the one before, whatever was skipped or leaked,
\* unless another hub stamps the same buffer.
PtsMonotonic ==
  [][\A h \in Hubs : Emit(h) /\ (~Shared \/ NumHubs = 1)
       => shown'[h] >= shown[h] + Dur[h]]_vars

\* A stamp that is pushed up by a frame time when pictures come too fast runs
\* ahead of the clock; the gate keeps that to a bounded number of frames, plus
\* what the gate gives away each time a viewer's arrival resets it.
PtsTracksClock ==
  \A h \in Hubs : t0[h] # 0 => prev[h] <= (now - t0[h]) + (2 + 2 * joins[h]) * Dur[h]

\* The timestamps of a hub keep in step with the clock and never go back.
PtsSound == []PtsTracksClock /\ PtsMonotonic

\* Every reference of a buffer has one holder: its sample, the pusher inside
\* push_nvmm_rgba_buffer, or a queue.
Holders(b) ==
  (IF Shared /\ b = <<frame, 1>> THEN 1 ELSE 0)
  + (IF step \in {"state", "stamp", "push"} /\ b = Buf(at) THEN 1 ELSE 0)
  + Cardinality({p \in Hubs \X (1 .. feed.frames) :
                   p[2] \in DOMAIN queued[p[1]] /\ queued[p[1]][p[2]] = b})

\* ... as long as no hub is being stopped.
RefsMatchHolders == started = Hubs => \A b \in Buffers : refs[b] = Holders(b)

\* The variables have their types, and no buffer is leaked or released twice.
HubInv == TypeOK /\ RefsMatchHolders
=============================================================================
