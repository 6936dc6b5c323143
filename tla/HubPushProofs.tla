---------------------------- MODULE HubPushProofs ----------------------------
(***************************************************************************)
(* Why no buffer of a hub is leaked and no timestamp goes back or runs     *)
(* away. A queue holds a buffer of a picture at most once, oldest first,   *)
(* so the holders of a buffer are counted queue by queue. A hub stamps in  *)
(* whole frame times, each above the one before. How far the stamps are    *)
(* ahead of the clock is paid for by the gate: what it let through and has *)
(* not been stamped yet, and the credit it still holds, are part of the    *)
(* same budget, and a viewer's arrival adds two frame times to it.         *)
(***************************************************************************)
EXTENDS HubPush, SequenceTheorems, FiniteSetTheorems, TLAPS

Steps == {"idle", "want", "gate", "allow", "check", "state", "stamp", "push"}
Lives == {"playing", "eos", "null", "freed"}

\* The pusher has been past hub h with the present picture.
Past(h) == at > h \/ (at = h /\ step = "idle")

Control ==
  /\ step = "idle" => at = NumHubs
  /\ step # "idle" => frame # 0
  /\ \A h \in Hubs : /\ life[h] # "playing" => h \notin started
                     /\ viewers[h] <= joins[h]

Typed ==
  /\ TypeOK
  /\ queued \in [Hubs -> Seq(Buffers)] /\ shown \in [Hubs -> Nat]
  /\ Control

\* The buffers of hub h come from the second component of Buf(h), and a queue
\* has them in the order of the pictures, no two of one picture.
Column(h) == IF Shared THEN 1 ELSE h

QueueOrdered(h) ==
  \A i \in 1 .. Len(queued[h]) :
    /\ queued[h][i][2] = Column(h)
    /\ i <= queued[h][i][1] /\ queued[h][i][1] <= frame
    /\ queued[h][i][1] = frame => Past(h)
    /\ \A j \in 1 .. (i - 1) : queued[h][j][1] < queued[h][i][1]

QueuesOrdered == \A h \in Hubs : QueueOrdered(h)

RefsInv == Typed /\ QueuesOrdered /\ RefsMatchHolders

Solo == ~Shared \/ NumHubs = 1

\* The newest stamp that hub h has pushed.
Pushed(h) == IF step = "push" /\ at = h THEN prev[h] - Dur[h] ELSE prev[h]

InFrameTimes(n, d) == \E k \in 0 .. n : n = k * d

\* A hub's stamps are whole frame times; those in its queue are a frame time
\* apart and come after the one its encoder got last.
StampsOrdered(h) ==
  /\ shown[h] <= Pushed(h)
  /\ step = "push" /\ at = h => pts[Buf(h)] = prev[h]
  /\ \A i \in 1 .. Len(queued[h]) :
       /\ shown[h] + Dur[h] <= pts[queued[h][i]] /\ pts[queued[h][i]] <= Pushed(h)
       /\ \A j \in 1 .. (i - 1) : pts[queued[h][j]] + Dur[h] <= pts[queued[h][i]]

MonotonicInv ==
  /\ Typed /\ QueuesOrdered
  /\ \A h \in Hubs : InFrameTimes(prev[h], Dur[h])
  /\ Solo => \A h \in Hubs : StampsOrdered(h)

\* A frame the gate let through and that has no stamp yet.
Pending(h) == at = h /\ step \in {"check", "state", "stamp"}
Owed(h)    == IF Pending(h) THEN Dur[h] ELSE 0

\* The time from which the gate counts what is earned next, 0 after a reset.
Since(h) == IF at = h /\ step = "allow" THEN loaded ELSE last[h]

Budget(h) == (2 + 2 * joins[h]) * Dur[h]

FullRate(h) ==
  t0[h] # 0 => prev[h] <= (now - t0[h]) + (IF Past(h) \/ (at = h /\ step = "push") THEN 1 ELSE 0)

Gated(h) ==
  /\ Pending(h) => /\ credit[h] <= Dur[h]
                   /\ last[h] = now \/ (last[h] = 0 /\ joins[h] >= 1)
  /\ t0[h] # 0 => IF Since(h) # 0
                  THEN prev[h] + Owed(h) + credit[h] <= (Since(h) - t0[h]) + Budget(h)
                  ELSE prev[h] + Owed(h) + 2 * Dur[h] <= (now - t0[h]) + Budget(h)

ClockInv ==
  /\ Typed
  /\ \A h \in Hubs : /\ t0[h] = 0 => prev[h] = 0
                     /\ at = h /\ step = "allow" => Dur[h] # 1
                     /\ IF Dur[h] = 1 THEN FullRate(h) ELSE Gated(h)

----------------------------------------------------------------------------
(* The picture does not change, and its constants have their types *)

LEMMA FeedTyped ==
  ASSUME feed \in Feeds
  PROVE  /\ NumHubs \in Nat /\ NumHubs >= 1 /\ Hubs = 1 .. NumHubs
         /\ \A h \in Hubs : h \in Nat /\ Dur[h] \in Nat /\ Dur[h] >= 1
         /\ Shared \in BOOLEAN /\ feed.frames \in Nat /\ feed.until \in Nat \ {0}
<1>1. /\ feed.dur \in Seq(Nat \ {0}) /\ feed.dur # <<>>
      /\ feed.shared \in BOOLEAN /\ feed.frames \in Nat /\ feed.until \in Nat \ {0}
  BY HubAssumption
<1>2. NumHubs \in Nat \ {0} /\ Hubs = 1 .. NumHubs
  BY <1>1, LenProperties, EmptySeq DEF NumHubs, Hubs
<1>3. ASSUME NEW h \in Hubs PROVE Dur[h] \in Nat \ {0}
  BY <1>1, <1>2, ElementOfSeq DEF NumHubs, Dur
<1> QED BY <1>1, <1>2, <1>3 DEF Shared

LEMMA SameFeed ==
  ASSUME UNCHANGED feed
  PROVE  /\ Hubs' = Hubs /\ NumHubs' = NumHubs /\ Dur' = Dur /\ Shared' = Shared
         /\ Buffers' = Buffers
BY DEF Hubs, NumHubs, Dur, Shared, Buffers

LEMMA BufTyped ==
  ASSUME Typed, step # "idle"
  PROVE  /\ Buf(at) \in Buffers /\ Buf(at)[1] = frame /\ Buf(at)[2] = Column(at)
         /\ frame \in 1 .. feed.frames /\ at \in Hubs
<1>1. feed \in Feeds /\ at \in Hubs /\ frame \in 0 .. feed.frames /\ frame # 0
  BY DEF Typed, TypeOK, Control
<1>2. /\ NumHubs \in Nat /\ NumHubs >= 1 /\ Hubs = 1 .. NumHubs
      /\ Shared \in BOOLEAN /\ feed.frames \in Nat
  BY <1>1, FeedTyped
<1>3. frame \in 1 .. feed.frames /\ Column(at) \in Hubs
  BY <1>1, <1>2 DEF Column
<1> QED BY <1>1, <1>3 DEF Buf, Buffers, Column

\* The pusher's next hub, or the end of the picture.
LEMMA DoneTyped ==
  ASSUME Typed, step # "idle", Done
  PROVE  /\ at' \in Hubs /\ step' \in {"idle", "want"}
         /\ step' = "idle" => at' = NumHubs
         /\ \A h \in Hubs : Past(h)' <=> Past(h) \/ h = at
<1>1. feed \in Feeds /\ at \in Hubs
  BY DEF Typed, TypeOK
<1>2. NumHubs \in Nat /\ NumHubs >= 1 /\ Hubs = 1 .. NumHubs
  BY <1>1, FeedTyped
<1>3. CASE at = NumHubs
  <2>1. at' = at /\ step' = "idle"
    BY <1>3 DEF Done
  <2> QED BY <2>1, <1>1, <1>2, <1>3 DEF Past
<1>4. CASE at # NumHubs
  <2>1. at' = at + 1 /\ step' = "want"
    BY <1>4 DEF Done
  <2> QED BY <2>1, <1>1, <1>2, <1>4 DEF Past
<1> QED BY <1>3, <1>4

----------------------------------------------------------------------------
(* Type correctness *)

LEMMA InitTyped == Init => Typed
<1> SUFFICES ASSUME Init PROVE Typed
  OBVIOUS
<1>1. feed \in Feeds
  BY DEF Init
<1>2. /\ NumHubs \in Nat /\ NumHubs >= 1 /\ Hubs = 1 .. NumHubs
      /\ feed.frames \in Nat /\ feed.until \in Nat \ {0}
  BY <1>1, FeedTyped
<1>3. MaxJoins \in Nat
  BY HubAssumption
<1> QED BY <1>1, <1>2, <1>3 DEF Init, Typed, TypeOK, Control

LEMMA CountTyped ==
  ASSUME NEW S, NEW s \in Seq(S), NEW b
  PROVE  CountOf(b, s) \in Nat
<1>1. Len(s) \in Nat /\ DOMAIN s = 1 .. Len(s)
  BY LenProperties
<1>2. IsFiniteSet(1 .. Len(s))
  BY <1>1, FS_Interval
<1>3. IsFiniteSet({i \in DOMAIN s : s[i] = b})
  BY <1>1, <1>2, FS_Subset
<1> QED BY <1>3, FS_CardinalityType DEF CountOf

LEMMA ClockTyped ==
  ASSUME Typed
  PROVE  /\ now \in Nat /\ now >= 1 /\ frame \in Nat /\ at \in Hubs /\ loaded \in 0 .. now
         /\ last \in [Hubs -> 0 .. now] /\ credit \in [Hubs -> Nat]
         /\ t0 \in [Hubs -> 0 .. now] /\ prev \in [Hubs -> Nat] /\ joins \in [Hubs -> Nat]
<1>1. feed \in Feeds /\ MaxJoins \in Nat
  BY HubAssumption DEF Typed, TypeOK
<1>2. feed.until \in Nat /\ feed.frames \in Nat
  BY <1>1, FeedTyped
<1>3. now \in Nat /\ now >= 1 /\ frame \in Nat
  BY <1>2 DEF Typed, TypeOK
<1>4. joins \in [Hubs -> Nat]
  <2>1. joins \in [Hubs -> 0 .. MaxJoins]
    BY DEF Typed, TypeOK
  <2>2. \A n \in 0 .. MaxJoins : n \in Nat
    BY <1>1
  <2> QED BY <2>1, <2>2
<1> QED BY <1>3, <1>4 DEF Typed, TypeOK

LEMMA CountsTyped ==
  ASSUME NEW S, NEW f \in [S -> Int], NEW b
  PROVE  /\ [f EXCEPT ![b] = @ + 1] \in [S -> Int] /\ [f EXCEPT ![b] = @ - 1] \in [S -> Int]
         /\ [f EXCEPT ![b] = @ - 2] \in [S -> Int] /\ [f EXCEPT ![b] = 1] \in [S -> Int]
<1>1. b \in S => f[b] + 1 \in Int /\ f[b] - 1 \in Int /\ f[b] - 2 \in Int
  OBVIOUS
<1>2. [f EXCEPT ![b] = @ + 1] \in [S -> Int]
  BY <1>1
<1>3. [f EXCEPT ![b] = @ - 1] \in [S -> Int]
  BY <1>1
<1>4. [f EXCEPT ![b] = @ - 2] \in [S -> Int]
  BY <1>1
<1>5. ASSUME NEW n \in Int PROVE [f EXCEPT ![b] = n] \in [S -> Int]
  OBVIOUS
<1> QED BY <1>2, <1>3, <1>4, <1>5

LEMMA PushTyped == Typed /\ UNCHANGED feed /\ Push => Typed'
<1> SUFFICES ASSUME Typed, UNCHANGED feed, Push PROVE Typed'
  OBVIOUS
<1>1. /\ feed \in Feeds /\ MaxJoins \in Nat
      /\ NumHubs \in Nat /\ NumHubs >= 1 /\ Hubs = 1 .. NumHubs
      /\ \A h \in Hubs : h \in Nat /\ Dur[h] \in Nat /\ Dur[h] >= 1
      /\ Shared \in BOOLEAN /\ feed.frames \in Nat /\ feed.until \in Nat
      /\ Gaps \subseteq Nat \ {0}
  BY FeedTyped, HubAssumption DEF Typed, TypeOK
<1>2. Hubs' = Hubs /\ NumHubs' = NumHubs /\ Buffers' = Buffers
  BY SameFeed
<1>3. step # "idle" => Buf(at) \in Buffers
  BY BufTyped
<1>4. step # "idle" /\ Done => at' \in Hubs /\ step' \in {"idle", "want"} /\ (step' = "idle" => at' = NumHubs)
  BY DoneTyped
<1>5. CASE NextPicture
  <2>1. /\ step = "idle" /\ frame < feed.frames /\ frame' = frame + 1
        /\ at' = 1 /\ step' = "want"
        /\ refs' = IF Shared THEN [Release(<<frame, 1>>) EXCEPT ![<<frame + 1, 1>>] = 1] ELSE refs
        /\ UNCHANGED <<gateVars, viewers, joins, t0, prev, lifeVars, pts, queued, shown>>
    BY <1>5 DEF NextPicture
  <2>2. now' \in 1 .. feed.until /\ now' >= now
    BY <1>1, <1>5 DEF NextPicture, Typed, TypeOK
  <2>3. refs' \in [Buffers -> Int]
    <3>1. refs \in [Buffers -> Int]
      BY DEF Typed, TypeOK
    <3>2. ASSUME NEW b PROVE Release(b) \in [Buffers -> Int]
      BY <3>1, CountsTyped DEF Release
    <3>3. ASSUME NEW f \in [Buffers -> Int], NEW b PROVE [f EXCEPT ![b] = 1] \in [Buffers -> Int]
      BY CountsTyped
    <3>4. Release(<<frame, 1>>) \in [Buffers -> Int]
      BY <3>2
    <3>5. [Release(<<frame, 1>>) EXCEPT ![<<frame + 1, 1>>] = 1] \in [Buffers -> Int]
      BY <3>4, <3>3
    <3> QED BY <2>1, <3>1, <3>5
  <2>4. frame' \in 0 .. feed.frames /\ frame' # 0 /\ 1 \in Hubs
    <3>1. frame \in Nat
      BY ClockTyped
    <3> QED BY <2>1, <3>1, <1>1
  <2>5. loaded' \in 0 .. now' /\ last' \in [Hubs -> 0 .. now'] /\ t0' \in [Hubs -> 0 .. now']
    <3>1. now \in Nat /\ now' \in Nat /\ now <= now'
      BY <2>2, <1>1 DEF Typed, TypeOK
    <3>2. \A n \in 0 .. now : n \in 0 .. now'
      BY <3>1
    <3> QED BY <2>1, <3>2 DEF Typed, TypeOK, gateVars
  <2> QED BY <2>1, <2>2, <2>3, <2>4, <2>5, <1>1, <1>2 DEF Typed, TypeOK, Control, gateVars, lifeVars
<1>6. CASE Want
  BY <1>6, <1>1, <1>2, <1>4 DEF Want, Typed, TypeOK, Control, gateVars, lifeVars
<1>7. CASE GateLoad
  BY <1>7, <1>1, <1>2, <1>4 DEF GateLoad, Typed, TypeOK, Control, gateVars, lifeVars
<1>8. CASE GateStore
  <2>1. /\ at \in Hubs /\ credit \in [Hubs -> Nat] /\ last \in [Hubs -> 0 .. now]
        /\ now \in Nat /\ loaded \in 0 .. now /\ Dur[at] \in Nat
    BY <1>1, ClockTyped
  <2>2. Earned(at) \in Nat /\ (Passes(at) /\ ~First => Earned(at) - Dur[at] \in Nat)
    <3>1. credit[at] \in Nat /\ now - loaded \in Nat
      BY <2>1
    <3>2. Earned(at) \in Nat
      BY <2>1, <3>1 DEF Earned
    <3> QED BY <2>1, <3>2 DEF Passes
  <2>3. credit' \in [Hubs -> Nat] /\ last' \in [Hubs -> 0 .. now]
    <3>1. /\ last' = [last EXCEPT ![at] = now]
          /\ credit' = [credit EXCEPT ![at] = IF First THEN Dur[at]
               ELSE IF Passes(at) THEN Earned(at) - Dur[at] ELSE Earned(at)]
      BY <1>8 DEF GateStore
    <3>2. now \in 0 .. now
      BY <2>1
    <3> QED BY <3>1, <3>2, <2>1, <2>2
  <2> QED BY <1>8, <1>1, <1>2, <1>4, <2>1, <2>3 DEF GateStore, Typed, TypeOK, Control, gateVars, lifeVars
<1>9. CASE PushCheck
  <2>1. refs' \in [Buffers -> Int]
    BY <1>9, CountsTyped DEF PushCheck, Typed, TypeOK
  <2> QED BY <1>9, <1>1, <1>2, <1>4, <2>1 DEF PushCheck, Typed, TypeOK, Control, gateVars, lifeVars
<1>10. CASE PushState
  <2>1. refs' \in [Buffers -> Int]
    BY <1>10, CountsTyped DEF PushState, Typed, TypeOK
  <2> QED BY <1>10, <2>1, <1>1, <1>2, <1>3, <1>4 DEF PushState, Typed, TypeOK, Control, gateVars, lifeVars
<1>11. CASE PushStamp
  <2> DEFINE zero == IF t0[at] = 0 THEN now ELSE t0[at]
  <2>1. zero \in 0 .. now /\ Stamp(at, zero) \in Nat
    <3>1. zero \in 0 .. now /\ now \in Nat
      BY <1>1 DEF Typed, TypeOK
    <3>2. Dur[at] \in Nat /\ Dur[at] >= 1 /\ prev[at] \in Nat
      BY <1>1 DEF Typed, TypeOK
    <3> HIDE DEF zero
    <3>3. (now - zero) \div Dur[at] \in Nat
      BY <3>1, <3>2
    <3> QED BY <3>1, <3>2, <3>3 DEF Stamp
  <2>2. /\ t0' = [t0 EXCEPT ![at] = zero]
        /\ prev' = [prev EXCEPT ![at] = Stamp(at, zero)]
        /\ pts' = [pts EXCEPT ![Buf(at)] = Stamp(at, zero)]
        /\ step = "stamp" /\ step' = "push"
        /\ UNCHANGED <<now, frame, at, gateVars, viewers, joins, lifeVars, refs, queued, shown>>
    BY <1>11 DEF PushStamp
  <2> HIDE DEF zero
  <2> QED BY <2>1, <2>2, <1>1, <1>2, <1>3 DEF Typed, TypeOK, Control, gateVars, lifeVars
<1>12. CASE PushQueue
  <2>1. Append(queued[at], Buf(at)) \in Seq(Buffers)
    BY <1>12, <1>3, AppendProperties DEF PushQueue, Typed, TypeOK
  <2>2. queued' \in [Hubs -> Seq(Buffers)]
    BY <1>12, <2>1 DEF PushQueue, Typed
  <2>3. refs' \in [Buffers -> Int]
    BY <1>12, CountsTyped DEF PushQueue, Typed, TypeOK
  <2> QED BY <1>12, <1>1, <1>2, <1>4, <2>2, <2>3 DEF PushQueue, Typed, TypeOK, Control, gateVars, lifeVars
<1> QED BY <1>5, <1>6, <1>7, <1>8, <1>9, <1>10, <1>11, <1>12 DEF Push

LEMMA HubTyped == \A h \in Hubs : Typed /\ UNCHANGED feed /\ Hub(h) => Typed'
<1> SUFFICES ASSUME NEW h \in Hubs, Typed, UNCHANGED feed, Hub(h) PROVE Typed'
  OBVIOUS
<1>1. feed \in Feeds /\ MaxJoins \in Nat
  BY HubAssumption DEF Typed, TypeOK
<1>2. Hubs' = Hubs /\ NumHubs' = NumHubs /\ Buffers' = Buffers
  BY SameFeed
<1>3. queued[h] # <<>> => Head(queued[h]) \in Buffers /\ Tail(queued[h]) \in Seq(Buffers)
  BY HeadTailProperties DEF Typed
<1>12. queued[h] # <<>> /\ queued' = [queued EXCEPT ![h] = Tail(@)] => queued' \in [Hubs -> Seq(Buffers)]
  BY <1>3 DEF Typed
<1>13. refs \in [Buffers -> Int]
  BY DEF Typed, TypeOK
<1>4. CASE Emit(h)
  <2>1. shown' \in [Hubs -> Nat]
    BY <1>4, <1>3 DEF Emit, Typed, TypeOK
  <2>2. queued' \in [Hubs -> Seq(Buffers)] /\ refs' \in [Buffers -> Int]
    BY <1>4, <1>12, <1>13, CountsTyped DEF Emit
  <2> QED BY <1>4, <1>1, <1>2, <2>1, <2>2 DEF Emit, Typed, TypeOK, Control, gateVars, lifeVars
<1>5. CASE Leak(h)
  <2>1. queued[h] # <<>>
    BY <1>5, EmptySeq DEF Leak
  <2>2. queued' \in [Hubs -> Seq(Buffers)] /\ refs' \in [Buffers -> Int]
    BY <1>5, <2>1, <1>12, <1>13, CountsTyped DEF Leak
  <2> QED BY <1>5, <2>2, <1>1, <1>2 DEF Leak, Typed, TypeOK, Control, gateVars, lifeVars
<1>6. CASE ViewerInc(h)
  <2>1. /\ viewers' \in [Hubs -> 0 .. MaxJoins] /\ joins' \in [Hubs -> 0 .. MaxJoins]
        /\ \A g \in Hubs : viewers'[g] <= joins'[g]
    <3>1. /\ viewers \in [Hubs -> 0 .. MaxJoins] /\ joins \in [Hubs -> 0 .. MaxJoins]
          /\ \A g \in Hubs : viewers[g] <= joins[g]
      BY DEF Typed, TypeOK, Control
    <3>2. /\ joins[h] < MaxJoins
          /\ viewers' = [viewers EXCEPT ![h] = @ + 1] /\ joins' = [joins EXCEPT ![h] = @ + 1]
      BY <1>6 DEF ViewerInc
    <3>3. \A n \in 0 .. MaxJoins : n < MaxJoins => n + 1 \in 0 .. MaxJoins
      BY <1>1
    <3>4. joins[h] + 1 \in 0 .. MaxJoins /\ viewers[h] + 1 \in 0 .. MaxJoins /\ viewers[h] + 1 <= joins[h] + 1
      BY <1>1, <3>1, <3>2
    <3> QED BY <3>1, <3>2, <3>4
  <2>2. last' \in [Hubs -> 0 .. now] /\ credit' \in [Hubs -> Nat]
    <3>1. now \in Nat /\ last \in [Hubs -> 0 .. now] /\ credit \in [Hubs -> Nat]
      BY ClockTyped
    <3> QED BY <3>1, <1>6 DEF ViewerInc
  <2> QED BY <1>6, <1>1, <1>2, <2>1, <2>2 DEF ViewerInc, Typed, TypeOK, Control, gateVars, lifeVars
<1>7. CASE ViewerDec(h)
  <2>1. viewers' \in [Hubs -> 0 .. MaxJoins] /\ \A g \in Hubs : viewers'[g] <= joins[g]
    <3>1. /\ viewers \in [Hubs -> 0 .. MaxJoins] /\ joins \in [Hubs -> 0 .. MaxJoins]
          /\ \A g \in Hubs : viewers[g] <= joins[g]
      BY DEF Typed, TypeOK, Control
    <3>2. viewers[h] > 0 /\ viewers' = [viewers EXCEPT ![h] = @ - 1]
      BY <1>7 DEF ViewerDec
    <3>3. viewers[h] - 1 \in 0 .. MaxJoins /\ viewers[h] - 1 <= joins[h]
      BY <1>1, <3>1, <3>2
    <3> QED BY <3>1, <3>2, <3>3
  <2> QED BY <1>7, <1>1, <1>2, <2>1 DEF ViewerDec, Typed, TypeOK, Control, gateVars, lifeVars
<1>8. CASE StopFlag(h)
  BY <1>8, <1>1, <1>2 DEF StopFlag, Typed, TypeOK, Control, gateVars, lifeVars
<1>9. CASE EndOfStream(h)
  BY <1>9, <1>1, <1>2 DEF EndOfStream, Typed, TypeOK, Control, gateVars, lifeVars
<1>10. CASE SetNull(h)
  <2>1. queued' \in [Hubs -> Seq(Buffers)]
    BY <1>10, EmptySeq DEF SetNull, Typed
  <2>2. \A b \in Buffers : CountOf(b, queued[h]) \in Nat
    BY CountTyped DEF Typed
  <2>3. refs' \in [Buffers -> Int]
    BY <1>10, <2>2 DEF SetNull, Typed, TypeOK
  <2> QED BY <1>10, <1>1, <1>2, <2>1, <2>3 DEF SetNull, Typed, TypeOK, Control, gateVars, lifeVars
<1>11. CASE Unref(h)
  BY <1>11, <1>1, <1>2 DEF Unref, Typed, TypeOK, Control, gateVars, lifeVars
<1> QED BY <1>4, <1>5, <1>6, <1>7, <1>8, <1>9, <1>10, <1>11 DEF Hub

LEMMA NextTyped == Typed /\ [Next]_vars => Typed'
<1> SUFFICES ASSUME Typed, [Next]_vars PROVE Typed'
  OBVIOUS
<1>1. CASE Next
  BY <1>1, PushTyped, HubTyped DEF Next
<1>2. CASE UNCHANGED vars
  <2>1. Hubs' = Hubs /\ NumHubs' = NumHubs /\ Buffers' = Buffers
    BY <1>2, SameFeed DEF vars
  <2> QED BY <1>2, <2>1 DEF vars, gateVars, lifeVars, Typed, TypeOK, Control
<1> QED BY <1>1, <1>2

----------------------------------------------------------------------------
(* The order of the queues *)

LEMMA QueueTyped ==
  ASSUME Typed, NEW h \in Hubs
  PROVE  /\ queued[h] \in Seq(Buffers) /\ Len(queued[h]) \in Nat
         /\ DOMAIN queued[h] = 1 .. Len(queued[h])
         /\ \A i \in 1 .. Len(queued[h]) : /\ queued[h][i] \in Buffers
                                           /\ queued[h][i] = <<queued[h][i][1], queued[h][i][2]>>
                                           /\ queued[h][i][1] \in Nat
                                           /\ queued[h][i][1] <= feed.frames
<1>1. queued[h] \in Seq(Buffers)
  BY DEF Typed
<1>2. feed.frames \in Nat
  BY FeedTyped DEF Typed, TypeOK
<1>3. ASSUME NEW b \in Buffers
      PROVE  b = <<b[1], b[2]>> /\ b[1] \in Nat /\ b[1] <= feed.frames
  BY <1>2 DEF Buffers
<1> QED BY <1>1, <1>3, LenProperties, ElementOfSeq

\* Steps that leave the queues alone keep their order ...
LEMMA QueuesKept ==
  ASSUME Typed, QueuesOrdered, UNCHANGED <<feed, queued, frame>>,
         \A h \in Hubs : Past(h) => Past(h)'
  PROVE  QueuesOrdered'
<1>1. Hubs' = Hubs /\ Shared' = Shared
  BY SameFeed
<1> QED BY <1>1 DEF QueuesOrdered, QueueOrdered, Column

\* ... and so does taking the oldest buffer of one.
LEMMA QueuesTail ==
  ASSUME Typed, QueuesOrdered, NEW g \in Hubs, queued[g] # <<>>,
         queued' = [queued EXCEPT ![g] = Tail(@)], UNCHANGED <<feed, frame, at, step>>
  PROVE  QueuesOrdered'
<1>1. Hubs' = Hubs /\ Shared' = Shared /\ \A h \in Hubs : Past(h)' = Past(h)
  BY SameFeed DEF Past
<1>2. ASSUME NEW h \in Hubs, h # g PROVE QueueOrdered(h)'
  <2>1. queued'[h] = queued[h] /\ QueueOrdered(h)
    BY <1>2 DEF Typed, QueuesOrdered
  <2> QED BY <2>1, <1>1 DEF QueueOrdered, Column
<1>3. QueueOrdered(g)'
  <2>1. /\ queued[g] \in Seq(Buffers) /\ Len(queued[g]) \in Nat
        /\ \A i \in 1 .. Len(queued[g]) : queued[g][i][1] \in Nat
    BY QueueTyped
  <2>2. /\ queued'[g] = Tail(queued[g]) /\ Len(queued'[g]) = Len(queued[g]) - 1
        /\ \A i \in 1 .. Len(queued'[g]) : queued'[g][i] = queued[g][i + 1]
    BY <2>1, HeadTailProperties DEF Typed
  <2> SUFFICES ASSUME NEW i \in 1 .. Len(queued'[g])
               PROVE  /\ queued'[g][i][2] = Column(g)
                      /\ i <= queued'[g][i][1] /\ queued'[g][i][1] <= frame
                      /\ queued'[g][i][1] = frame => Past(g)
                      /\ \A j \in 1 .. (i - 1) : queued'[g][j][1] < queued'[g][i][1]
    BY <1>1 DEF QueueOrdered, Column
  <2>3. i + 1 \in 1 .. Len(queued[g]) /\ queued'[g][i] = queued[g][i + 1] /\ i \in Nat
    BY <2>1, <2>2
  <2>4. QueueOrdered(g)
    BY DEF QueuesOrdered
  <2>5. /\ queued[g][i + 1][2] = Column(g)
        /\ i + 1 <= queued[g][i + 1][1] /\ queued[g][i + 1][1] <= frame
        /\ queued[g][i + 1][1] = frame => Past(g)
        /\ \A j \in 1 .. (i + 1 - 1) : queued[g][j][1] < queued[g][i + 1][1]
    BY <2>3, <2>4 DEF QueueOrdered
  <2>6. ASSUME NEW j \in 1 .. (i - 1) PROVE queued'[g][j][1] < queued'[g][i][1]
    <3>1. j + 1 \in 1 .. (i + 1 - 1) /\ j \in 1 .. Len(queued'[g])
      BY <2>3, <2>2, <2>1
    <3> QED BY <3>1, <2>2, <2>3, <2>5
  <2> QED BY <2>1, <2>3, <2>5, <2>6
<1> QED BY <1>1, <1>2, <1>3 DEF QueuesOrdered

LEMMA PushOrders ==
  ASSUME Typed, QueuesOrdered, UNCHANGED feed, Push
  PROVE  QueuesOrdered'
<1>1. Hubs' = Hubs /\ Shared' = Shared
  BY SameFeed
<1>2. /\ NumHubs \in Nat /\ Hubs = 1 .. NumHubs
      /\ at \in Hubs /\ frame \in Nat
  BY FeedTyped, ClockTyped DEF Typed, TypeOK
<1>3. step # "idle" /\ Done => \A h \in Hubs : Past(h) => Past(h)'
  BY DoneTyped
<1>4. CASE NextPicture
  <2>1. frame' = frame + 1 /\ queued' = queued
    BY <1>4 DEF NextPicture
  <2> QED BY <1>1, <1>2, <2>1, QueueTyped DEF QueuesOrdered, QueueOrdered, Column
<1>5. CASE Want
  BY <1>3, <1>5, QueuesKept DEF Want, Past
<1>6. CASE GateLoad
  BY <1>6, QueuesKept DEF GateLoad, Past
<1>7. CASE GateStore
  BY <1>3, <1>7, QueuesKept DEF GateStore, Past
<1>8. CASE PushCheck
  BY <1>3, <1>8, QueuesKept DEF PushCheck, Past
<1>9. CASE PushState
  BY <1>3, <1>9, QueuesKept DEF PushState, Past
<1>10. CASE PushStamp
  BY <1>10, QueuesKept DEF PushStamp, Past
<1>11. CASE PushQueue
  <2>1. step = "push" /\ Done /\ frame' = frame
    BY <1>11 DEF PushQueue
  <2>2. \A h \in Hubs : Past(h)' <=> Past(h) \/ h = at
    BY <2>1, DoneTyped
  <2>3. CASE UNCHANGED queued
    BY <2>1, <2>2, <2>3, QueuesKept
  <2>4. CASE queued' = [queued EXCEPT ![at] = Append(@, Buf(at))]
    <3>1. ASSUME NEW h \in Hubs, h # at PROVE QueueOrdered(h)'
      <4>1. queued'[h] = queued[h] /\ QueueOrdered(h)
        BY <2>4, <3>1 DEF Typed, QueuesOrdered
      <4> QED BY <4>1, <1>1, <2>1, <2>2 DEF QueueOrdered, Column
    <3>2. ASSUME NEW g \in Hubs, g = at PROVE QueueOrdered(g)'
      <4> DEFINE n == Len(queued[g])
      <4>0. at = g
        BY <3>2
      <4>1. Buf(at) \in Buffers /\ Buf(at)[1] = frame /\ Buf(at)[2] = Column(g) /\ frame >= 1
        BY <2>1, <1>2, <4>0, BufTyped
      <4>2. queued[g] \in Seq(Buffers) /\ n \in Nat /\ \A i \in 1 .. n : queued[g][i][1] \in Nat
        BY <1>2, QueueTyped
      <4>3. /\ Len(queued'[g]) = n + 1 /\ queued'[g][n + 1] = Buf(at)
            /\ \A i \in 1 .. n : queued'[g][i] = queued[g][i]
        BY <4>0, <2>4, <4>1, <4>2, AppendProperties DEF Typed
      <4>4. \A i \in 1 .. n : /\ queued[g][i][2] = Column(g) /\ i <= queued[g][i][1]
                              /\ queued[g][i][1] < frame
                              /\ \A j \in 1 .. (i - 1) : queued[g][j][1] < queued[g][i][1]
        <5>1. ~Past(g)
          BY <1>2, <2>1, <4>0 DEF Past
        <5> QED BY <1>2, <4>2, <5>1 DEF QueuesOrdered, QueueOrdered
      <4>5. n + 1 <= frame
        <5>1. CASE n = 0
          BY <5>1, <4>1, <1>2
        <5>2. CASE n # 0
          <6>1. n \in 1 .. n
            BY <5>2, <4>2
          <6> QED BY <6>1, <4>2, <4>4, <1>2
        <5> QED BY <5>1, <5>2
      <4> SUFFICES ASSUME NEW i \in 1 .. n + 1
                   PROVE  /\ queued'[g][i][2] = Column(g)
                          /\ i <= queued'[g][i][1] /\ queued'[g][i][1] <= frame
                          /\ \A j \in 1 .. (i - 1) : queued'[g][j][1] < queued'[g][i][1]
        BY <4>0, <1>1, <2>1, <2>2, <4>3 DEF QueueOrdered, Column
      <4> HIDE DEF n
      <4>6. CASE i = n + 1
        BY <4>1, <4>2, <4>3, <4>4, <4>5, <4>6, <1>2
      <4>7. CASE i \in 1 .. n
        <5>1. queued'[g][i] = queued[g][i] /\ queued[g][i][1] < frame /\ i <= queued[g][i][1]
          BY <4>3, <4>4, <4>7
        <5>2. ASSUME NEW j \in 1 .. (i - 1) PROVE queued'[g][j][1] < queued'[g][i][1]
          <6>1. j \in 1 .. n
            BY <4>2, <4>7
          <6> QED BY <6>1, <4>3, <4>4, <4>7
        <5>3. queued[g][i][1] <= frame
          BY <5>1, <4>2, <4>7, <1>2
        <5> QED BY <5>1, <5>2, <5>3, <4>4, <4>7
      <4> QED BY <4>2, <4>6, <4>7
    <3> QED BY <3>1, <3>2, <1>1 DEF QueuesOrdered
  <2> QED BY <1>11, <2>3, <2>4 DEF PushQueue
<1> QED BY <1>4, <1>5, <1>6, <1>7, <1>8, <1>9, <1>10, <1>11 DEF Push

LEMMA HubOrders ==
  ASSUME Typed, QueuesOrdered, UNCHANGED feed, NEW h \in Hubs, Hub(h)
  PROVE  QueuesOrdered'
<1>1. CASE Emit(h)
  BY <1>1, QueuesTail DEF Emit
<1>2. CASE Leak(h)
  <2>1. queued[h] # <<>>
    BY <1>2, EmptySeq DEF Leak
  <2> QED BY <1>2, <2>1, QueuesTail DEF Leak
<1>3. CASE SetNull(h)
  <2>1. /\ Hubs' = Hubs /\ Shared' = Shared /\ frame' = frame /\ \A g \in Hubs : Past(g)' = Past(g)
    BY <1>3, SameFeed DEF SetNull, Past
  <2>2. ASSUME NEW g \in Hubs PROVE QueueOrdered(g)'
    <3>1. CASE g = h
      <4>1. Len(queued'[g]) = 0
        BY <1>3, <3>1, EmptySeq DEF SetNull, Typed
      <4> QED BY <4>1 DEF QueueOrdered
    <3>2. CASE g # h
      <4>1. queued'[g] = queued[g]
        BY <1>3, <3>2 DEF SetNull, Typed
      <4> QED BY <4>1, <2>1 DEF QueuesOrdered, QueueOrdered, Column
    <3> QED BY <3>1, <3>2
  <2> QED BY <2>1, <2>2 DEF QueuesOrdered
<1>4. CASE ViewerInc(h) \/ ViewerDec(h) \/ StopFlag(h) \/ EndOfStream(h) \/ Unref(h)
  BY <1>4, QueuesKept DEF ViewerInc, ViewerDec, StopFlag, EndOfStream, Unref, Past
<1> QED BY <1>1, <1>2, <1>3, <1>4 DEF Hub

LEMMA NextOrders == Typed /\ QueuesOrdered /\ [Next]_vars => QueuesOrdered'
<1>1. CASE Typed /\ QueuesOrdered /\ Next
  BY <1>1, PushOrders, HubOrders DEF Next
<1>2. CASE Typed /\ QueuesOrdered /\ UNCHANGED vars
  BY <1>2, QueuesKept DEF vars, Past
<1> QED BY <1>1, <1>2

----------------------------------------------------------------------------
(* The references *)

Places(H, n, Q, b) == {p \in H \X (1 .. n) : p[2] \in DOMAIN Q[p[1]] /\ Q[p[1]][p[2]] = b}
Has(s, b) == \E i \in DOMAIN s : s[i] = b
InQueues(H, Q, b)  == {h \in H : Has(Q[h], b)}

\* The places of b in a set of queues that hold it at most once each are as
\* many as the queues that hold it.
LEMMA OnePlaceEach ==
  ASSUME NEW H, IsFiniteSet(H), NEW n \in Nat, NEW Q, NEW b,
         \A h \in H : DOMAIN Q[h] \subseteq 1 .. n,
         \A h \in H : \A i, j \in DOMAIN Q[h] : Q[h][i] = b /\ Q[h][j] = b => i = j
  PROVE  Cardinality(Places(H, n, Q, b)) = Cardinality(InQueues(H, Q, b))
<1> DEFINE P == {p \in H \X (1 .. n) : p[2] \in DOMAIN Q[p[1]] /\ Q[p[1]][p[2]] = b}
           K == {h \in H : \E i \in DOMAIN Q[h] : Q[h][i] = b}
           f == [h \in K |-> <<h, CHOOSE i \in DOMAIN Q[h] : Q[h][i] = b>>]
<1>1. IsFiniteSet(K)
  BY FS_Subset
<1>2. ASSUME NEW h \in K PROVE f[h] \in P /\ f[h][1] = h
  <2>1. (CHOOSE i \in DOMAIN Q[h] : Q[h][i] = b) \in DOMAIN Q[h]
        /\ Q[h][CHOOSE i \in DOMAIN Q[h] : Q[h][i] = b] = b
    OBVIOUS
  <2> QED BY <2>1
<1>3. ASSUME NEW p \in P PROVE p[1] \in K /\ f[p[1]] = p
  <2>1. p = <<p[1], p[2]>> /\ p[1] \in H /\ p[2] \in DOMAIN Q[p[1]] /\ Q[p[1]][p[2]] = b
    OBVIOUS
  <2>2. p[1] \in K
    BY <2>1
  <2>3. f[p[1]] = <<p[1], CHOOSE i \in DOMAIN Q[p[1]] : Q[p[1]][i] = b>>
    BY <2>2
  <2>4. (CHOOSE i \in DOMAIN Q[p[1]] : Q[p[1]][i] = b) = p[2]
    BY <2>1
  <2> QED BY <2>1, <2>2, <2>3, <2>4
<1>4. f \in [K -> P]
  BY <1>2
<1>5. f \in Bijection(K, P)
  <2>1. \A g, h \in K : f[g] = f[h] => g = h
    BY <1>2
  <2>2. \A p \in P : \E h \in K : f[h] = p
    BY <1>3
  <2> QED BY <1>4, <2>1, <2>2 DEF Bijection, Injection, Surjection, IsInjective
<1> HIDE DEF f, P, K
<1>6. Cardinality(P) = Cardinality(K)
  BY <1>1, <1>5, FS_Bijection DEF ExistsBijection
<1> QED BY <1>6 DEF P, K, Places, InQueues, Has

\* The hubs that have b in their queues.
Queueing(b) == InQueues(Hubs, queued, b)

Sampled(b) == IF Shared /\ b = <<frame, 1>> THEN 1 ELSE 0
InHand(b)  == IF step \in {"state", "stamp", "push"} /\ b = Buf(at) THEN 1 ELSE 0

Counted(b) ==
  /\ IsFiniteSet(Queueing(b)) /\ Cardinality(Queueing(b)) \in Nat
  /\ Holders(b) = Sampled(b) + InHand(b) + Cardinality(Queueing(b))

LEMMA HoldersCounted == Typed /\ QueuesOrdered => \A b \in Buffers : Counted(b)
<1> SUFFICES ASSUME Typed, QueuesOrdered, NEW b \in Buffers PROVE Counted(b)
  OBVIOUS
<1>1. IsFiniteSet(Hubs) /\ feed.frames \in Nat
  BY FeedTyped, FS_Interval DEF Typed, TypeOK
<1>2. IsFiniteSet(Queueing(b))
  BY <1>1, FS_Subset DEF Queueing, InQueues
<1>3. ASSUME NEW h \in Hubs
      PROVE  /\ DOMAIN queued[h] \subseteq 1 .. feed.frames
             /\ \A i, j \in DOMAIN queued[h] : queued[h][i] = b /\ queued[h][j] = b => i = j
  <2>1. /\ DOMAIN queued[h] = 1 .. Len(queued[h]) /\ Len(queued[h]) \in Nat
        /\ \A i \in 1 .. Len(queued[h]) : queued[h][i][1] \in Nat /\ queued[h][i][1] <= feed.frames
    BY QueueTyped
  <2>2. QueueOrdered(h)
    BY DEF QueuesOrdered
  <2>3. ASSUME NEW i \in DOMAIN queued[h] PROVE i \in 1 .. feed.frames
    BY <2>1, <2>2, <1>1 DEF QueueOrdered
  <2>4. ASSUME NEW i \in DOMAIN queued[h], NEW j \in DOMAIN queued[h], j < i
        PROVE  queued[h][i] # queued[h][j]
    <3>1. j \in 1 .. (i - 1)
      BY <2>1, <2>4
    <3>2. queued[h][j][1] < queued[h][i][1]
      BY <2>1, <2>2, <3>1 DEF QueueOrdered
    <3> QED BY <2>1, <3>2
  <2>5. \A i, j \in DOMAIN queued[h] : i = j \/ i < j \/ j < i
    BY <2>1
  <2> QED BY <2>3, <2>4, <2>5
<1>4. Cardinality(Places(Hubs, feed.frames, queued, b)) = Cardinality(Queueing(b))
  BY <1>1, <1>3, OnePlaceEach DEF Queueing
<1>5. Holders(b) = Sampled(b) + InHand(b) + Cardinality(Places(Hubs, feed.frames, queued, b))
  BY DEF Holders, Sampled, InHand, Places
<1> QED BY <1>2, <1>4, <1>5, FS_CardinalityType DEF Counted

LEMMA HoldersCountedNext == Typed' /\ QueuesOrdered' => (\A b \in Buffers : Counted(b))'
BY HoldersCounted, PTL

\* Before and after a step the references are those of the sample, of the
\* pusher and of the queues.
LEMMA RefsCounted ==
  ASSUME RefsInv, UNCHANGED feed, Typed', QueuesOrdered',
         started' = Hubs => started = Hubs,
         started' = Hubs => \A b \in Buffers :
           refs[b] = Sampled(b) + InHand(b) + Cardinality(Queueing(b))
           => refs'[b] = Sampled(b)' + InHand(b)' + Cardinality(Queueing(b)')
  PROVE  RefsInv'
<1>1. Hubs' = Hubs /\ Buffers' = Buffers
  BY SameFeed
<1>2. (\A b \in Buffers : Counted(b)) /\ (\A b \in Buffers : Counted(b))'
  BY HoldersCounted, HoldersCountedNext DEF RefsInv
<1>3. ASSUME started' = Hubs, NEW b \in Buffers PROVE refs'[b] = Holders(b)'
  <2>1. refs[b] = Holders(b)
    BY <1>3 DEF RefsInv, RefsMatchHolders
  <2>2. Counted(b) /\ Counted(b)'
    BY <1>1, <1>2
  <2> QED BY <1>3, <2>1, <2>2 DEF Counted
<1> QED BY <1>1, <1>3 DEF RefsInv, RefsMatchHolders

\* A step that moves no reference.
LEMMA RefsKept ==
  ASSUME RefsInv, UNCHANGED <<feed, refs, queued, frame>>, Typed', QueuesOrdered',
         started' = Hubs => started = Hubs,
         \A b : InHand(b)' = InHand(b)
  PROVE  RefsInv'
<1>1. Hubs' = Hubs /\ Shared' = Shared
  BY SameFeed
<1>2. \A b : Sampled(b)' = Sampled(b) /\ Queueing(b)' = Queueing(b)
  BY <1>1 DEF Sampled, Queueing, InQueues
<1> QED BY <1>2, RefsCounted

LEMMA NotInHand == \A b : step \notin {"state", "stamp", "push"} => InHand(b) = 0
BY DEF InHand

\* Taking the oldest buffer of a queue takes that queue's reference.
LEMMA RefsTail ==
  ASSUME RefsInv, NEW g \in Hubs, queued[g] # <<>>,
         queued' = [queued EXCEPT ![g] = Tail(@)], refs' = [refs EXCEPT ![Head(queued[g])] = @ - 1],
         UNCHANGED <<feed, frame, at, step, started>>, Typed', QueuesOrdered'
  PROVE  RefsInv'
<1>1. Typed /\ QueuesOrdered /\ Hubs' = Hubs /\ Shared' = Shared
  BY SameFeed DEF RefsInv
<1>2. \A b : Sampled(b)' = Sampled(b) /\ InHand(b)' = InHand(b)
  BY <1>1 DEF Sampled, InHand, Buf
<1> DEFINE n == Len(queued[g])
<1>3. /\ queued[g] \in Seq(Buffers) /\ n \in Nat /\ n >= 1
      /\ DOMAIN queued[g] = 1 .. n /\ queued[g][1] = Head(queued[g])
      /\ \A i \in 1 .. n : queued[g][i][1] \in Nat
  BY <1>1, QueueTyped, EmptySeq
<1>4. /\ queued'[g] = Tail(queued[g]) /\ DOMAIN queued'[g] = 1 .. (n - 1)
      /\ \A i \in 1 .. (n - 1) : queued'[g][i] = queued[g][i + 1]
      /\ \A h \in Hubs : h # g => queued'[h] = queued[h]
  <2>1. queued'[g] = Tail(queued[g]) /\ \A h \in Hubs : h # g => queued'[h] = queued[h]
    BY <1>1 DEF Typed
  <2>2. /\ Tail(queued[g]) \in Seq(Buffers) /\ Len(Tail(queued[g])) = n - 1
        /\ \A i \in 1 .. (n - 1) : Tail(queued[g])[i] = queued[g][i + 1]
    BY <1>3, HeadTailProperties
  <2> QED BY <2>1, <2>2, LenProperties
<1>5. \A i \in 2 .. n : queued[g][i] # Head(queued[g])
  <2> SUFFICES ASSUME NEW i \in 2 .. n PROVE queued[g][i] # queued[g][1]
    BY <1>3
  <2>1. i \in 1 .. n /\ 1 \in 1 .. (i - 1) /\ 1 \in 1 .. n
    BY <1>3
  <2>2. queued[g][1][1] < queued[g][i][1]
    BY <1>1, <2>1 DEF QueuesOrdered, QueueOrdered
  <2> QED BY <1>3, <2>1, <2>2
<1> HIDE DEF n
<1>6. ASSUME NEW b PROVE Has(queued'[g], b) <=> Has(queued[g], b) /\ b # Head(queued[g])
  <2>1. ASSUME NEW i \in DOMAIN queued'[g], queued'[g][i] = b
        PROVE  (\E j \in DOMAIN queued[g] : queued[g][j] = b) /\ b # Head(queued[g])
    <3>1. i + 1 \in 2 .. n /\ i + 1 \in DOMAIN queued[g] /\ queued[g][i + 1] = b
      BY <1>3, <1>4, <2>1
    <3> QED BY <3>1, <1>5
  <2>2. ASSUME NEW i \in DOMAIN queued[g], queued[g][i] = b, b # Head(queued[g])
        PROVE  \E j \in DOMAIN queued'[g] : queued'[g][j] = b
    <3>1. i - 1 \in DOMAIN queued'[g] /\ (i - 1) + 1 = i
      BY <1>3, <1>4, <2>2
    <3> QED BY <3>1, <1>4, <2>2
  <2> QED BY <2>1, <2>2 DEF Has
<1>8. ASSUME NEW b, NEW h \in Hubs, h # g PROVE Has(queued'[h], b) = Has(queued[h], b)
  BY <1>4, <1>8
<1>9. Has(queued[g], Head(queued[g]))
  BY <1>3 DEF Has
<1>7. ASSUME NEW b \in Buffers, refs[b] = Sampled(b) + InHand(b) + Cardinality(Queueing(b))
      PROVE  refs'[b] = Sampled(b)' + InHand(b)' + Cardinality(Queueing(b)')
  <2>1. IsFiniteSet(Queueing(b)) /\ Cardinality(Queueing(b)) \in Nat
    BY <1>1, HoldersCounted DEF Counted
  <2>2. CASE b = Head(queued[g])
    <3>1. Queueing(b)' = Queueing(b) \ {g} /\ g \in Queueing(b)
      BY <1>1, <1>6, <1>8, <1>9, <2>2 DEF Queueing, InQueues
    <3>2. refs'[b] = refs[b] - 1
      BY <2>2 DEF RefsInv, Typed, TypeOK
    <3>3. Cardinality(Queueing(b)') = Cardinality(Queueing(b)) - 1
      BY <3>1, <2>1, FS_RemoveElement
    <3>4. Sampled(b) \in Nat /\ InHand(b) \in Nat
      BY DEF Sampled, InHand
    <3> QED BY <1>2, <1>7, <2>1, <3>2, <3>3, <3>4
  <2>3. CASE b # Head(queued[g])
    <3>1. Queueing(b)' = Queueing(b)
      BY <1>1, <1>6, <1>8, <2>3 DEF Queueing, InQueues
    <3>2. refs'[b] = refs[b]
      BY <2>3 DEF RefsInv, Typed, TypeOK
    <3> QED BY <1>2, <1>7, <3>1, <3>2
  <2> QED BY <2>2, <2>3
<1> QED BY <1>1, <1>7, RefsCounted

LEMMA HubCounts ==
  ASSUME RefsInv, UNCHANGED feed, NEW h \in Hubs, Hub(h)
  PROVE  RefsInv'
<1>1. Typed /\ QueuesOrdered /\ Typed' /\ QueuesOrdered'
  BY HubTyped, HubOrders DEF RefsInv
<1>2. h \notin started \/ life[h] # "playing" => started # Hubs
  BY <1>1 DEF Typed, Control
<1>3. CASE Emit(h)
  BY <1>1, <1>3, RefsTail DEF Emit, lifeVars
<1>4. CASE Leak(h)
  <2>1. queued[h] # <<>>
    BY <1>4, EmptySeq DEF Leak
  <2> QED BY <1>1, <1>4, <2>1, RefsTail DEF Leak, lifeVars
<1>5. CASE ViewerInc(h) \/ ViewerDec(h)
  <2>1. \A b : InHand(b)' = InHand(b)
    BY <1>5, SameFeed DEF ViewerInc, ViewerDec, InHand, Buf
  <2> QED BY <1>1, <1>5, <2>1, RefsKept DEF ViewerInc, ViewerDec, lifeVars
<1>6. CASE StopFlag(h) \/ EndOfStream(h) \/ SetNull(h) \/ Unref(h)
  <2>1. started' # Hubs
    BY <1>2, <1>6 DEF StopFlag, EndOfStream, SetNull, Unref
  <2>2. Hubs' = Hubs
    BY SameFeed
  <2> QED BY <1>1, <2>1, <2>2 DEF RefsInv, RefsMatchHolders
<1> QED BY <1>3, <1>4, <1>5, <1>6 DEF Hub

LEMMA PushCounts ==
  ASSUME RefsInv, UNCHANGED feed, Push
  PROVE  RefsInv'
<1>1. Typed /\ QueuesOrdered /\ Typed' /\ QueuesOrdered'
  BY PushTyped, PushOrders DEF RefsInv
<1>2. Hubs' = Hubs /\ Shared' = Shared /\ Buffers' = Buffers
  BY SameFeed
<1>3. /\ refs \in [Buffers -> Int] /\ at \in Hubs /\ frame \in Nat
      /\ feed.frames \in Nat /\ 1 \in Hubs
  BY <1>1, ClockTyped, FeedTyped DEF Typed, TypeOK
<1>4. started = Hubs => life[at] = "playing"
  BY <1>1, <1>3 DEF Typed, TypeOK, Control
<1>5. step # "idle" => Buf(at) \in Buffers /\ (Done => step' \in {"idle", "want"})
  BY <1>1, BufTyped, DoneTyped
<1>6. ASSUME UNCHANGED <<frame, queued>>, NEW b
      PROVE  Sampled(b)' = Sampled(b) /\ Queueing(b)' = Queueing(b)
  BY <1>2, <1>6 DEF Sampled, Queueing, InQueues
<1>7. \A b \in Buffers : /\ Sampled(b) \in Nat /\ InHand(b) \in Nat /\ Cardinality(Queueing(b)) \in Nat
                         /\ IsFiniteSet(Queueing(b))
  BY <1>1, HoldersCounted DEF Sampled, InHand, Counted
<1>8. CASE NextPicture
  <2>1. /\ step = "idle" /\ frame < feed.frames /\ frame' = frame + 1 /\ step' = "want"
        /\ refs' = IF Shared THEN [Release(<<frame, 1>>) EXCEPT ![<<frame + 1, 1>>] = 1] ELSE refs
        /\ UNCHANGED <<started, queued>>
    BY <1>8 DEF NextPicture, lifeVars
  <2>2. \A b : InHand(b) = 0 /\ InHand(b)' = 0
    BY <2>1 DEF InHand
  <2>3. \A b : Queueing(b)' = Queueing(b)
    BY <1>2, <2>1 DEF Queueing, InQueues
  <2>4. ASSUME Shared, NEW b \in Buffers, refs[b] = Sampled(b) + Cardinality(Queueing(b))
        PROVE  refs'[b] = Sampled(b)' + Cardinality(Queueing(b))
    <3>1. Release(<<frame, 1>>) = IF frame > 0 THEN [refs EXCEPT ![<<frame, 1>>] = @ - 1] ELSE refs
      BY <2>4 DEF Release
    <3>2. refs' = [Release(<<frame, 1>>) EXCEPT ![<<frame + 1, 1>>] = 1]
      BY <2>1, <2>4
    <3>3. CASE b = <<frame + 1, 1>>
      <4>1. \A h \in Hubs : ~Has(queued[h], b)
        <5> SUFFICES ASSUME NEW h \in Hubs, NEW i \in DOMAIN queued[h] PROVE queued[h][i] # b
          BY DEF Has
        <5>1. i \in 1 .. Len(queued[h]) /\ queued[h][i][1] \in Nat
          BY <1>1, QueueTyped
        <5>2. queued[h][i][1] <= frame
          BY <1>1, <5>1 DEF QueuesOrdered, QueueOrdered
        <5> QED BY <1>3, <3>3, <5>1, <5>2
      <4>2. Cardinality(Queueing(b)) = 0
        BY <4>1, FS_EmptySet DEF Queueing, InQueues
      <4>3. refs'[b] = 1
        <5>1. DOMAIN Release(<<frame, 1>>) = Buffers
          BY <1>3, <3>1
        <5> QED BY <3>2, <3>3, <5>1
      <4>4. Sampled(b)' = 1
        BY <1>2, <2>1, <2>4, <3>3 DEF Sampled
      <4> QED BY <4>2, <4>3, <4>4
    <3>4. CASE b = <<frame, 1>>
      <4>1. b # <<frame + 1, 1>>
        BY <1>3, <3>4
      <4>2. frame > 0
        BY <1>3, <3>4 DEF Buffers
      <4>3. refs'[b] = refs[b] - 1
        BY <1>3, <3>1, <3>2, <3>4, <4>1, <4>2
      <4>4. Sampled(b)' = 0 /\ Sampled(b) = 1
        BY <1>2, <2>1, <2>4, <3>4, <4>1 DEF Sampled
      <4> QED BY <1>7, <2>4, <4>3, <4>4
    <3>5. CASE b # <<frame + 1, 1>> /\ b # <<frame, 1>>
      <4>1. refs'[b] = refs[b]
        BY <1>3, <3>1, <3>2, <3>5
      <4>2. Sampled(b)' = 0 /\ Sampled(b) = 0
        BY <1>2, <2>1, <3>5 DEF Sampled
      <4> QED BY <1>7, <2>4, <4>1, <4>2
    <3> QED BY <3>3, <3>4, <3>5
  <2>5. ASSUME ~Shared, NEW b \in Buffers PROVE refs'[b] = refs[b] /\ Sampled(b)' = Sampled(b)
    BY <1>2, <2>1, <2>5 DEF Sampled
  <2>6. ASSUME NEW b \in Buffers, refs[b] = Sampled(b) + InHand(b) + Cardinality(Queueing(b))
        PROVE  refs'[b] = Sampled(b)' + InHand(b)' + Cardinality(Queueing(b)')
    <3>1. refs[b] = Sampled(b) + Cardinality(Queueing(b))
      BY <1>7, <2>2, <2>6
    <3>2. refs'[b] = Sampled(b)' + Cardinality(Queueing(b))
      BY <2>4, <2>5, <3>1
    <3>3. Sampled(b)' \in Nat
      BY DEF Sampled
    <3> QED BY <1>7, <2>2, <2>3, <3>2, <3>3
  <2>7. started' = Hubs => started = Hubs
    BY <2>1
  <2> QED BY <1>1, <2>6, <2>7, RefsCounted
<1>9. CASE Want \/ GateLoad \/ GateStore
  <2>1. \A b : InHand(b) = 0 /\ InHand(b)' = 0
    BY <1>5, <1>9, NotInHand DEF Want, GateLoad, GateStore, InHand
  <2> QED BY <1>1, <1>9, <2>1, RefsKept DEF Want, GateLoad, GateStore, lifeVars
<1>10. CASE PushCheck
  <2>1. started' = Hubs => /\ started = Hubs /\ step' = "state"
                           /\ refs' = [refs EXCEPT ![Buf(at)] = @ + 1] /\ at' = at
    BY <1>3, <1>10 DEF PushCheck, lifeVars
  <2>2. frame' = frame /\ queued' = queued /\ step = "check"
    BY <1>10 DEF PushCheck
  <2>3. ASSUME started' = Hubs, NEW b \in Buffers,
               refs[b] = Sampled(b) + InHand(b) + Cardinality(Queueing(b))
        PROVE  refs'[b] = Sampled(b)' + InHand(b)' + Cardinality(Queueing(b)')
    <3>1. /\ InHand(b) = 0 /\ InHand(b)' = IF b = Buf(at) THEN 1 ELSE 0
          /\ refs'[b] = IF b = Buf(at) THEN refs[b] + 1 ELSE refs[b]
      BY <1>2, <1>3, <2>1, <2>2, <2>3 DEF InHand, Buf
    <3> QED BY <1>6, <1>7, <2>2, <2>3, <3>1
  <2> QED BY <1>1, <2>1, <2>3, RefsCounted
<1>11. CASE PushState
  <2>1. started' = Hubs => started = Hubs /\ step' = "stamp" /\ at' = at /\ refs' = refs
    BY <1>4, <1>11 DEF PushState, lifeVars
  <2>2. frame' = frame /\ queued' = queued /\ step = "state"
    BY <1>11 DEF PushState
  <2>3. ASSUME started' = Hubs, NEW b \in Buffers PROVE InHand(b)' = InHand(b) /\ refs'[b] = refs[b]
    BY <1>2, <2>1, <2>2, <2>3 DEF InHand, Buf
  <2> QED BY <1>1, <1>6, <2>1, <2>2, <2>3, RefsCounted
<1>12. CASE PushStamp
  <2>1. \A b : InHand(b)' = InHand(b)
    BY <1>2, <1>12 DEF PushStamp, InHand, Buf
  <2> QED BY <1>1, <1>12, <2>1, RefsKept DEF PushStamp, lifeVars
<1>13. CASE PushQueue
  <2>1. started' = Hubs => /\ started = Hubs /\ refs' = refs
                           /\ queued' = [queued EXCEPT ![at] = Append(@, Buf(at))]
    BY <1>4, <1>13 DEF PushQueue, lifeVars
  <2>2. frame' = frame /\ step = "push" /\ Done
    BY <1>13 DEF PushQueue
  <2>3. \A b : InHand(b)' = 0 /\ InHand(b) = IF b = Buf(at) THEN 1 ELSE 0
    BY <1>5, <2>2 DEF InHand
  <2>4. \A b : Sampled(b)' = Sampled(b)
    BY <1>2, <2>2 DEF Sampled
  <2>5. ASSUME started' = Hubs, NEW b PROVE Has(queued'[at], b) <=> Has(queued[at], b) \/ b = Buf(at)
    <3>1. queued'[at] = Append(queued[at], Buf(at))
      BY <1>1, <1>3, <2>1, <2>5 DEF Typed
    <3>2. queued[at] \in Seq(Buffers) /\ Len(queued[at]) \in Nat /\ DOMAIN queued[at] = 1 .. Len(queued[at])
      BY <1>1, <1>3, QueueTyped
    <3>3. /\ DOMAIN queued'[at] = 1 .. Len(queued[at]) + 1
          /\ \A i \in 1 .. Len(queued[at]) : queued'[at][i] = queued[at][i]
          /\ queued'[at][Len(queued[at]) + 1] = Buf(at)
      BY <1>5, <2>2, <3>1, <3>2, AppendProperties, LenProperties
    <3>4. \A i \in 1 .. Len(queued[at]) + 1 : i \in 1 .. Len(queued[at]) \/ i = Len(queued[at]) + 1
      BY <3>2
    <3>5. 1 .. Len(queued[at]) \subseteq 1 .. Len(queued[at]) + 1 /\ Len(queued[at]) + 1 \in 1 .. Len(queued[at]) + 1
      BY <3>2
    <3> QED BY <3>2, <3>3, <3>4, <3>5 DEF Has
  <2>6. ASSUME NEW h \in Hubs, h # at, started' = Hubs PROVE queued'[h] = queued[h]
    BY <1>1, <2>1, <2>6 DEF Typed
  <2>7. ~Has(queued[at], Buf(at))
    <3>1. /\ DOMAIN queued[at] = 1 .. Len(queued[at]) /\ ~Past(at) /\ Buf(at)[1] = frame
      <4>1. at \in Nat
        BY <1>1, <1>3, FeedTyped DEF Typed, TypeOK
      <4>2. ~Past(at)
        BY <4>1, <2>2 DEF Past
      <4> QED BY <4>2, <1>1, <1>3, <2>2, QueueTyped, BufTyped
    <3>2. \A i \in 1 .. Len(queued[at]) : queued[at][i][1] # frame
      BY <1>1, <1>3, <3>1 DEF QueuesOrdered, QueueOrdered
    <3> QED BY <3>1, <3>2 DEF Has
  <2>8. ASSUME started' = Hubs, NEW b \in Buffers,
               refs[b] = Sampled(b) + InHand(b) + Cardinality(Queueing(b))
        PROVE  refs'[b] = Sampled(b)' + InHand(b)' + Cardinality(Queueing(b)')
    <3>1. CASE b = Buf(at)
      <4>1. Queueing(b)' = Queueing(b) \cup {at} /\ at \notin Queueing(b)
        BY <1>2, <1>3, <2>5, <2>6, <2>7, <2>8, <3>1 DEF Queueing, InQueues
      <4>2. Cardinality(Queueing(b)') = Cardinality(Queueing(b)) + 1
        BY <1>7, <4>1, FS_AddElement
      <4> QED BY <1>7, <2>1, <2>3, <2>4, <2>8, <3>1, <4>2
    <3>2. CASE b # Buf(at)
      <4>1. Queueing(b)' = Queueing(b)
        BY <1>2, <1>3, <2>5, <2>6, <2>8, <3>2 DEF Queueing, InQueues
      <4> QED BY <1>7, <2>1, <2>3, <2>4, <2>8, <3>2, <4>1
    <3> QED BY <3>1, <3>2
  <2> QED BY <1>1, <2>1, <2>8, RefsCounted
<1> QED BY <1>8, <1>9, <1>10, <1>11, <1>12, <1>13 DEF Push

\* In every behaviour the variables have their types and, until a hub is
\* stopped, every buffer has as many references as holders: none is leaked by
\* an early return of push_nvmm_rgba_buffer, none is released twice.
THEOREM HubInvariant == Spec => []HubInv
<1>1. Init => RefsInv
  <2> SUFFICES ASSUME Init PROVE RefsInv
    OBVIOUS
  <2>1. Typed
    BY InitTyped
  <2>2. \A h \in Hubs : Len(queued[h]) = 0 /\ DOMAIN queued[h] = {}
    BY EmptySeq DEF Init
  <2>3. QueuesOrdered
    BY <2>2 DEF QueuesOrdered, QueueOrdered
  <2>4. \A b : Queueing(b) = {}
    BY <2>2 DEF Queueing, InQueues, Has
  <2>5. ASSUME NEW b \in Buffers PROVE refs[b] = Holders(b)
    <3>1. refs[b] = 0 /\ InHand(b) = 0 /\ Sampled(b) = 0
      <4>1. b[1] # 0
        BY DEF Buffers
      <4> QED BY <4>1 DEF Init, InHand, Sampled
    <3>2. Counted(b)
      BY <2>1, <2>3, HoldersCounted
    <3> QED BY <2>4, <3>1, <3>2, FS_EmptySet DEF Counted
  <2> QED BY <2>1, <2>3, <2>5 DEF RefsInv, RefsMatchHolders
<1>2. RefsInv /\ [Next]_vars => RefsInv'
  <2>1. CASE RefsInv /\ Next
    BY <2>1, PushCounts, HubCounts DEF Next
  <2>2. CASE RefsInv /\ UNCHANGED vars
    <3>1. Typed' /\ QueuesOrdered'
      BY <2>2, NextTyped, NextOrders DEF RefsInv
    <3>2. \A b : InHand(b)' = InHand(b)
      BY <2>2, SameFeed DEF vars, InHand, Buf
    <3> QED BY <2>2, <3>1, <3>2, RefsKept DEF vars, lifeVars
  <2> QED BY <2>1, <2>2
<1>3. RefsInv => HubInv
  BY DEF RefsInv, Typed, HubInv
<1> QED BY <1>1, <1>2, <1>3, PTL DEF Spec

----------------------------------------------------------------------------
(* The timestamps of a hub *)

LEMMA WholeFrames ==
  ASSUME NEW x \in Nat, NEW d \in Nat, d >= 1
  PROVE  /\ x \div d \in Nat /\ (x \div d) * d \in Nat /\ (x \div d) * d <= x
         /\ InFrameTimes((x \div d) * d, d)
<1> DEFINE k == x \div d
<1>1. k \in Nat /\ k * d <= x
  OBVIOUS
<1> HIDE DEF k
<1>2. k * d \in Nat /\ k <= k * d
  BY <1>1
<1>3. InFrameTimes(k * d, d)
  BY <1>1, <1>2 DEF InFrameTimes
<1> QED BY <1>1, <1>2, <1>3 DEF k

\* Of two numbers of whole frame times, the greater is a frame time greater.
LEMMA FrameApart ==
  ASSUME NEW m \in Nat, NEW n \in Nat, NEW d \in Nat, d >= 1,
         InFrameTimes(m, d), InFrameTimes(n, d)
  PROVE  /\ InFrameTimes(m + d, d)
         /\ m < n => m + d <= n
<1>1. PICK k \in 0 .. m : m = k * d
  BY DEF InFrameTimes
<1>2. PICK l \in 0 .. n : n = l * d
  BY DEF InFrameTimes
<1>3. (k + 1) * d = m + d /\ k + 1 \in 0 .. (m + d)
  BY <1>1
<1>4. ASSUME m < n PROVE m + d <= n
  <2>1. k < l
    <3> SUFFICES ASSUME l <= k PROVE FALSE
      BY <1>1, <1>2
    <3>1. l * d <= k * d
      BY <1>1, <1>2
    <3> QED BY <3>1, <1>1, <1>2, <1>4
  <2>2. (k + 1) * d <= l * d
    BY <2>1, <1>1, <1>2
  <2> QED BY <2>2, <1>2, <1>3
<1> QED BY <1>3, <1>4 DEF InFrameTimes

LEMMA StampLater ==
  ASSUME Typed, NEW h \in Hubs, NEW zero \in 0 .. now, InFrameTimes(prev[h], Dur[h])
  PROVE  /\ Stamp(h, zero) \in Nat /\ prev[h] + Dur[h] <= Stamp(h, zero)
         /\ InFrameTimes(Stamp(h, zero), Dur[h])
         /\ Stamp(h, zero) = prev[h] + Dur[h] \/ Stamp(h, zero) <= now - zero
<1>1. Dur[h] \in Nat /\ Dur[h] >= 1 /\ prev[h] \in Nat /\ now - zero \in Nat
  BY FeedTyped, ClockTyped DEF Typed, TypeOK
<1> DEFINE q == ((now - zero) \div Dur[h]) * Dur[h]
<1>2. q \in Nat /\ q <= now - zero /\ InFrameTimes(q, Dur[h])
  BY <1>1, WholeFrames
<1>3. Stamp(h, zero) = IF q <= prev[h] THEN prev[h] + Dur[h] ELSE q
  BY DEF Stamp
<1> HIDE DEF q
<1>4. CASE q <= prev[h]
  BY <1>1, <1>3, <1>4, FrameApart
<1>5. CASE prev[h] < q
  BY <1>1, <1>2, <1>3, <1>5, FrameApart
<1> QED BY <1>1, <1>2, <1>4, <1>5

LEMMA PushedTyped == Typed => \A h \in Hubs : Pushed(h) \in Int /\ Pushed(h) <= prev[h]
<1> SUFFICES ASSUME Typed, NEW h \in Hubs PROVE Pushed(h) \in Int /\ Pushed(h) <= prev[h]
  OBVIOUS
<1>1. Dur[h] \in Nat /\ prev[h] \in Nat
  BY FeedTyped, ClockTyped DEF Typed, TypeOK
<1> QED BY <1>1 DEF Pushed

StampVars == <<feed, prev, pts, queued, shown>>

\* Steps that stamp, push, show or drop nothing.
LEMMA StampsKept ==
  ASSUME MonotonicInv, UNCHANGED StampVars, Typed', QueuesOrdered',
         \/ UNCHANGED <<frame, at, step>>
         \/ step # "push" /\ step' # "push"
  PROVE  MonotonicInv'
<1>1. Hubs' = Hubs /\ Dur' = Dur /\ Solo' = Solo /\ Shared' = Shared
  BY SameFeed DEF StampVars, Solo
<1>2. ASSUME NEW h \in Hubs, StampsOrdered(h) PROVE StampsOrdered(h)'
  <2>1. Pushed(h)' = Pushed(h)
    BY <1>1 DEF Pushed, StampVars
  <2>2. (step = "push" /\ at = h => pts[Buf(h)] = prev[h])'
    BY <1>1, <1>2 DEF StampsOrdered, StampVars, Buf
  <2> QED BY <1>1, <1>2, <2>1, <2>2 DEF StampsOrdered, StampVars
<1> QED BY <1>1, <1>2 DEF MonotonicInv, StampVars

\* The oldest buffer of queue g leaves it, shown or dropped.
LEMMA StampsTail ==
  ASSUME MonotonicInv, NEW g \in Hubs, queued[g] # <<>>,
         queued' = [queued EXCEPT ![g] = Tail(@)],
         shown' = shown \/ shown' = [shown EXCEPT ![g] = pts[Head(queued[g])]],
         UNCHANGED <<feed, prev, pts, frame, at, step>>, Typed', QueuesOrdered'
  PROVE  MonotonicInv'
<1>1. /\ Hubs' = Hubs /\ Dur' = Dur /\ Solo' = Solo /\ Shared' = Shared
      /\ \A h : Pushed(h)' = Pushed(h) /\ Buf(h)' = Buf(h)
  BY SameFeed DEF Solo, Pushed, Buf
<1>2. /\ queued \in [Hubs -> Seq(Buffers)] /\ shown \in [Hubs -> Nat]
      /\ \A b \in Buffers : pts[b] \in Nat
      /\ \A h \in Hubs : Dur[h] \in Nat /\ Pushed(h) \in Int
  BY FeedTyped, PushedTyped DEF MonotonicInv, Typed, TypeOK
<1>3. ASSUME NEW h \in Hubs, h # g, StampsOrdered(h) PROVE StampsOrdered(h)'
  <2>1. queued'[h] = queued[h] /\ shown'[h] = shown[h]
    BY <1>2, <1>3
  <2> QED BY <1>1, <1>3, <2>1 DEF StampsOrdered
<1>4. ASSUME StampsOrdered(g) PROVE StampsOrdered(g)'
  <2> DEFINE n == Len(queued[g])
  <2>1. /\ queued[g] \in Seq(Buffers) /\ n \in Nat /\ n >= 1 /\ queued[g][1] = Head(queued[g])
        /\ \A i \in 1 .. n : queued[g][i] \in Buffers
    BY <1>2, QueueTyped, EmptySeq DEF MonotonicInv
  <2>2. /\ queued'[g] = Tail(queued[g]) /\ Len(queued'[g]) = n - 1
        /\ \A i \in 1 .. (n - 1) : queued'[g][i] = queued[g][i + 1]
    BY <1>2, <2>1, HeadTailProperties
  <2>3. \A i \in 1 .. n : /\ shown[g] + Dur[g] <= pts[queued[g][i]] /\ pts[queued[g][i]] <= Pushed(g)
                          /\ \A j \in 1 .. (i - 1) : pts[queued[g][j]] + Dur[g] <= pts[queued[g][i]]
    BY <1>4 DEF StampsOrdered
  <2>4. shown'[g] = shown[g] \/ shown'[g] = pts[queued[g][1]]
    BY <1>2, <2>1
  <2>5. 1 \in 1 .. n
    BY <2>1
  <2>6. shown'[g] <= Pushed(g)
    BY <1>4, <2>3, <2>4, <2>5 DEF StampsOrdered
  <2> HIDE DEF n
  <2>7. ASSUME NEW i \in 1 .. (n - 1)
        PROVE  /\ shown'[g] + Dur[g] <= pts[queued'[g][i]] /\ pts[queued'[g][i]] <= Pushed(g)
               /\ \A j \in 1 .. (i - 1) : pts[queued'[g][j]] + Dur[g] <= pts[queued'[g][i]]
    <3>1. i + 1 \in 1 .. n /\ queued'[g][i] = queued[g][i + 1] /\ 1 \in 1 .. (i + 1 - 1)
      BY <2>1, <2>2
    <3>2. /\ shown[g] + Dur[g] <= pts[queued[g][i + 1]] /\ pts[queued[g][i + 1]] <= Pushed(g)
          /\ pts[queued[g][1]] + Dur[g] <= pts[queued[g][i + 1]]
      BY <2>3, <3>1
    <3>3. ASSUME NEW j \in 1 .. (i - 1) PROVE pts[queued'[g][j]] + Dur[g] <= pts[queued'[g][i]]
      <4>1. j \in 1 .. (n - 1) /\ j + 1 \in 1 .. (i + 1 - 1)
        BY <2>1
      <4>2. pts[queued[g][j + 1]] + Dur[g] <= pts[queued[g][i + 1]]
        BY <2>3, <3>1, <4>1
      <4> QED BY <2>2, <3>1, <4>1, <4>2
    <3> QED BY <2>4, <3>1, <3>2, <3>3
  <2> QED BY <1>1, <1>4, <2>2, <2>6, <2>7 DEF StampsOrdered
<1> QED BY <1>1, <1>3, <1>4 DEF MonotonicInv

LEMMA StampStamps ==
  ASSUME MonotonicInv, PushStamp, UNCHANGED feed, Typed', QueuesOrdered'
  PROVE  MonotonicInv'
<1>1. /\ Hubs' = Hubs /\ Dur' = Dur /\ Solo' = Solo /\ Shared' = Shared /\ Typed /\ QueuesOrdered
  BY SameFeed DEF Solo, MonotonicInv
<1>2. /\ at \in Hubs /\ now \in Nat /\ prev \in [Hubs -> Nat] /\ pts \in [Buffers -> Nat]
      /\ t0 \in [Hubs -> 0 .. now]
      /\ Hubs = 1 .. NumHubs /\ NumHubs \in Nat
      /\ \A h \in Hubs : Dur[h] \in Nat
  BY <1>1, ClockTyped, FeedTyped DEF Typed, TypeOK
<1>3. PICK zero \in 0 .. now : /\ prev' = [prev EXCEPT ![at] = Stamp(at, zero)]
                               /\ pts' = [pts EXCEPT ![Buf(at)] = Stamp(at, zero)]
  <2>1. (IF t0[at] = 0 THEN now ELSE t0[at]) \in 0 .. now
    BY <1>2
  <2> QED BY <2>1 DEF PushStamp
<1>4. /\ step = "stamp" /\ step' = "push" /\ Buf(at) \in Buffers
      /\ UNCHANGED <<frame, at, queued, shown>>
  BY <1>1, BufTyped DEF PushStamp
<1> DEFINE new == Stamp(at, zero)
<1>5. new \in Nat /\ prev[at] + Dur[at] <= new /\ InFrameTimes(new, Dur[at])
  BY <1>1, <1>2, StampLater DEF MonotonicInv
<1> HIDE DEF new
<1>6. \A h \in Hubs : prev'[h] = (IF h = at THEN new ELSE prev[h]) /\ InFrameTimes(prev'[h], Dur[h])
  BY <1>2, <1>3, <1>5 DEF MonotonicInv, new
<1>7. ASSUME Solo, NEW h \in Hubs PROVE \A i \in 1 .. Len(queued[h]) : pts'[queued[h][i]] = pts[queued[h][i]]
  <2> SUFFICES ASSUME NEW i \in 1 .. Len(queued[h]) PROVE queued[h][i] # Buf(at)
    BY <1>2, <1>3
  <2>1. /\ queued[h][i][2] = Column(h) /\ (queued[h][i][1] = frame => Past(h))
        /\ Buf(at)[1] = frame /\ Buf(at)[2] = Column(at)
    BY <1>1, <1>4, BufTyped DEF QueuesOrdered, QueueOrdered
  <2>2. CASE h = at
    BY <1>2, <1>4, <2>1, <2>2 DEF Past
  <2>3. CASE h # at
    BY <1>2, <1>7, <2>1, <2>3 DEF Solo, Column
  <2> QED BY <2>2, <2>3
<1>8. ASSUME Solo, NEW h \in Hubs PROVE StampsOrdered(h)'
  <2>1. StampsOrdered(h)
    BY <1>8 DEF MonotonicInv
  <2>2. /\ Pushed(h)' \in Int /\ Pushed(h) \in Int
        /\ shown[h] \in Nat /\ \A i \in 1 .. Len(queued[h]) : pts[queued[h][i]] \in Nat
    <3>1. Pushed(h) \in Int
      BY <1>1, PushedTyped
    <3>2. Pushed(h)' \in Int
      <4>1. prev'[h] \in Nat /\ Dur'[h] \in Nat
        BY <1>1, <1>2, <1>5, <1>6
      <4> QED BY <4>1 DEF Pushed
    <3>3. shown[h] \in Nat /\ \A i \in 1 .. Len(queued[h]) : pts[queued[h][i]] \in Nat
      BY <1>1, <1>2, QueueTyped DEF Typed
    <3> QED BY <3>1, <3>2, <3>3
  <2>3. Pushed(h) <= Pushed(h)'
    BY <1>1, <1>2, <1>4, <1>5, <1>6 DEF Pushed
  <2>4. (step = "push" /\ at = h => pts[Buf(h)] = prev[h])'
    <3>1. Buf(h)' = Buf(h)
      BY <1>1, <1>4 DEF Buf
    <3>2. pts'[Buf(at)] = new
      BY <1>2, <1>3, <1>4 DEF new
    <3> QED BY <1>4, <1>6, <3>1, <3>2
  <2>5. shown[h] <= Pushed(h)'
    BY <2>1, <2>2, <2>3 DEF StampsOrdered
  <2>6. ASSUME NEW i \in 1 .. Len(queued[h])
        PROVE  /\ shown[h] + Dur[h] <= pts'[queued[h][i]] /\ pts'[queued[h][i]] <= Pushed(h)'
               /\ \A j \in 1 .. (i - 1) : pts'[queued[h][j]] + Dur[h] <= pts'[queued[h][i]]
    <3>1. /\ shown[h] + Dur[h] <= pts[queued[h][i]] /\ pts[queued[h][i]] <= Pushed(h)
          /\ \A j \in 1 .. (i - 1) : pts[queued[h][j]] + Dur[h] <= pts[queued[h][i]]
      BY <2>1 DEF StampsOrdered
    <3>2. pts[queued[h][i]] <= Pushed(h)'
      BY <2>2, <2>3, <3>1
    <3>3. \A j \in 1 .. (i - 1) : j \in 1 .. Len(queued[h])
      BY <1>1, QueueTyped
    <3> QED BY <1>7, <1>8, <3>1, <3>2, <3>3
  <2> QED BY <1>1, <1>4, <2>4, <2>5, <2>6 DEF StampsOrdered
<1> QED BY <1>1, <1>6, <1>8 DEF MonotonicInv

LEMMA QueueStamps ==
  ASSUME MonotonicInv, PushQueue, UNCHANGED feed, Typed', QueuesOrdered'
  PROVE  MonotonicInv'
<1>1. /\ Hubs' = Hubs /\ Dur' = Dur /\ Solo' = Solo /\ Shared' = Shared /\ Typed
  BY SameFeed DEF Solo, MonotonicInv
<1>2. /\ at \in Hubs /\ prev \in [Hubs -> Nat] /\ pts \in [Buffers -> Nat] /\ shown \in [Hubs -> Nat]
      /\ queued \in [Hubs -> Seq(Buffers)]
      /\ \A h \in Hubs : Dur[h] \in Nat
  BY <1>1, FeedTyped DEF Typed, TypeOK
<1>3. /\ step = "push" /\ step' # "push" /\ Buf(at) \in Buffers
      /\ UNCHANGED <<frame, prev, pts, shown>>
      /\ queued' = queued \/ queued' = [queued EXCEPT ![at] = Append(@, Buf(at))]
  BY <1>1, BufTyped, DoneTyped DEF PushQueue
<1>4. ASSUME NEW h \in Hubs PROVE Pushed(h)' = prev[h]
  BY <1>1, <1>3 DEF Pushed
<1>5. ASSUME Solo, NEW h \in Hubs PROVE StampsOrdered(h)'
  <2>1. StampsOrdered(h)
    BY <1>5 DEF MonotonicInv
  <2>2. /\ Pushed(h) \in Int /\ Pushed(h) <= prev[h]
        /\ queued[h] \in Seq(Buffers) /\ Len(queued[h]) \in Nat
        /\ \A i \in 1 .. Len(queued[h]) : pts[queued[h][i]] \in Nat
    BY <1>1, <1>2, PushedTyped, QueueTyped
  <2>3. CASE queued'[h] = queued[h]
    BY <1>1, <1>2, <1>3, <1>4, <2>1, <2>2, <2>3 DEF StampsOrdered
  <2>4. CASE queued'[h] = Append(queued[h], Buf(h)) /\ h = at
    <3> DEFINE n == Len(queued[h])
    <3>1. /\ Len(queued'[h]) = n + 1 /\ queued'[h][n + 1] = Buf(h)
          /\ \A i \in 1 .. n : queued'[h][i] = queued[h][i]
      BY <1>3, <2>2, <2>4, AppendProperties
    <3>2. pts[Buf(h)] = prev[h] /\ Pushed(h) = prev[h] - Dur[h]
      BY <1>3, <2>1, <2>4 DEF StampsOrdered, Pushed
    <3>3. /\ shown[h] <= Pushed(h)
          /\ \A i \in 1 .. n : /\ shown[h] + Dur[h] <= pts[queued[h][i]] /\ pts[queued[h][i]] <= Pushed(h)
                               /\ \A j \in 1 .. (i - 1) : pts[queued[h][j]] + Dur[h] <= pts[queued[h][i]]
      BY <2>1 DEF StampsOrdered
    <3> HIDE DEF n
    <3>4. n \in Nat /\ prev[h] \in Nat /\ Dur[h] \in Nat /\ shown[h] \in Nat
      BY <1>2, <2>2 DEF n
    <3>5. ASSUME NEW i \in 1 .. (n + 1)
          PROVE  /\ shown[h] + Dur[h] <= pts[queued'[h][i]] /\ pts[queued'[h][i]] <= prev[h]
                 /\ \A j \in 1 .. (i - 1) : pts[queued'[h][j]] + Dur[h] <= pts[queued'[h][i]]
      <4>1. CASE i = n + 1
        <5>1. ASSUME NEW j \in 1 .. n PROVE pts[queued[h][j]] + Dur[h] <= prev[h]
          BY <2>2, <3>2, <3>3, <3>4 DEF n
        <5> QED BY <3>1, <3>2, <3>3, <3>4, <4>1, <5>1
      <4>2. CASE i \in 1 .. n
        <5>1. \A j \in 1 .. (i - 1) : j \in 1 .. n
          BY <3>4, <4>2
        <5>2. pts[queued[h][i]] \in Nat
          BY <2>2, <4>2 DEF n
        <5>3. /\ shown[h] + Dur[h] <= pts[queued[h][i]] /\ pts[queued[h][i]] <= Pushed(h)
              /\ \A j \in 1 .. (i - 1) : pts[queued[h][j]] + Dur[h] <= pts[queued[h][i]]
          BY <3>3, <4>2
        <5>4. pts[queued[h][i]] <= prev[h]
          BY <3>2, <3>4, <5>2, <5>3
        <5> QED BY <3>1, <4>2, <5>1, <5>3, <5>4
      <4> QED BY <3>4, <4>1, <4>2
    <3>6. shown[h] <= prev[h]
      BY <3>2, <3>3, <3>4
    <3> QED BY <1>1, <1>3, <1>4, <3>1, <3>5, <3>6 DEF StampsOrdered
  <2>5. queued'[h] = queued[h] \/ (queued'[h] = Append(queued[h], Buf(h)) /\ h = at)
    BY <1>2, <1>3
  <2> QED BY <2>3, <2>4, <2>5
<1> QED BY <1>1, <1>3, <1>5 DEF MonotonicInv

LEMMA NextStamps == MonotonicInv /\ [Next]_vars => MonotonicInv'
<1> SUFFICES ASSUME MonotonicInv, [Next]_vars PROVE MonotonicInv'
  OBVIOUS
<1>1. Typed /\ QueuesOrdered /\ Typed' /\ QueuesOrdered'
  BY NextTyped, NextOrders DEF MonotonicInv
<1>2. CASE UNCHANGED vars
  BY <1>1, <1>2, StampsKept DEF vars, StampVars
<1>3. ASSUME UNCHANGED feed, Push PROVE MonotonicInv'
  <2>1. step # "idle" /\ Done => step' # "push"
    BY <1>1, DoneTyped
  <2>2. CASE NextPicture \/ Want \/ GateLoad \/ GateStore \/ PushCheck \/ PushState
    BY <1>1, <1>3, <2>1, <2>2, StampsKept
       DEF NextPicture, Want, GateLoad, GateStore, PushCheck, PushState, StampVars
  <2>3. CASE PushStamp
    BY <1>1, <1>3, <2>3, StampStamps
  <2>4. CASE PushQueue
    BY <1>1, <1>3, <2>4, QueueStamps
  <2> QED BY <1>3, <2>2, <2>3, <2>4 DEF Push
<1>4. ASSUME UNCHANGED feed, NEW h \in Hubs, Hub(h) PROVE MonotonicInv'
  <2>1. CASE Emit(h)
    BY <1>1, <1>4, <2>1, StampsTail DEF Emit
  <2>2. CASE Leak(h)
    <3>1. queued[h] # <<>>
      BY <2>2, EmptySeq DEF Leak
    <3> QED BY <1>1, <1>4, <2>2, <3>1, StampsTail DEF Leak
  <2>3. CASE SetNull(h)
    <3>1. /\ Hubs' = Hubs /\ Dur' = Dur /\ Solo' = Solo
          /\ \A g : Pushed(g)' = Pushed(g) /\ Buf(g)' = Buf(g)
          /\ UNCHANGED <<feed, prev, pts, shown, at, step>>
      BY <1>4, <2>3, SameFeed DEF SetNull, Solo, Pushed, Buf
    <3>2. ASSUME NEW g \in Hubs, StampsOrdered(g) PROVE StampsOrdered(g)'
      <4>1. CASE g = h
        <5>1. Len(queued'[g]) = 0
          BY <1>1, <2>3, <4>1, EmptySeq DEF SetNull, Typed
        <5> QED BY <3>1, <3>2, <5>1 DEF StampsOrdered
      <4>2. CASE g # h
        <5>1. queued'[g] = queued[g]
          BY <1>1, <2>3, <4>2 DEF SetNull, Typed
        <5> QED BY <3>1, <3>2, <5>1 DEF StampsOrdered
      <4> QED BY <4>1, <4>2
    <3> QED BY <1>1, <3>1, <3>2 DEF MonotonicInv
  <2>4. CASE ViewerInc(h) \/ ViewerDec(h) \/ StopFlag(h) \/ EndOfStream(h) \/ Unref(h)
    BY <1>1, <1>4, <2>4, StampsKept
       DEF ViewerInc, ViewerDec, StopFlag, EndOfStream, Unref, StampVars
  <2> QED BY <1>4, <2>1, <2>2, <2>3, <2>4 DEF Hub
<1> QED BY <1>2, <1>3, <1>4 DEF Next

LEMMA StampsSpec == Spec => []MonotonicInv
<1>1. Init => MonotonicInv
  <2> SUFFICES ASSUME Init PROVE MonotonicInv
    OBVIOUS
  <2>1. Typed /\ \A h \in Hubs : Len(queued[h]) = 0
    BY InitTyped, EmptySeq DEF Init
  <2>2. QueuesOrdered
    BY <2>1 DEF QueuesOrdered, QueueOrdered
  <2>3. \A h \in Hubs : Dur[h] \in Nat
    BY <2>1, FeedTyped DEF Typed, TypeOK
  <2>4. \A d \in Nat : InFrameTimes(0, d)
    BY DEF InFrameTimes
  <2>5. \A h \in Hubs : prev[h] = 0 /\ shown[h] = 0
    BY DEF Init
  <2>6. step = "idle"
    BY DEF Init
  <2> QED BY <2>1, <2>2, <2>3, <2>4, <2>5, <2>6 DEF MonotonicInv, StampsOrdered, Pushed
<1> QED BY <1>1, NextStamps, PTL DEF Spec

----------------------------------------------------------------------------
(* The timestamps and the clock *)

LEMMA BudgetTyped ==
  ASSUME Typed, NEW h \in Hubs
  PROVE  /\ Dur[h] \in Nat /\ Dur[h] >= 1 /\ joins[h] \in Nat
         /\ Budget(h) \in Nat /\ 2 * Dur[h] <= Budget(h)
         /\ joins[h] >= 1 => 4 * Dur[h] <= Budget(h)
<1>1. Dur[h] \in Nat /\ Dur[h] >= 1 /\ joins[h] \in Nat
  BY FeedTyped, ClockTyped DEF Typed, TypeOK
<1> DEFINE extra == joins[h] * Dur[h]
<1>2. Budget(h) = 2 * Dur[h] + 2 * extra
  BY <1>1 DEF Budget
<1>3. extra \in Nat /\ (joins[h] >= 1 => Dur[h] <= extra)
  BY <1>1
<1> HIDE DEF extra
<1> QED BY <1>1, <1>2, <1>3

HubClock(h) ==
  /\ t0[h] = 0 => prev[h] = 0
  /\ at = h /\ step = "allow" => Dur[h] # 1
  /\ IF Dur[h] = 1 THEN FullRate(h) ELSE Gated(h)

\* What a hub's promise to the clock depends on.
LEMMA ClockKept ==
  ASSUME ClockInv, UNCHANGED feed, Typed', NEW h \in Hubs,
         UNCHANGED <<now, last[h], credit[h], joins[h], t0[h], prev[h]>>,
         (at = h /\ step = "allow")' => at = h /\ step = "allow" /\ loaded' = loaded,
         at = h /\ step = "allow" => (at = h /\ step = "allow")',
         Pending(h)' => Pending(h),
         Past(h) \/ (at = h /\ step = "push") => Past(h)' \/ (at = h /\ step = "push")'
  PROVE  HubClock(h)'
<1>1. Dur' = Dur
  BY SameFeed
<1>2. HubClock(h) /\ Dur[h] \in Nat
  BY BudgetTyped DEF ClockInv, HubClock
<1>3. Since(h)' = Since(h) /\ Budget(h)' = Budget(h)
  BY <1>1 DEF Since, Budget
<1>4. /\ Owed(h) \in Nat /\ Owed(h)' \in Nat /\ Owed(h)' <= Owed(h)
      /\ prev[h] \in Nat /\ credit[h] \in Nat /\ now \in Nat /\ t0[h] \in 0 .. now
      /\ Since(h) \in 0 .. now /\ Budget(h) \in Nat
  BY <1>1, <1>2, ClockTyped, BudgetTyped DEF Owed, Since, ClockInv
<1>5. ASSUME Dur[h] = 1 PROVE FullRate(h)'
  BY <1>1, <1>2, <1>4, <1>5 DEF HubClock, FullRate
<1>6. ASSUME Dur[h] # 1 PROVE Gated(h)'
  BY <1>1, <1>2, <1>3, <1>4, <1>6 DEF HubClock, Gated
<1> QED BY <1>1, <1>2, <1>5, <1>6 DEF HubClock

LEMMA PictureClock ==
  ASSUME ClockInv, NextPicture, UNCHANGED feed, Typed', NEW h \in Hubs
  PROVE  HubClock(h)'
<1>1. Dur' = Dur /\ Typed /\ HubClock(h) /\ NumHubs \in Nat /\ Hubs = 1 .. NumHubs
  BY SameFeed, FeedTyped DEF ClockInv, HubClock, Typed, TypeOK
<1>2. /\ step = "idle" /\ at = NumHubs /\ step' = "want" /\ at' = 1
      /\ UNCHANGED <<loaded, last, credit, joins, t0, prev>>
  BY <1>1 DEF NextPicture, Typed, Control, gateVars
<1>3. now' \in Nat /\ now + 1 <= now'
  <2>1. PICK d \in Gaps : now' = now + d
    BY DEF NextPicture
  <2>2. d \in Nat /\ d >= 1 /\ now \in Nat
    BY <1>1, ClockTyped, HubAssumption
  <2> QED BY <2>1, <2>2
<1>4. /\ Past(h) /\ ~(at = h /\ step = "allow") /\ ~(at = h /\ step = "allow")'
      /\ ~Pending(h) /\ ~Pending(h)'
  BY <1>1, <1>2 DEF Past, Pending
<1>5. /\ prev[h] \in Nat /\ credit[h] \in Nat /\ now \in Nat /\ t0[h] \in 0 .. now
      /\ last[h] \in 0 .. now /\ Budget(h) \in Nat /\ Dur[h] \in Nat
  BY <1>1, ClockTyped, BudgetTyped
<1>6. ASSUME Dur[h] = 1 PROVE FullRate(h)'
  <2>1. t0[h] # 0 => prev[h] <= (now - t0[h]) + 1
    BY <1>1, <1>4, <1>6 DEF HubClock, FullRate
  <2>2. t0[h] # 0 => prev[h] <= now' - t0[h]
    BY <1>3, <1>5, <2>1
  <2> QED BY <1>2, <1>3, <1>5, <2>2 DEF FullRate
<1>7. ASSUME Dur[h] # 1 PROVE Gated(h)'
  <2>1. Since(h)' = Since(h) /\ Budget(h)' = Budget(h) /\ Owed(h) = 0 /\ Owed(h)' = 0
    BY <1>1, <1>2, <1>4 DEF Since, Budget, Owed
  <2>2. Since(h) = last[h]
    BY <1>4 DEF Since
  <2>3. t0[h] # 0 => IF last[h] # 0
                     THEN prev[h] + 0 + credit[h] <= (last[h] - t0[h]) + Budget(h)
                     ELSE prev[h] + 0 + 2 * Dur[h] <= (now - t0[h]) + Budget(h)
    BY <1>1, <1>7, <2>1, <2>2 DEF HubClock, Gated
  <2>4. t0[h] # 0 /\ last[h] = 0 => prev[h] + 0 + 2 * Dur[h] <= (now' - t0[h]) + Budget(h)
    BY <1>3, <1>5, <2>3
  <2> QED BY <1>1, <1>2, <1>4, <2>1, <2>2, <2>3, <2>4 DEF Gated
<1> QED BY <1>1, <1>2, <1>4, <1>6, <1>7 DEF HubClock

LEMMA LoadClock ==
  ASSUME ClockInv, GateLoad, UNCHANGED feed, Typed', NEW h \in Hubs
  PROVE  HubClock(h)'
<1>1. Dur' = Dur /\ Typed /\ HubClock(h)
  BY SameFeed DEF ClockInv, HubClock
<1>2. /\ step = "gate" /\ step' = (IF Dur[at] <= 1 THEN "check" ELSE "allow") /\ loaded' = last[at]
      /\ UNCHANGED <<now, at, last, credit, joins, t0, prev>>
  BY DEF GateLoad
<1>3. CASE h # at
  BY <1>1, <1>2, <1>3, ClockKept DEF Pending, Past
<1>4. CASE h = at
  <2>1. Dur[h] \in Nat /\ Dur[h] >= 1 /\ Past(h)' = Past(h)
    BY <1>1, <1>2, BudgetTyped DEF Past
  <2>2. ASSUME Dur[h] = 1 PROVE FullRate(h)'
    BY <1>1, <1>2, <2>1, <2>2 DEF HubClock, FullRate
  <2>3. ASSUME Dur[h] # 1 PROVE Gated(h)'
    <3>1. step' = "allow"
      BY <1>2, <1>4, <2>1, <2>3
    <3>2. /\ Since(h)' = Since(h) /\ Budget(h)' = Budget(h) /\ Owed(h)' = Owed(h) /\ ~Pending(h)'
      BY <1>1, <1>2, <1>4, <3>1 DEF Since, Budget, Owed, Pending
    <3> QED BY <1>1, <1>2, <2>3, <3>2 DEF HubClock, Gated
  <2>4. step' = "allow" => Dur[h] # 1
    BY <1>2, <1>4, <2>1
  <2> QED BY <1>1, <1>2, <2>2, <2>3, <2>4 DEF HubClock
<1> QED BY <1>3, <1>4

LEMMA StoreClock ==
  ASSUME ClockInv, GateStore, UNCHANGED feed, Typed', NEW h \in Hubs
  PROVE  HubClock(h)'
<1>1. Dur' = Dur /\ Typed /\ HubClock(h)
  BY SameFeed DEF ClockInv, HubClock
<1>2. /\ step = "allow" /\ step' \in {"idle", "want", "check"} /\ UNCHANGED <<now, loaded, joins, t0, prev>>
      /\ IF Passes(at) THEN step' = "check" /\ at' = at ELSE Done /\ step' # "check"
      /\ last' = [last EXCEPT ![at] = now]
      /\ credit' = [credit EXCEPT ![at] = IF First THEN Dur[at]
                      ELSE IF Passes(at) THEN Earned(at) - Dur[at] ELSE Earned(at)]
  BY <1>1, DoneTyped DEF GateStore
<1>3. /\ at \in Hubs /\ now \in Nat /\ now >= 1 /\ loaded \in 0 .. now
      /\ last \in [Hubs -> 0 .. now] /\ credit \in [Hubs -> Nat]
  BY <1>1, ClockTyped
<1>4. CASE h # at
  <2>1. last'[h] = last[h] /\ credit'[h] = credit[h]
    BY <1>2, <1>3, <1>4
  <2>2. Pending(h)' => Pending(h)
    BY <1>2, <1>4 DEF Pending, Done
  <2>3. Past(h) => Past(h)'
    BY <1>1, <1>2, DoneTyped DEF Past
  <2> QED BY <1>1, <1>2, <1>4, <2>1, <2>2, <2>3, ClockKept
<1>5. CASE h = at
  <2>1. /\ Dur[h] \in Nat /\ Dur[h] # 1 /\ Dur[h] >= 1 /\ Budget(h) \in Nat /\ 2 * Dur[h] <= Budget(h)
        /\ prev[h] \in Nat /\ credit[h] \in Nat /\ t0[h] \in 0 .. now
    BY <1>1, <1>2, <1>3, <1>5, BudgetTyped, ClockTyped DEF HubClock
  <2>2. Gated(h) /\ Since(h) = loaded /\ Owed(h) = 0
    BY <1>1, <1>2, <1>5, <2>1 DEF HubClock, Since, Owed, Pending
  <2>3. last'[h] = now /\ Since(h)' = now /\ Budget(h)' = Budget(h)
    BY <1>1, <1>2, <1>3, <1>5 DEF Since, Budget
  <2>4. /\ Pending(h)' <=> Passes(h)
        /\ Owed(h)' = IF Passes(h) THEN Dur[h] ELSE 0
    BY <1>1, <1>2, <1>5 DEF Pending, Owed
  <2>5. First <=> loaded = 0
    BY <1>3 DEF First
  <2>6. /\ Earned(h) \in Nat /\ Earned(h) <= credit[h] + (now - loaded) /\ Earned(h) <= 2 * Dur[h]
    BY <1>3, <2>1 DEF Earned
  <2>7. credit'[h] = IF First THEN Dur[h] ELSE IF Passes(h) THEN Earned(h) - Dur[h] ELSE Earned(h)
    BY <1>2, <1>3, <1>5
  <2>8. Gated(h)'
    <3>1. CASE First
      <4>1. Passes(h) /\ credit'[h] = Dur[h] /\ Owed(h)' = Dur[h] /\ loaded = 0
        BY <2>4, <2>5, <2>7, <3>1 DEF Passes
      <4>2. t0[h] # 0 => prev[h] + 2 * Dur[h] <= (now - t0[h]) + Budget(h)
        BY <2>1, <2>2, <4>1 DEF Gated
      <4> QED BY <1>1, <1>2, <1>3, <2>1, <2>3, <4>1, <4>2 DEF Gated
    <3>2. CASE ~First
      <4>1. loaded # 0 /\ (t0[h] # 0 => prev[h] + credit[h] <= (loaded - t0[h]) + Budget(h))
        BY <1>3, <2>1, <2>2, <2>5, <3>2 DEF Gated
      <4>2. credit'[h] + Owed(h)' = Earned(h)
        BY <2>1, <2>4, <2>6, <2>7, <3>2
      <4>3. Passes(h) => credit'[h] = Earned(h) - Dur[h] /\ credit'[h] <= Dur[h]
        BY <2>1, <2>6, <2>7, <3>2
      <4>4. Owed(h)' \in Nat /\ credit'[h] \in Int
        BY <2>1, <2>4, <2>6, <2>7
      <4>5. t0[h] # 0 => prev[h] + Owed(h)' + credit'[h] <= (now - t0[h]) + Budget(h)
        BY <1>3, <2>1, <2>6, <4>1, <4>2, <4>4
      <4> QED BY <1>1, <1>2, <1>3, <2>1, <2>3, <2>4, <4>3, <4>5 DEF Gated
    <3> QED BY <3>1, <3>2
  <2> QED BY <1>1, <1>2, <2>1, <2>8 DEF HubClock
<1> QED BY <1>4, <1>5

LEMMA StampClock ==
  ASSUME ClockInv, MonotonicInv, PushStamp, UNCHANGED feed, Typed', NEW h \in Hubs
  PROVE  HubClock(h)'
<1>1. Dur' = Dur /\ Typed /\ HubClock(h)
  BY SameFeed DEF ClockInv, HubClock
<1>2. /\ at \in Hubs /\ now \in Nat /\ now >= 1 /\ t0 \in [Hubs -> 0 .. now]
      /\ prev \in [Hubs -> Nat]
  BY <1>1, ClockTyped
<1> DEFINE zero == IF t0[at] = 0 THEN now ELSE t0[at]
           new  == Stamp(at, zero)
<1>3. /\ step = "stamp" /\ step' = "push" /\ UNCHANGED <<now, at, loaded, last, credit, joins>>
      /\ t0' = [t0 EXCEPT ![at] = zero] /\ prev' = [prev EXCEPT ![at] = new]
  BY DEF PushStamp, gateVars
<1>4. zero \in 0 .. now /\ zero # 0
  BY <1>2
<1> HIDE DEF zero
<1>5. new \in Nat /\ (new = prev[at] + Dur[at] \/ new <= now - zero)
  BY <1>1, <1>2, <1>4, StampLater DEF MonotonicInv
<1> HIDE DEF new
<1>6. CASE h # at
  <2>1. t0'[h] = t0[h] /\ prev'[h] = prev[h]
    BY <1>2, <1>3, <1>6
  <2> QED BY <1>1, <1>3, <1>6, <2>1, ClockKept DEF Pending, Past
<1>7. CASE h = at
  <2>1. /\ Dur[h] \in Nat /\ Dur[h] >= 1 /\ Budget(h) \in Nat /\ 2 * Dur[h] <= Budget(h)
        /\ joins[h] >= 1 => 4 * Dur[h] <= Budget(h)
        /\ credit[h] \in Nat /\ last[h] \in 0 .. now /\ prev[h] \in Nat
    BY <1>1, BudgetTyped, ClockTyped
  <2>2. /\ t0'[h] = zero /\ prev'[h] = new /\ new \in Nat
        /\ new = prev[h] + Dur[h] \/ new <= now - zero
        /\ (t0[h] = 0 => prev[h] = 0 /\ zero = now) /\ (t0[h] # 0 => zero = t0[h])
    BY <1>1, <1>2, <1>3, <1>5, <1>7 DEF HubClock, zero
  <2>3. ~Past(h) /\ Pending(h) /\ ~Pending(h)'
    BY <1>1, <1>2, <1>3, <1>7, FeedTyped DEF Past, Pending, Typed, TypeOK
  <2>4. ASSUME Dur[h] = 1 PROVE FullRate(h)'
    <3>1. t0[h] # 0 => prev[h] <= now - t0[h]
      BY <1>1, <1>2, <1>3, <2>1, <2>3, <2>4 DEF HubClock, FullRate
    <3>2. new <= (now - zero) + 1
      BY <1>2, <1>4, <2>1, <2>2, <2>4, <3>1
    <3>3. step' = "push" /\ at' = h
      BY <1>3, <1>7
    <3> QED BY <1>3, <2>2, <3>2, <3>3 DEF FullRate
  <2>5. ASSUME Dur[h] # 1 PROVE Gated(h)'
    <3>1. Since(h) = last[h] /\ Since(h)' = last[h] /\ Owed(h) = Dur[h] /\ Owed(h)' = 0 /\ Budget(h)' = Budget(h)
      BY <1>1, <1>3, <2>3 DEF Since, Owed, Budget
    <3>2. /\ credit[h] <= Dur[h]
          /\ last[h] = now \/ (last[h] = 0 /\ joins[h] >= 1)
          /\ t0[h] # 0 => IF last[h] # 0
                          THEN prev[h] + Dur[h] + credit[h] <= (last[h] - t0[h]) + Budget(h)
                          ELSE prev[h] + Dur[h] + 2 * Dur[h] <= (now - t0[h]) + Budget(h)
      BY <1>1, <2>3, <2>5, <3>1 DEF HubClock, Gated
    <3>3. CASE last[h] # 0
      <4>1. new + credit[h] <= (last[h] - zero) + Budget(h)
        BY <1>2, <1>4, <2>1, <2>2, <3>2, <3>3
      <4> QED BY <1>3, <2>1, <2>2, <2>3, <3>1, <3>3, <4>1 DEF Gated
    <3>4. CASE last[h] = 0
      <4>1. new + 2 * Dur[h] <= (now - zero) + Budget(h)
        BY <1>2, <1>4, <2>1, <2>2, <3>2, <3>4
      <4>2. new + 0 + 2 * Dur[h] <= (now - zero) + Budget(h)
        BY <2>2, <4>1
      <4> QED BY <1>1, <1>3, <2>2, <2>3, <3>1, <3>4, <4>2 DEF Gated
    <3> QED BY <3>3, <3>4
  <2> QED BY <1>1, <1>3, <1>4, <2>2, <2>4, <2>5 DEF HubClock
<1> QED BY <1>6, <1>7

LEMMA JoinClock ==
  ASSUME ClockInv, NEW g \in Hubs, ViewerInc(g), UNCHANGED feed, Typed', NEW h \in Hubs
  PROVE  HubClock(h)'
<1>1. Dur' = Dur /\ Typed /\ HubClock(h)
  BY SameFeed DEF ClockInv, HubClock
<1>2. /\ last' = [last EXCEPT ![g] = 0] /\ credit' = [credit EXCEPT ![g] = 0]
      /\ joins' = [joins EXCEPT ![g] = @ + 1]
      /\ UNCHANGED <<now, at, step, loaded, t0, prev>>
  BY DEF ViewerInc
<1>3. /\ last \in [Hubs -> 0 .. now] /\ credit \in [Hubs -> Nat] /\ joins \in [Hubs -> Nat]
  BY <1>1, ClockTyped
<1>4. CASE h # g
  <2>1. last'[h] = last[h] /\ credit'[h] = credit[h] /\ joins'[h] = joins[h]
    BY <1>2, <1>3, <1>4
  <2> QED BY <1>1, <1>2, <2>1, ClockKept DEF Pending, Past
<1>5. CASE h = g
  <2>1. /\ Dur[h] \in Nat /\ Dur[h] >= 1 /\ Budget(h) \in Nat /\ joins[h] \in Nat
        /\ credit[h] \in Nat /\ prev[h] \in Nat /\ now \in Nat /\ t0[h] \in 0 .. now
        /\ loaded \in 0 .. now /\ last[h] \in 0 .. now
    BY <1>1, BudgetTyped, ClockTyped
  <2>2. last'[h] = 0 /\ credit'[h] = 0 /\ joins'[h] = joins[h] + 1
    BY <1>2, <1>3, <1>5
  <2>3. Budget(h)' = Budget(h) + 2 * Dur[h]
    <3>1. (2 + 2 * (joins[h] + 1)) * Dur[h] = (2 + 2 * joins[h]) * Dur[h] + 2 * Dur[h]
      BY <2>1
    <3> QED BY <1>1, <2>2, <3>1 DEF Budget
  <2>4. Past(h)' = Past(h) /\ Pending(h)' = Pending(h) /\ Owed(h)' = Owed(h) /\ Owed(h) \in Nat
    BY <1>1, <1>2, <2>1 DEF Past, Pending, Owed
  <2>5. ASSUME Dur[h] = 1 PROVE FullRate(h)'
    BY <1>1, <1>2, <2>4, <2>5 DEF HubClock, FullRate
  <2>6. ASSUME Dur[h] # 1 PROVE Gated(h)'
    <3>1. Gated(h)
      BY <1>1, <2>6 DEF HubClock
    <3>2. Pending(h)' => credit'[h] <= Dur[h] /\ last'[h] = 0 /\ joins'[h] >= 1
      BY <2>1, <2>2
    <3>3. Since(h) \in 0 .. now
      BY <2>1 DEF Since
    <3>4. t0[h] # 0 /\ Since(h) # 0 => prev[h] + Owed(h) + 0 <= (Since(h) - t0[h]) + Budget(h)
      BY <2>1, <2>4, <3>1, <3>3 DEF Gated
    <3>5. t0[h] # 0 => prev[h] + Owed(h) + 2 * Dur[h] <= (now - t0[h]) + (Budget(h) + 2 * Dur[h])
      BY <2>1, <2>4, <3>1, <3>3, <3>4 DEF Gated
    <3>6. CASE at = h /\ step = "allow"
      <4>1. Since(h) = loaded /\ Since(h)' = loaded
        BY <1>2, <3>6 DEF Since
      <4>2. t0[h] # 0 /\ loaded # 0 => prev[h] + Owed(h) + 0 <= (loaded - t0[h]) + (Budget(h) + 2 * Dur[h])
        BY <2>1, <2>4, <3>4, <4>1
      <4> QED BY <1>1, <1>2, <2>2, <2>3, <2>4, <3>2, <3>5, <4>1, <4>2 DEF Gated
    <3>7. CASE ~(at = h /\ step = "allow")
      <4>1. Since(h)' = 0
        BY <1>2, <2>2, <3>7 DEF Since
      <4> QED BY <1>1, <1>2, <2>2, <2>3, <2>4, <3>2, <3>5, <4>1 DEF Gated
    <3> QED BY <3>6, <3>7
  <2> QED BY <1>1, <1>2, <2>5, <2>6 DEF HubClock
<1> QED BY <1>4, <1>5

LEMMA NextClock == ClockInv /\ MonotonicInv /\ [Next]_vars => ClockInv'
<1> SUFFICES ASSUME ClockInv, MonotonicInv, [Next]_vars PROVE ClockInv'
  OBVIOUS
<1>1. Typed /\ Typed' /\ UNCHANGED feed /\ Hubs' = Hubs
  BY NextTyped, SameFeed DEF ClockInv, Next, vars
<1> SUFFICES ASSUME NEW h \in Hubs PROVE HubClock(h)'
  BY <1>1 DEF ClockInv, HubClock
<1>2. CASE UNCHANGED vars
  BY <1>1, <1>2, ClockKept DEF vars, gateVars, Pending, Past
<1>3. CASE Push
  <2>1. /\ step # "idle" /\ Done => step' \in {"idle", "want"} /\ (Past(h) \/ h = at => Past(h)')
    BY <1>1, DoneTyped
  <2>2. CASE NextPicture
    BY <1>1, <2>2, PictureClock
  <2>3. CASE GateLoad
    BY <1>1, <2>3, LoadClock
  <2>4. CASE GateStore
    BY <1>1, <2>4, StoreClock
  <2>5. CASE PushStamp
    BY <1>1, <2>5, StampClock
  <2>6. CASE Want \/ PushCheck \/ PushState \/ PushQueue
    <3>1. /\ step \in {"want", "check", "state", "push"}
          /\ UNCHANGED <<now, last, credit, joins, t0, prev, loaded>>
          /\ Done \/ at' = at
      BY <2>6 DEF Want, PushCheck, PushState, PushQueue, gateVars
    <3>2. step' # "allow" /\ (Pending(h)' => Pending(h))
      BY <2>1, <2>6 DEF Want, PushCheck, PushState, PushQueue, Pending
    <3>3. Past(h) \/ (at = h /\ step = "push") => Past(h)'
      BY <2>1, <2>6, <3>1 DEF Want, PushCheck, PushState, PushQueue, Past
    <3> QED BY <1>1, <3>1, <3>2, <3>3, ClockKept
  <2> QED BY <1>3, <2>2, <2>3, <2>4, <2>5, <2>6 DEF Push
<1>4. ASSUME NEW g \in Hubs, Hub(g) PROVE HubClock(h)'
  <2>1. CASE ViewerInc(g)
    BY <1>1, <2>1, JoinClock
  <2>2. CASE Emit(g) \/ Leak(g) \/ ViewerDec(g) \/ StopFlag(g) \/ EndOfStream(g) \/ SetNull(g) \/ Unref(g)
    <3>1. UNCHANGED <<now, at, step, loaded, last, credit, joins, t0, prev>>
      BY <2>2 DEF Emit, Leak, ViewerDec, StopFlag, EndOfStream, SetNull, Unref, gateVars
    <3> QED BY <1>1, <3>1, ClockKept DEF Pending, Past
  <2> QED BY <1>4, <2>1, <2>2 DEF Hub
<1> QED BY <1>2, <1>3, <1>4 DEF Next

\* In every behaviour the timestamps of a hub never fall back by being skipped,
\* dropped or restarted, each is at least a frame time after the one its encoder
\* got before, and none is ahead of the clock by more than the gate's two frame
\* times and two more for each viewer that has come.
THEOREM PtsAreSound == Spec => PtsSound
<1>1. Init => ClockInv
  <2> SUFFICES ASSUME Init PROVE ClockInv
    OBVIOUS
  <2>1. Typed /\ step = "idle" /\ \A h \in Hubs : t0[h] = 0 /\ prev[h] = 0
    BY InitTyped DEF Init
  <2> QED BY <2>1 DEF ClockInv, FullRate, Gated, Pending
<1>2. Spec => []ClockInv
  BY <1>1, StampsSpec, NextClock, PTL DEF Spec
<1>3. ClockInv => PtsTracksClock
  <2> SUFFICES ASSUME ClockInv, NEW h \in Hubs, t0[h] # 0
               PROVE  prev[h] <= (now - t0[h]) + (2 + 2 * joins[h]) * Dur[h]
    BY DEF PtsTracksClock
  <2>1. /\ Dur[h] \in Nat /\ Dur[h] >= 1 /\ Budget(h) \in Nat /\ 2 * Dur[h] <= Budget(h)
        /\ credit[h] \in Nat /\ prev[h] \in Nat /\ now \in Nat /\ t0[h] \in 0 .. now
        /\ Since(h) \in 0 .. now /\ Owed(h) \in Nat
    BY BudgetTyped, ClockTyped DEF ClockInv, Since, Owed
  <2>2. prev[h] <= (now - t0[h]) + Budget(h)
    <3>1. CASE Dur[h] = 1
      BY <2>1, <3>1 DEF ClockInv, FullRate
    <3>2. CASE Dur[h] # 1
      BY <2>1, <3>2 DEF ClockInv, Gated
    <3> QED BY <3>1, <3>2
  <2> QED BY <2>2 DEF Budget
<1>4. MonotonicInv /\ [Next]_vars => [\A h \in Hubs : Emit(h) /\ (~Shared \/ NumHubs = 1)
                                         => shown'[h] >= shown[h] + Dur[h]]_vars
  <2> SUFFICES ASSUME MonotonicInv, NEW h \in Hubs, Emit(h), Solo
               PROVE  shown'[h] >= shown[h] + Dur[h]
    BY DEF Solo
  <2>1. StampsOrdered(h) /\ Typed
    BY DEF MonotonicInv
  <2>2. /\ queued[h] \in Seq(Buffers) /\ Len(queued[h]) \in Nat /\ Len(queued[h]) >= 1
        /\ queued[h][1] = Head(queued[h])
    BY <2>1, QueueTyped, EmptySeq DEF Emit
  <2>3. shown'[h] = pts[queued[h][1]] /\ pts[queued[h][1]] \in Nat /\ shown[h] \in Nat /\ Dur[h] \in Nat
    <3>1. shown \in [Hubs -> Nat] /\ pts \in [Buffers -> Nat] /\ Dur[h] \in Nat
      BY <2>1, FeedTyped DEF Typed, TypeOK
    <3>2. queued[h][1] \in Buffers
      BY <2>1, <2>2, QueueTyped
    <3> QED BY <2>2, <3>1, <3>2 DEF Emit
  <2> QED BY <2>1, <2>2, <2>3 DEF StampsOrdered
<1> QED BY <1>2, <1>3, <1>4, StampsSpec, PTL DEF Spec, PtsSound, PtsMonotonic
=============================================================================
