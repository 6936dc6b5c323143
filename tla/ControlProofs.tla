--------------------------- MODULE ControlProofs ----------------------------
(***************************************************************************)
(* Theorems of what happens beside the pictures, for any number of         *)
(* clients, streams, cameras and ports. ViewerCount: Control says where    *)
(* the client thread and the media threads may be, and with whose flag; on *)
(* top of it CountIsExact is inductive, and bounds each count by the       *)
(* number of clients and one for a media being started. BrightTuner: what  *)
(* is requested is the snapped exposure (TunerInv), and the snap keeps the *)
(* order. CtrlMailbox:                                                     *)
(* ValueIsLast says that a value which will be loaded is the last          *)
(* requested or has its successor under way. StreamPorts: Searched says    *)
(* that a search found all ports before the one it took in use.            *)
(***************************************************************************)
EXTENDS ViewerCount, BrightTuner, CtrlMailbox, StreamPorts,
        FiniteSetTheorems, WellFoundedInduction, TLAPS

----------------------------------------------------------------------------
(* ViewerCount *)

ClientLabels == {"configure", "boot", "prepare", "start", "count", "consume", "undo",
                 "stop", "uncount"}
Labels == ClientLabels \cup {"idle", "release"}

CountType ==
  /\ life \in [Clients -> {"out", "in"}]
  /\ active \in [Clients -> SUBSET Streams]
  /\ flag \in [Streams -> BOOLEAN]
  /\ registered \in [Streams -> BOOLEAN]
  /\ media \in [Streams -> {"none", "made"}]
  /\ viewers \in [Streams -> Nat]
  /\ pc \in Labels
  /\ who \in Clients \cup {None} /\ what \in Streams \cup {None}
  /\ drop \subseteq Streams
  /\ mpc \in [Streams -> {"idle", "undo", "forget"}]

\* The client thread serves one client at one stream, or releases one client
\* from the streams it is counted for.
Serving ==
  /\ pc # "idle" => who \in Clients
  /\ pc \in ClientLabels => what \in Streams
  /\ pc = "release" => drop \subseteq active[who]
  /\ pc = "count" => what \in active[who]
  /\ pc = "uncount" => what \notin active[who]

\* While a media is being ended, or its bootstrap viewer taken away, no other
\* bootstrap viewer of its stream is counted.
OneBootstrap ==
  /\ pc = "configure" => mpc[what] = "idle"
  /\ pc = "boot" => mpc[what] = "idle" /\ flag[what]
  /\ pc = "undo" => ~flag[what] /\ mpc[what] # "undo"
  /\ \A s \in Streams :
       mpc[s] # "idle" => ~flag[s] /\ (media[s] = "made" \/ ~registered[s])

Control == CountType /\ Serving /\ OneBootstrap

CountInv == Control /\ CountIsExact
----------------------------------------------------------------------------
(* Control is inductive *)

LEMMA ControlInit == Init => Control
<1> SUFFICES ASSUME Init PROVE Control
  OBVIOUS
<1> USE ViewerAssumption
<1>1. CountType
  BY DEF Init, CountType, Labels
<1>2. Serving /\ OneBootstrap
  BY DEF Init, Serving, OneBootstrap, ClientLabels
<1> QED BY <1>1, <1>2 DEF Control

\* A request reaches the client thread only when that is idle.
LEMMA RequestControl ==
  ASSUME Control, NEW c \in Clients,
         \/ Connect(c) \/ TeardownAll(c) \/ Closed(c)
         \/ \E s \in Streams : DescribeOrSetup(c, s) \/ Play(c, s) \/ PauseOrTeardown(c, s)
  PROVE  Control'
<1> USE DEF Control, CountType, Serving, OneBootstrap, Labels, ClientLabels, countVars, threadVars
<1>1. CASE Connect(c)
  BY <1>1 DEF Connect
<1>2. CASE TeardownAll(c)
  BY <1>2, ViewerAssumption DEF TeardownAll, ReleaseAll, Serve
<1>3. CASE Closed(c)
  BY <1>3, ViewerAssumption DEF Closed, ReleaseAll, Serve
<1>4. ASSUME NEW s \in Streams, DescribeOrSetup(c, s) PROVE Control'
  BY <1>4 DEF DescribeOrSetup, Serve
<1>5. ASSUME NEW s \in Streams, Play(c, s) PROVE Control'
  BY <1>5 DEF Play, Serve
<1>6. ASSUME NEW s \in Streams, PauseOrTeardown(c, s) PROVE Control'
  BY <1>6 DEF PauseOrTeardown, Serve
<1> QED BY <1>1, <1>2, <1>3, <1>4, <1>5, <1>6

LEMMA ThreadControl ==
  ASSUME Control, ClientThread
  PROVE  Control'
<1> USE DEF Control, CountType, Serving, OneBootstrap, Labels, ClientLabels, countVars, threadVars,
            ThenTo, Finish, Inc, Dec
<1>1. CASE MarkBootstrap
  BY <1>1 DEF MarkBootstrap
<1>2. CASE CountBootstrap
  BY <1>2 DEF CountBootstrap
<1>3. CASE PrepareMedia
  BY <1>3 DEF PrepareMedia
<1>4. CASE StartClientStream
  BY <1>4 DEF StartClientStream
<1>5. CASE CountClient
  BY <1>5 DEF CountClient
<1>6. CASE ConsumeBootstrap
  BY <1>6 DEF ConsumeBootstrap
<1>7. CASE UncountBootstrap
  BY <1>7 DEF UncountBootstrap
<1>8. CASE StopClientStream
  BY <1>8 DEF StopClientStream
<1>9. CASE UncountClient
  BY <1>9 DEF UncountClient
<1>10. CASE ReleaseStream
  BY <1>10 DEF ReleaseStream
<1>11. CASE ClearActive
  BY <1>11 DEF ClearActive
<1> QED BY <1>1, <1>2, <1>3, <1>4, <1>5, <1>6, <1>7, <1>8, <1>9, <1>10, <1>11 DEF ClientThread

LEMMA MediaControl ==
  ASSUME Control, NEW s \in Streams,
         Unprepared(s) \/ MediaUncount(s) \/ MediaForgotten(s) \/ DestroyFactory(s)
  PROVE  Control'
<1> USE DEF Control, CountType, Serving, OneBootstrap, Labels, ClientLabels, countVars, threadVars, Dec
<1>1. CASE Unprepared(s)
  BY <1>1 DEF Unprepared
<1>2. CASE MediaUncount(s)
  BY <1>2 DEF MediaUncount
<1>3. CASE MediaForgotten(s)
  BY <1>3 DEF MediaForgotten
<1>4. CASE DestroyFactory(s)
  BY <1>4 DEF DestroyFactory
<1> QED BY <1>1, <1>2, <1>3, <1>4

LEMMA ControlStep == Control /\ [Next]_vars => Control'
<1> SUFFICES ASSUME Control, [Next]_vars PROVE Control'
  OBVIOUS
<1>1. CASE UNCHANGED vars
  BY <1>1 DEF vars, countVars, threadVars, Control, CountType, Serving, OneBootstrap
<1> QED BY <1>1, RequestControl, ThreadControl, MediaControl DEF Next
----------------------------------------------------------------------------
(* The counts are exact *)

\* CountIsExact of one stream.
Exact(s) ==
  viewers[s] = Cardinality(Counted(s)) + One(flag[s] /\ ~At("boot", s))
             + One(At("undo", s)) + One(At("uncount", s))
             + One(pc = "release" /\ s \in drop) + One(mpc[s] = "undo")

LEMMA CountedFinite ==
  ASSUME NEW s \in Streams
  PROVE  /\ IsFiniteSet(Counted(s)) /\ Cardinality(Counted(s)) \in Nat
         /\ Cardinality(Counted(s)) <= Cardinality(Clients)
<1>1. Counted(s) \in SUBSET Clients
  BY DEF Counted
<1> QED BY <1>1, ViewerAssumption, FS_Subset, FS_CardinalityType

\* A client that is being taken away is not counted any more.
LEMMA CountedOthers ==
  ASSUME Control, NEW s \in Streams, At("uncount", s) \/ (pc = "release" /\ s \in drop)
  PROVE  Cardinality(Counted(s)) < Cardinality(Clients)
<1>1. who \in Clients /\ who \notin Counted(s)
  BY DEF Control, Serving, Counted, At, ClientLabels
<1>2. Counted(s) \in SUBSET Clients /\ Counted(s) # Clients
  BY <1>1 DEF Counted
<1>3. Cardinality(Counted(s)) # Cardinality(Clients)
  BY <1>2, ViewerAssumption, FS_Subset
<1>4. Cardinality(Clients) \in Nat
  BY ViewerAssumption, FS_CardinalityType
<1> QED BY <1>3, <1>4, CountedFinite

LEMMA TypeFollows == CountInv => TypeOK
<1> SUFFICES ASSUME CountInv PROVE TypeOK
  OBVIOUS
<1>1. ASSUME NEW s \in Streams PROVE viewers[s] \in 0 .. Cardinality(Clients) + 1
  <2>1. viewers[s] \in Nat /\ flag[s] \in BOOLEAN
    BY DEF CountInv, Control, CountType
  <2>2. Cardinality(Clients) \in Nat /\ Cardinality(Counted(s)) \in Nat
    BY ViewerAssumption, FS_CardinalityType, CountedFinite
  <2>3. CASE At("uncount", s) \/ (pc = "release" /\ s \in drop)
    <3>1. Cardinality(Counted(s)) < Cardinality(Clients)
      BY <2>3, CountedOthers DEF CountInv
    <3>2. viewers[s] <= Cardinality(Counted(s)) + 2
      BY <2>2, <2>3 DEF CountInv, CountIsExact, Control, OneBootstrap, One, At
    <3> QED BY <2>1, <2>2, <3>1, <3>2
  <2>4. CASE ~(At("uncount", s) \/ (pc = "release" /\ s \in drop))
    <3>1. Cardinality(Counted(s)) <= Cardinality(Clients)
      BY CountedFinite
    <3>2. viewers[s] <= Cardinality(Counted(s)) + 1
      BY <2>2, <2>4 DEF CountInv, CountIsExact, Control, OneBootstrap, One, At
    <3> QED BY <2>1, <2>2, <3>1, <3>2
  <2> QED BY <2>3, <2>4
<1>2. viewers \in [Streams -> 0 .. Cardinality(Clients) + 1]
  BY <1>1 DEF CountInv, Control, CountType
<1> QED BY <1>2 DEF CountInv, Control, CountType, Labels, ClientLabels, TypeOK

LEMMA CountInit == Init => CountIsExact
<1> SUFFICES ASSUME Init, NEW s \in Streams
             PROVE  /\ Counted(s) = {} /\ viewers[s] = 0
                    /\ ~flag[s] /\ pc = "idle" /\ mpc[s] = "idle"
  BY FS_EmptySet DEF CountIsExact, One, At
<1> QED BY DEF Init, Counted

\* Steps that change neither who is counted nor a decrement under way, or
\* both the count and the reason for it.
LEMMA RequestCount ==
  ASSUME CountInv, NEW c \in Clients,
         \/ Connect(c) \/ TeardownAll(c) \/ Closed(c)
         \/ \E s \in Streams : DescribeOrSetup(c, s) \/ Play(c, s) \/ PauseOrTeardown(c, s)
  PROVE  CountIsExact'
<1> SUFFICES ASSUME NEW s \in Streams PROVE Exact(s)'
  BY DEF CountIsExact, Exact
<1>0. IsFiniteSet(Counted(s)) /\ Cardinality(Counted(s)) \in Nat /\ Exact(s)
  BY CountedFinite DEF CountInv, CountIsExact, Exact
<1> USE DEF Exact
<1>1. CASE Connect(c)
  <2>1. Counted(s)' = Counted(s)
    BY <1>1 DEF Connect, Counted, At, threadVars
  <2> QED BY <1>0, <1>1, <2>1 DEF Connect, One, At, threadVars, countVars
<1>2. CASE ReleaseAll(c)
  <2>1. Counted(s)' = Counted(s) \ {c}
    BY <1>2 DEF ReleaseAll, Serve, Counted, At
  <2>2. c \in Counted(s) <=> s \in active[c]
    BY <1>2 DEF ReleaseAll, Serve, Counted, At
  <2>3. Cardinality(Counted(s))' = IF c \in Counted(s) THEN Cardinality(Counted(s)) - 1 ELSE Cardinality(Counted(s))
    BY <1>0, <2>1, FS_RemoveElement
  <2> QED BY <1>0, <1>2, <2>2, <2>3 DEF ReleaseAll, Serve, One, At, countVars
<1>3. ASSUME NEW t \in Streams, DescribeOrSetup(c, t) \/ Play(c, t) \/ PauseOrTeardown(c, t)
      PROVE  Exact(s)'
  <2>1. pc = "idle" /\ pc' \in {"configure", "prepare", "start", "stop"}
        /\ UNCHANGED <<active, viewers, flag, mpc>>
    BY <1>3 DEF DescribeOrSetup, Play, PauseOrTeardown, Serve, countVars
  <2>2. Counted(s)' = Counted(s)
    BY <2>1 DEF Counted, At
  <2> QED BY <1>0, <2>1, <2>2 DEF One, At
<1> QED BY <1>1, <1>2, <1>3 DEF TeardownAll, Closed

\* The client thread: a client is counted, or taken away, in two steps.
LEMMA ThreadCount ==
  ASSUME CountInv, ClientThread
  PROVE  CountIsExact'
<1> SUFFICES ASSUME NEW s \in Streams PROVE Exact(s)'
  BY DEF CountIsExact, Exact
<1>0. IsFiniteSet(Counted(s)) /\ Cardinality(Counted(s)) \in Nat /\ Exact(s)
  BY CountedFinite DEF CountInv, CountIsExact, Exact
<1>t. Control
  BY DEF CountInv
<1> USE DEF Exact, One, At, ThenTo, Finish, Control, CountType, Serving, OneBootstrap, ClientLabels
<1>1. ASSUME UNCHANGED <<active, viewers, flag, mpc>>, (what' = what /\ drop' = drop) \/ pc' = "idle",
             pc \notin {"boot", "count", "undo", "uncount", "release"},
             pc' \notin {"boot", "count", "undo", "uncount", "release"}
      PROVE  Exact(s)'
  <2>1. Counted(s)' = Counted(s)
    BY <1>1 DEF Counted
  <2> QED BY <1>0, <1>1, <2>1
<1>2. CASE MarkBootstrap
  <2>1. Counted(s)' = Counted(s)
    BY <1>2 DEF MarkBootstrap, Counted
  <2> QED BY <1>0, <1>t, <1>2, <2>1 DEF MarkBootstrap
<1>3. CASE CountBootstrap
  <2>1. Counted(s)' = Counted(s)
    BY <1>3 DEF CountBootstrap, Counted
  <2> QED BY <1>0, <1>t, <1>3, <2>1 DEF CountBootstrap, Inc
<1>4. CASE PrepareMedia
  BY <1>1, <1>4 DEF PrepareMedia, countVars
<1>5. CASE StartClientStream
  <2>1. Counted(s)' = Counted(s)
    BY <1>t, <1>5 DEF StartClientStream, Counted
  <2> QED BY <1>0, <1>5, <2>1 DEF StartClientStream, countVars
<1>6. CASE CountClient
  <2>1. Counted(s)' = IF s = what THEN Counted(s) \cup {who} ELSE Counted(s)
    BY <1>t, <1>6 DEF CountClient, Counted
  <2>2. s = what => who \notin Counted(s)
    BY <1>6 DEF CountClient, Counted
  <2>3. Cardinality(Counted(s))' = Cardinality(Counted(s)) + (IF s = what THEN 1 ELSE 0)
    <3>1. CASE s = what
      BY <1>0, <2>1, <2>2, <3>1, FS_AddElement
    <3>2. CASE s # what
      BY <1>0, <2>1, <3>2
    <3> QED BY <3>1, <3>2
  <2> QED BY <1>0, <1>t, <1>6, <2>3 DEF CountClient, Inc
<1>7. CASE ConsumeBootstrap
  <2>1. Counted(s)' = Counted(s)
    BY <1>7 DEF ConsumeBootstrap, Counted
  <2> QED BY <1>0, <1>t, <1>7, <2>1 DEF ConsumeBootstrap
<1>8. CASE UncountBootstrap
  <2>1. Counted(s)' = Counted(s)
    BY <1>8 DEF UncountBootstrap, Counted
  <2> QED BY <1>0, <1>t, <1>8, <2>1 DEF UncountBootstrap, Dec
<1>9. CASE StopClientStream
  <2>1. who \in Counted(s) <=> s \in active[who]
    BY <1>t, <1>9 DEF StopClientStream, Counted
  <2>2. Counted(s)' = IF s = what THEN Counted(s) \ {who} ELSE Counted(s)
    BY <1>t, <1>9 DEF StopClientStream, Counted
  <2>3. Cardinality(Counted(s))' =
          Cardinality(Counted(s)) - (IF s = what /\ who \in Counted(s) THEN 1 ELSE 0)
    <3>1. CASE s = what
      <4>1. Cardinality(Counted(s) \ {who}) =
              IF who \in Counted(s) THEN Cardinality(Counted(s)) - 1 ELSE Cardinality(Counted(s))
        BY <1>0, FS_RemoveElement
      <4>2. Counted(s)' = Counted(s) \ {who}
        BY <2>2, <3>1
      <4> QED BY <1>0, <3>1, <4>1, <4>2
    <3>2. CASE s # what
      BY <1>0, <2>2, <3>2
    <3> QED BY <3>1, <3>2
  <2> QED BY <1>0, <1>t, <1>9, <2>1, <2>3 DEF StopClientStream, countVars
<1>10. CASE UncountClient
  <2>1. Counted(s)' = Counted(s)
    BY <1>10 DEF UncountClient, Counted
  <2> QED BY <1>0, <1>t, <1>10, <2>1 DEF UncountClient, Dec
<1>11. CASE ReleaseStream
  <2>1. Counted(s)' = Counted(s)
    BY <1>11 DEF ReleaseStream, Counted
  <2> QED BY <1>0, <1>t, <1>11, <2>1 DEF ReleaseStream, Dec
<1>12. CASE ClearActive
  <2>1. Counted(s)' = Counted(s)
    BY <1>t, <1>12 DEF ClearActive, Counted
  <2> QED BY <1>0, <1>12, <2>1 DEF ClearActive, countVars
<1> QED BY <1>2, <1>3, <1>4, <1>5, <1>6, <1>7, <1>8, <1>9, <1>10, <1>11, <1>12 DEF ClientThread

\* The media threads take away bootstrap viewers only.
LEMMA MediaCount ==
  ASSUME CountInv, NEW t \in Streams,
         Unprepared(t) \/ MediaUncount(t) \/ MediaForgotten(t) \/ DestroyFactory(t)
  PROVE  CountIsExact'
<1> SUFFICES ASSUME NEW s \in Streams PROVE Exact(s)'
  BY DEF CountIsExact, Exact
<1>0. IsFiniteSet(Counted(s)) /\ Cardinality(Counted(s)) \in Nat /\ Exact(s)
  BY CountedFinite DEF CountInv, CountIsExact, Exact
<1>t. Control
  BY DEF CountInv
<1>1. Counted(s)' = Counted(s)
  BY DEF Unprepared, MediaUncount, MediaForgotten, DestroyFactory, Counted, At, threadVars
<1> USE DEF Exact, One, At, Control, CountType, OneBootstrap, threadVars
<1>2. CASE Unprepared(t)
  BY <1>0, <1>t, <1>1, <1>2 DEF Unprepared
<1>3. CASE MediaUncount(t)
  BY <1>0, <1>t, <1>1, <1>3 DEF MediaUncount, Dec
<1>4. CASE MediaForgotten(t)
  BY <1>0, <1>t, <1>1, <1>4 DEF MediaForgotten, countVars
<1>5. CASE DestroyFactory(t)
  BY <1>0, <1>t, <1>1, <1>5 DEF DestroyFactory
<1> QED BY <1>2, <1>3, <1>4, <1>5

LEMMA CountStep == CountInv /\ [Next]_vars => CountInv'
<1> SUFFICES ASSUME CountInv, [Next]_vars PROVE CountInv'
  OBVIOUS
<1>1. Control'
  BY ControlStep DEF CountInv
<1>2. CountIsExact'
  <2>1. CASE UNCHANGED vars
    BY <2>1 DEF CountInv, CountIsExact, Counted, One, At, vars, countVars, threadVars
  <2> QED BY <2>1, RequestCount, ThreadCount, MediaCount DEF Next
<1> QED BY <1>1, <1>2 DEF CountInv

\* For any number of clients and streams and every interleaving of the client
\* thread with the media threads: a hub's count is exactly its clients and the
\* media being started, so no decrement is swallowed and none forgotten.
THEOREM ViewersAreCounted == Spec => []ViewersInv
<1>1. Init => CountInv
  BY ControlInit, CountInit DEF CountInv
<1>2. CountInv => ViewersInv
  BY TypeFollows DEF CountInv, ViewersInv
<1> QED BY <1>1, <1>2, CountStep, PTL DEF Spec
----------------------------------------------------------------------------
(* The counters implement the demand, up to liveness *)

Watchers == [s \in Streams |-> Counted(s)]
Starting == [s \in Streams |-> flag[s] /\ ~At("boot", s)]
Wanted   == [s \in Streams |-> viewers[s] > 0]

LEMMA DemandTypes ==
  /\ Starting \in [Streams -> BOOLEAN] /\ Wanted \in [Streams -> BOOLEAN]
  /\ Starting' \in [Streams -> BOOLEAN] /\ Wanted' \in [Streams -> BOOLEAN]
  BY DEF Starting, Wanted

LEMMA TruthExcept ==
  ASSUME NEW S, NEW f \in [S -> BOOLEAN], NEW g \in [S -> BOOLEAN], NEW x \in S, NEW b \in BOOLEAN,
         g[x] <=> b, \A t \in S : t # x => (g[t] <=> f[t])
  PROVE  g = [f EXCEPT ![x] = b]
  OBVIOUS

\* A step that Demand does not see.
Unseen == UNCHANGED <<Watchers, Starting, Wanted>>

LEMMA UnseenStep == Unseen => UNCHANGED Demand!vars
  BY DEF Unseen, Watchers, Starting, Wanted, Demand!vars

\* A count that goes down to zero has no reason left: the stream is let go.
LEMMA CountDown ==
  ASSUME CountInv, CountInv', NEW s \in Streams, Dec(s),
         UNCHANGED <<Watchers, Starting>>
  PROVE  Unseen \/ Demand!Unwant(s)
<1>1. CASE viewers'[s] > 0
  <2>1. \A t \in Streams : (viewers'[t] > 0) = (viewers[t] > 0)
    BY <1>1 DEF Dec, CountInv, Control, CountType
  <2> QED BY <2>1 DEF Unseen, Wanted
<1>2. CASE viewers'[s] = 0
  <2>0. Counted(s)' = Counted(s)
    BY DEF Watchers
  <2>1. Cardinality(Counted(s)) = 0 /\ ~(flag[s] /\ ~At("boot", s))'
    BY <1>2, <2>0, CountedFinite DEF CountInv, CountIsExact, One
  <2>2. Counted(s) = {}
    BY <2>1, FS_EmptySet, CountedFinite
  <2>3. Watchers[s] = {} /\ ~Starting[s]
    BY <2>1, <2>2 DEF Watchers, Starting
  <2>4. Wanted' = [Wanted EXCEPT ![s] = FALSE]
    <3>1. ASSUME NEW t \in Streams, t # s PROVE viewers'[t] = viewers[t]
      BY <3>1 DEF Dec, CountInv, Control, CountType
    <3>2. ~Wanted'[s] /\ \A t \in Streams : t # s => (Wanted'[t] <=> Wanted[t])
      <4>1. ~Wanted'[s]
        <5>1. ~(viewers'[s] > 0)
          BY <1>2
        <5> QED BY <5>1 DEF Wanted
      <4>2. ASSUME NEW t \in Streams, t # s PROVE Wanted'[t] <=> Wanted[t]
        BY <3>1, <4>2 DEF Wanted
      <4> QED BY <4>1, <4>2
    <3> QED BY <3>2, TruthExcept, DemandTypes
  <2> QED BY <2>3, <2>4 DEF Demand!Unwant, Demand!Idle, Watchers, Starting, Wanted
<1> QED BY <1>1, <1>2 DEF CountInv, Control, CountType

\* A client that comes, goes or is served.
LEMMA RequestDemand ==
  ASSUME CountInv, NEW c \in Clients,
         \/ Connect(c) \/ TeardownAll(c) \/ Closed(c)
         \/ \E s \in Streams : DescribeOrSetup(c, s) \/ Play(c, s) \/ PauseOrTeardown(c, s)
  PROVE  Unseen \/ Demand!Next
<1> USE DEF Unseen, Watchers, Starting, Wanted, Counted, At
<1>1. CASE Connect(c)
  BY <1>1 DEF Connect, countVars, threadVars
<1>2. CASE ReleaseAll(c)
  <2>1. pc = "idle" /\ pc' = "release" /\ who' = c /\ UNCHANGED <<active, flag, viewers>>
    BY <1>2 DEF ReleaseAll, Serve, countVars
  <2>2. Watchers' = [s \in Streams |-> IF s \in Streams THEN Watchers[s] \ {c} ELSE Watchers[s]]
    <3>1. \A s \in Streams : Counted(s)' = Watchers[s] \ {c}
      BY <2>1
    <3> QED BY <3>1
  <2>3. UNCHANGED <<Starting, Wanted>>
    BY <2>1
  <2>4. Demand!Leave(c, Streams)
    BY <2>2, <2>3 DEF Demand!Leave
  <2> QED BY <2>4 DEF Demand!Next
<1>3. ASSUME NEW t \in Streams, DescribeOrSetup(c, t) \/ Play(c, t) \/ PauseOrTeardown(c, t)
      PROVE  Unseen
  <2>1. pc = "idle" /\ pc' \in {"configure", "prepare", "start", "stop"}
        /\ UNCHANGED <<active, viewers, flag>>
    BY <1>3 DEF DescribeOrSetup, Play, PauseOrTeardown, Serve, countVars
  <2> QED BY <2>1
<1> QED BY <1>1, <1>2, <1>3 DEF TeardownAll, Closed

\* A count that goes up is of a stream that is wanted from now on.
LEMMA CountUp ==
  ASSUME Control, NEW s \in Streams, Inc(s)
  PROVE  Wanted' = [Wanted EXCEPT ![s] = TRUE]
<1>1. ASSUME NEW t \in Streams, t # s PROVE Wanted'[t] <=> Wanted[t]
  <2>1. viewers'[t] = viewers[t]
    BY <1>1 DEF Inc, Control, CountType
  <2> QED BY <2>1 DEF Wanted
<1>2. Wanted'[s]
  <2>1. viewers'[s] > 0
    BY DEF Inc, Control, CountType
  <2> QED BY <2>1 DEF Wanted
<1> QED BY <1>1, <1>2, TruthExcept, DemandTypes

\* A flag that is cleared is a media that has started, or was given up.
LEMMA FlagCleared ==
  ASSUME Control, NEW s \in Streams, flag' = [flag EXCEPT ![s] = FALSE],
         pc # "boot" \/ what # s, UNCHANGED <<Watchers, Wanted>>,
         \A t \in Streams : At("boot", t)' <=> At("boot", t)
  PROVE  Unseen \/ Demand!MediaStarted(s)
<1>1. ASSUME NEW t \in Streams, t # s PROVE Starting'[t] <=> Starting[t]
  <2>1. flag'[t] = flag[t]
    BY <1>1 DEF Control, CountType
  <2> QED BY <2>1 DEF Starting
<1>2. ~Starting'[s]
  BY DEF Starting, Control, CountType
<1>3. Starting' = [Starting EXCEPT ![s] = FALSE]
  BY <1>1, <1>2, TruthExcept, DemandTypes
<1>4. CASE Starting[s]
  BY <1>3, <1>4 DEF Demand!MediaStarted, Starting, Watchers, Wanted
<1>5. CASE ~Starting[s]
  <2>1. [Starting EXCEPT ![s] = FALSE] = Starting
    BY <1>5, TruthExcept, DemandTypes
  <2> QED BY <1>3, <2>1 DEF Unseen
<1> QED BY <1>4, <1>5

LEMMA ThreadDemand ==
  ASSUME CountInv, CountInv', ClientThread
  PROVE  Unseen \/ Demand!Next
<1>t. Control
  BY DEF CountInv
<1> USE DEF ThenTo, Finish
<1>1. CASE MarkBootstrap
  <2>1. UNCHANGED <<Watchers, Wanted>>
    BY <1>1 DEF MarkBootstrap, Watchers, Wanted, Counted, At
  <2>2. ASSUME NEW s \in Streams PROVE Starting'[s] <=> Starting[s]
    BY <1>t, <1>1 DEF MarkBootstrap, Starting, At, Control, CountType
  <2>3. UNCHANGED Starting
    BY <2>2, DemandTypes
  <2> QED BY <2>1, <2>3 DEF Unseen
<1>2. CASE CountBootstrap
  <2>1. what \in Streams /\ flag[what] /\ Wanted' = [Wanted EXCEPT ![what] = TRUE]
    BY <1>t, <1>2, CountUp DEF CountBootstrap, Control, Serving, OneBootstrap, ClientLabels
  <2>2. ~Starting[what] /\ Starting'[what]
    BY <1>2, <2>1 DEF CountBootstrap, Starting, At
  <2>3. \A t \in Streams : t # what => (Starting'[t] <=> Starting[t])
    BY <1>2 DEF CountBootstrap, Starting, At
  <2>4. Starting' = [Starting EXCEPT ![what] = TRUE]
    BY <2>1, <2>2, <2>3, TruthExcept, DemandTypes
  <2>5. UNCHANGED Watchers
    BY <1>2 DEF CountBootstrap, Watchers, Counted, At
  <2>6. PICK s \in Streams : s = what
    BY <2>1
  <2>7. Demand!StartMedia(s)
    BY <2>1, <2>2, <2>4, <2>5, <2>6 DEF Demand!StartMedia, Starting, Wanted, Watchers
  <2> QED BY <2>7 DEF Demand!Next
<1>3. CASE PrepareMedia
  BY <1>3 DEF PrepareMedia, Unseen, Watchers, Starting, Wanted, Counted, At, countVars
<1>4. CASE StartClientStream
  <2>1. \A s \in Streams : Counted(s)' = Counted(s)
    BY <1>t, <1>4 DEF StartClientStream, Counted, At, Control, CountType, Serving, ClientLabels
  <2> QED BY <1>4, <2>1 DEF StartClientStream, Unseen, Watchers, Starting, Wanted, At, countVars
<1>5. CASE CountClient
  <2>1. what \in Streams /\ who \in Clients /\ Wanted' = [Wanted EXCEPT ![what] = TRUE]
    BY <1>t, <1>5, CountUp DEF CountClient, Control, Serving, ClientLabels
  <2>2. who \notin Watchers[what]
    BY <1>5, <2>1 DEF CountClient, Watchers, Counted, At
  <2>3. \A s \in Streams : Counted(s)' = IF s = what THEN Counted(s) \cup {who} ELSE Counted(s)
    BY <1>t, <1>5 DEF CountClient, Counted, At, Control, CountType, Serving, ClientLabels
  <2>4. Watchers' = [Watchers EXCEPT ![what] = @ \cup {who}]
    BY <2>1, <2>3 DEF Watchers
  <2>5. UNCHANGED Starting
    BY <1>5 DEF CountClient, Starting, At
  <2>6. PICK s \in Streams, c \in Clients : s = what /\ c = who
    BY <2>1
  <2>7. Demand!Join(c, s)
    BY <2>1, <2>2, <2>4, <2>5, <2>6 DEF Demand!Join, Starting, Wanted, Watchers
  <2> QED BY <2>7 DEF Demand!Next
<1>6. CASE ConsumeBootstrap
  <2>1. CASE registered[what] /\ flag[what]
    <3>1. what \in Streams /\ UNCHANGED <<Watchers, Wanted>>
      BY <1>t, <1>6 DEF ConsumeBootstrap, Watchers, Wanted, Counted, At, Control, Serving, ClientLabels
    <3>2. \A t \in Streams : At("boot", t)' <=> At("boot", t)
      BY <1>6 DEF ConsumeBootstrap, At
    <3>3. PICK s \in Streams : s = what
      BY <3>1
    <3>4. flag' = [flag EXCEPT ![s] = FALSE] /\ pc # "boot"
      BY <1>6, <2>1, <3>3 DEF ConsumeBootstrap
    <3>5. Unseen \/ Demand!MediaStarted(s)
      BY <1>t, <3>1, <3>2, <3>4, FlagCleared
    <3> QED BY <3>5 DEF Demand!Next
  <2>2. CASE ~(registered[what] /\ flag[what])
    BY <1>6, <2>2 DEF ConsumeBootstrap, Unseen, Watchers, Starting, Wanted, Counted, At
  <2> QED BY <2>1, <2>2
<1>7. CASE UncountBootstrap \/ UncountClient
  <2>1. UNCHANGED <<Watchers, Starting>>
    BY <1>7 DEF UncountBootstrap, UncountClient, Watchers, Starting, Counted, At
  <2>2. what \in Streams /\ Dec(what)
    BY <1>t, <1>7 DEF UncountBootstrap, UncountClient, Control, Serving, ClientLabels
  <2> QED BY <2>1, <2>2, CountDown DEF Demand!Next
<1>8. CASE StopClientStream
  <2>1. what \in Streams /\ who \in Clients
    BY <1>t, <1>8 DEF StopClientStream, Control, Serving, ClientLabels
  <2>2. \A s \in Streams : Counted(s)' = IF s \in {what} THEN Counted(s) \ {who} ELSE Counted(s)
    BY <1>t, <1>8 DEF StopClientStream, Counted, At, Control, CountType
  <2>3. Watchers' = [s \in Streams |-> IF s \in {what} THEN Watchers[s] \ {who} ELSE Watchers[s]]
    BY <2>2 DEF Watchers
  <2>4. UNCHANGED <<Starting, Wanted>>
    BY <1>8 DEF StopClientStream, Starting, Wanted, At, countVars
  <2>5. PICK c \in Clients, S \in SUBSET Streams : c = who /\ S = {what}
    BY <2>1
  <2>6. Demand!Leave(c, S)
    BY <2>3, <2>4, <2>5 DEF Demand!Leave, Watchers, Starting, Wanted
  <2> QED BY <2>6 DEF Demand!Next
<1>9. CASE ReleaseStream
  <2>1. PICK s \in drop : Dec(s)
    BY <1>9 DEF ReleaseStream
  <2>2. UNCHANGED <<Watchers, Starting>>
    BY <1>9 DEF ReleaseStream, Watchers, Starting, Counted, At
  <2>3. s \in Streams
    BY <1>t DEF Control, CountType
  <2> QED BY <2>1, <2>2, <2>3, CountDown DEF Demand!Next
<1>10. CASE ClearActive
  <2>1. \A s \in Streams : Counted(s)' = Counted(s)
    BY <1>t, <1>10 DEF ClearActive, Counted, At, Control, CountType, Serving
  <2> QED BY <1>10, <2>1 DEF ClearActive, Unseen, Watchers, Starting, Wanted, At, countVars
<1> QED BY <1>1, <1>2, <1>3, <1>4, <1>5, <1>6, <1>7, <1>8, <1>9, <1>10 DEF ClientThread

LEMMA MediaDemand ==
  ASSUME CountInv, CountInv', NEW s \in Streams,
         Unprepared(s) \/ MediaUncount(s) \/ MediaForgotten(s) \/ DestroyFactory(s)
  PROVE  Unseen \/ Demand!Next
<1>1. CASE Unprepared(s) \/ DestroyFactory(s)
  <2>1. UNCHANGED <<Watchers, Wanted>> /\ \A t \in Streams : At("boot", t)' <=> At("boot", t)
    BY <1>1 DEF Unprepared, DestroyFactory, Watchers, Wanted, Counted, At, threadVars
  <2>2. flag' = [flag EXCEPT ![s] = FALSE] /\ (pc # "boot" \/ what # s)
    BY <1>1 DEF Unprepared, DestroyFactory
  <2> QED BY <2>1, <2>2, FlagCleared DEF CountInv, Demand!Next
<1>2. CASE MediaUncount(s)
  <2>1. UNCHANGED <<Watchers, Starting>> /\ Dec(s)
    BY <1>2 DEF MediaUncount, Watchers, Starting, Counted, At, threadVars
  <2> QED BY <2>1, CountDown DEF Demand!Next
<1>3. CASE MediaForgotten(s)
  BY <1>3 DEF MediaForgotten, Unseen, Watchers, Starting, Wanted, Counted, At, countVars, threadVars
<1> QED BY <1>1, <1>2, <1>3

LEMMA DemandInit == Init => Demand!Init
<1> SUFFICES ASSUME Init PROVE Demand!Init
  OBVIOUS
<1>1. \A s \in Streams : Counted(s) = {} /\ ~flag[s] /\ viewers[s] = 0
  BY DEF Init, Counted
<1>2. \A s \in Streams : ~(viewers[s] > 0)
  BY <1>1
<1>3. Watchers = [s \in Streams |-> {}]
  BY <1>1 DEF Watchers
<1>4. Starting = [s \in Streams |-> FALSE]
  BY <1>1 DEF Starting
<1>5. Wanted = [s \in Streams |-> FALSE]
  <2>1. ASSUME NEW s \in Streams PROVE ~Wanted[s]
    BY <1>2 DEF Wanted
  <2> QED BY <2>1, DemandTypes
<1> QED BY <1>3, <1>4, <1>5 DEF Demand!Init, Watchers, Starting, Wanted

LEMMA DemandStep == CountInv /\ CountInv' /\ [Next]_vars => [Demand!Next]_(Demand!vars)
<1> SUFFICES ASSUME CountInv, CountInv', [Next]_vars PROVE Unseen \/ Demand!Next
  BY UnseenStep
<1>1. CASE UNCHANGED vars
  BY <1>1 DEF vars, countVars, threadVars, Unseen, Watchers, Starting, Wanted, Counted, At
<1> QED BY <1>1, RequestDemand, ThreadDemand, MediaDemand DEF Next

\* The counters implement the abstract demand, for any number of clients and
\* streams: a watched stream stays wanted, and nothing else starts one. (That
\* an unwatched stream is let go in the end, ViewerDemand's fairness, is
\* checked by the run.)
THEOREM CountersImplementDemand == Spec => Demand!Init /\ [][Demand!Next]_(Demand!vars)
<1>1. Init => CountInv
  BY ControlInit, CountInit DEF CountInv
<1> QED BY <1>1, CountStep, DemandInit, DemandStep, PTL DEF Spec

\* Of the library's well-foundedness of the naturals: each set has a least one.
Less == {ss \in Nat \X Nat : ss[1] < ss[2]}

LEMMA LessIsWellFounded == IsWellFoundedOn(Less, Nat)
BY NatLessThanWellFounded, Zenon DEF Less, OpToRel

LEMMA LeastNat ==
  ASSUME NEW T, T \subseteq Nat, T # {}
  PROVE  \E x \in T : \A y \in T : x <= y
<1>1. PICK x \in T : \A y \in T : ~ (<<y, x>> \in Less)
  BY LessIsWellFounded, WFMin
<1>2. \A y \in T : ~(y < x)
  BY <1>1 DEF Less
<1>3. \A y \in T : x <= y
  BY <1>2
<1> QED BY <1>3

----------------------------------------------------------------------------
(* BrightTuner *)

\* What the cameras were asked for is the exposure, or the middle near it.
TunerInv == TunerTypeOK /\ requested = SnapToMid(exposure_tun_val)

LEMMA MaxOfTwo ==
  ASSUME NEW a \in Int, NEW b \in Int
  PROVE  Max({a, b}) = IF a <= b THEN b ELSE a
<1>1. \E x \in {a, b} : \A y \in {a, b} : x >= y
  OBVIOUS
<1>2. Max({a, b}) \in {a, b} /\ Max({a, b}) >= a /\ Max({a, b}) >= b
  BY <1>1 DEF Max
<1> QED BY <1>2

LEMMA MinOfTwo ==
  ASSUME NEW a \in Int, NEW b \in Int
  PROVE  Min({a, b}) = IF a <= b THEN a ELSE b
<1>1. \E x \in {a, b} : \A y \in {a, b} : x <= y
  OBVIOUS
<1>2. Min({a, b}) \in {a, b} /\ Min({a, b}) <= a /\ Min({a, b}) <= b
  BY <1>1 DEF Min
<1> QED BY <1>2

LEMMA ClampBounds ==
  ASSUME NEW v \in Int, NEW lo \in Int, NEW hi \in Int, lo <= hi
  PROVE  Clamp(v, lo, hi) \in lo .. hi
<1> DEFINE m == Min({v, hi})
<1>1. m \in Int /\ m <= hi
  BY MinOfTwo
<1>2. Clamp(v, lo, hi) = Max({lo, m})
  BY DEF Clamp
<1> HIDE DEF m
<1>3. Max({lo, m}) = IF lo <= m THEN m ELSE lo
  BY <1>1, MaxOfTwo
<1> QED BY <1>1, <1>2, <1>3

\* The tables have an entry for every gain.
LEMMA BaseLevelBounds == BaseLevel \in 0 .. 9
<1> DEFINE S == {0} \cup {n \in 1 .. 9 : CAM_GAIN_MIN * 2 ^ n <= gain_tun_val}
           T == {g \in 0 .. 9 : 9 - g \in S}
<1>1. S \subseteq 0 .. 9 /\ 0 \in S
  OBVIOUS
<1>2. BaseLevel = Max(S)
  BY DEF BaseLevel
<1> HIDE DEF S
<1>3. T \subseteq 0 .. 9 /\ 9 \in T /\ \A y \in 0 .. 9 : y \in S <=> 9 - y \in T
  <2>1. \A y \in 0 .. 9 : 9 - y \in 0 .. 9 /\ 9 - (9 - y) = y
    OBVIOUS
  <2> QED BY <1>1, <2>1
<1> HIDE DEF T
<1>4. PICK g \in T : \A y \in T : g <= y
  BY <1>3, LeastNat
<1>5. 9 - g \in S /\ \A y \in S : 9 - g >= y
  <2>1. ASSUME NEW y \in S PROVE 9 - g >= y
    <3>1. y \in 0 .. 9 /\ 9 - y \in 0 .. 9 /\ 9 - (9 - y) = y
      BY <1>1
    <3>2. 9 - y \in T
      BY <1>3, <2>1, <3>1
    <3>3. g \in 0 .. 9 /\ g <= 9 - y
      BY <1>3, <1>4, <3>2
    <3> QED BY <3>1, <3>3
  <2>2. 9 - g \in S
    <3>1. g \in 0 .. 9 /\ g \in T
      BY <1>3, <1>4
    <3>2. 9 - g \in 0 .. 9 /\ 9 - (9 - g) = g
      BY <3>1
    <3> QED BY <1>3, <3>1, <3>2
  <2> QED BY <2>1, <2>2
<1>6. Max(S) \in S
  BY <1>5 DEF Max
<1> QED BY <1>1, <1>2, <1>6

LEMMA StepBounds ==
  ASSUME NEW base \in Nat, NEW factor \in Nat, NEW level \in Int,
         NEW max \in Int, MIN_STEP <= max
  PROVE  StepFromBase(base, factor, level, max) \in 0 .. max
<1> DEFINE p == base * factor
           step == p \div 10
           v == IF level < 3 THEN step \div 2 ELSE step
<1>1. p \in Nat
  OBVIOUS
<1> HIDE DEF p
<1>2. step \in Int
  BY <1>1
<1> HIDE DEF step
<1>3. v \in Int
  BY <1>2
<1> HIDE DEF v
<1>4. MIN_STEP \in Int /\ MIN_STEP > 0
  BY TunerAssumption
<1>5. Clamp(v, MIN_STEP, max) \in MIN_STEP .. max
  BY <1>3, <1>4, ClampBounds
<1>6. StepFromBase(base, factor, level, max) = IF level = 0 THEN 0 ELSE Clamp(v, MIN_STEP, max)
  BY DEF StepFromBase, v, step, p
<1> QED BY <1>4, <1>5, <1>6

\* No step is negative.
LEMMA StepsAreSteps ==
  ASSUME NEW level \in Int
  PROVE  GainStep(level) \in Nat /\ ExpoStep(level) \in Nat
<1>1. CAM_GAIN_TUNE_STEP[BaseLevel + 1] \in Nat /\ CAM_EXPO_TUNE_STEP[BaseLevel + 1] \in Nat
  <2>1. BaseLevel + 1 \in 1 .. 10
    BY BaseLevelBounds
  <2> QED BY <2>1, TunerAssumption
<1>2. GainFactor(level) \in Nat
  BY DEF GainFactor
<1>3. ExpoFactor(level) \in Nat
  BY DEF ExpoFactor
<1>4. MaxGainStep \in Int /\ MIN_STEP <= MaxGainStep /\ MaxExpoStep \in Int /\ MIN_STEP <= MaxExpoStep
  BY TunerAssumption
<1>5. GainStep(level) \in 0 .. MaxGainStep
  BY <1>1, <1>2, <1>4, StepBounds DEF GainStep
<1>6. ExpoStep(level) \in 0 .. MaxExpoStep
  BY <1>1, <1>3, <1>4, StepBounds DEF ExpoStep
<1> QED BY <1>4, <1>5, <1>6

LEMMA EdgeSteps ==
  ASSUME NEW step \in Nat
  PROVE  AtEdge(step) \in Nat
<1>1. EdgeStep \in Nat
  BY TunerAssumption
<1> QED BY <1>1, MinOfTwo DEF AtEdge

\* A step goes the way it should and not past the limit.
LEMMA MovedBounds ==
  ASSUME NEW v \in Int, NEW step \in Nat, NEW lo \in Int, NEW hi \in Int, NEW probe
  PROVE  /\ probe = "TOO_B" /\ lo <= v => Moved(v, probe, step, lo, hi) \in lo .. v
         /\ probe # "TOO_B" /\ v <= hi => Moved(v, probe, step, lo, hi) \in v .. hi
<1>1. v - step \in Int /\ v + step \in Int /\ v - step <= v /\ v <= v + step
  OBVIOUS
<1>2. Max({v - step, lo}) = IF v - step <= lo THEN lo ELSE v - step
  BY <1>1, MaxOfTwo
<1>3. Min({v + step, hi}) = IF v + step <= hi THEN v + step ELSE hi
  BY <1>1, MinOfTwo
<1> QED BY <1>1, <1>2, <1>3 DEF Moved

\* The snap to the middle keeps the order and the limits.
LEMMA SnapKeepsOrder ==
  /\ \A v, w \in Int : v <= w => SnapToMid(v) <= SnapToMid(w)
  /\ \A v \in CAM_EXPO_MIN .. CAM_EXPO_MAX : SnapToMid(v) \in CAM_EXPO_MIN .. CAM_EXPO_MAX
  /\ SnapToMid(CAM_EXPO_MID) = CAM_EXPO_MID
BY TunerAssumption DEF SnapToMid

----------------------------------------------------------------------------
\* What a step of the tuner does to exposure and gain, for a picture probe.
RightWay(probe) ==
  /\ probe = "TOO_B" => requested' <= requested /\ gain_tun_val' <= gain_tun_val
  /\ probe = "TOO_D" => requested' >= requested /\ gain_tun_val' >= gain_tun_val

Levels ==
  /\ exposure_tun_val \in CAM_EXPO_MIN .. CAM_EXPO_MAX /\ gain_tun_val \in CAM_GAIN_MIN .. CAM_GAIN_MAX
  /\ ts_state \in {"ST_INIT", "ST_1", "ST_2"} /\ adjust_cooldown_frames \in 0 .. Cooldown
  /\ requested = SnapToMid(exposure_tun_val)

LEMMA RestIsRight ==
  ASSUME Levels, Rest, NEW probe
  PROVE  /\ exposure_tun_val' \in CAM_EXPO_MIN .. CAM_EXPO_MAX /\ gain_tun_val' \in CAM_GAIN_MIN .. CAM_GAIN_MAX
         /\ requested' = SnapToMid(exposure_tun_val') /\ RightWay(probe)
<1>1. exposure_tun_val \in Int /\ gain_tun_val \in Int /\ requested \in Int
  BY TunerAssumption, SnapKeepsOrder DEF Levels
<1> QED BY <1>1 DEF Levels, Rest, RightWay

LEMMA GotoIsRight ==
  ASSUME Levels, NEW st \in {"ST_INIT", "ST_1", "ST_2"}, Goto(st), NEW probe
  PROVE  Levels' /\ RightWay(probe)
<1>1. Rest /\ ts_state' = st /\ adjust_cooldown_frames' = 0
  BY DEF Goto
<1> QED BY <1>1, RestIsRight, TunerAssumption DEF Levels

LEMMA SetExposureIsRight ==
  ASSUME Levels, NEW v \in CAM_EXPO_MIN .. CAM_EXPO_MAX, SetExposure(v), NEW probe,
         probe = "TOO_B" => v <= exposure_tun_val,
         probe = "TOO_D" => v >= exposure_tun_val
  PROVE  Levels' /\ RightWay(probe)
<1>1. /\ exposure_tun_val' = v /\ requested' = SnapToMid(v) /\ adjust_cooldown_frames' = Cooldown
      /\ UNCHANGED <<gain_tun_val, ts_state>>
  BY DEF SetExposure
<1>2. v \in Int /\ exposure_tun_val \in Int /\ gain_tun_val \in Int
  BY TunerAssumption DEF Levels
<1>3. Levels'
  BY <1>1, TunerAssumption DEF Levels
<1>4. RightWay(probe)
  BY <1>1, <1>2, SnapKeepsOrder DEF Levels, RightWay
<1> QED BY <1>3, <1>4

LEMMA SetGainIsRight ==
  ASSUME Levels, NEW v \in CAM_GAIN_MIN .. CAM_GAIN_MAX, SetGain(v), NEW probe,
         probe = "TOO_B" => v <= gain_tun_val,
         probe = "TOO_D" => v >= gain_tun_val
  PROVE  Levels' /\ RightWay(probe)
<1>1. /\ gain_tun_val' = v /\ adjust_cooldown_frames' = Cooldown
      /\ UNCHANGED <<exposure_tun_val, ts_state, requested>>
  BY DEF SetGain
<1>2. requested \in Int
  BY TunerAssumption, SnapKeepsOrder DEF Levels
<1>3. Levels'
  BY <1>1, TunerAssumption DEF Levels
<1>4. RightWay(probe)
  BY <1>1, <1>2 DEF RightWay
<1> QED BY <1>3, <1>4

Limits ==
  /\ CAM_EXPO_MIN \in Int /\ CAM_EXPO_MID \in Int /\ CAM_EXPO_MAX \in Int
  /\ CAM_GAIN_MIN \in Int /\ CAM_GAIN_MAX \in Int
  /\ CAM_EXPO_MIN < CAM_EXPO_MID /\ CAM_EXPO_MID < CAM_EXPO_MAX /\ CAM_GAIN_MIN < CAM_GAIN_MAX

LEMMA TheLimits == Limits
BY TunerAssumption DEF Limits

LEMMA TuneInitIsRight ==
  ASSUME Levels, NEW probe \in {"TOO_B", "TOO_D"}, NEW level \in Int, TuneInit(probe, level)
  PROVE  Levels' /\ RightWay(probe)
<1> DEFINE v == exposure_tun_val
           reached == (probe = "TOO_B" /\ v <= CAM_EXPO_MID) \/ (probe = "TOO_D" /\ v >= CAM_EXPO_MID)
           step == AtEdge(ExpoStep(level))
           w == Moved(v, probe, step, CAM_EXPO_MID, CAM_EXPO_MID)
<1>1. CASE reached
  <2>1. Goto("ST_1")
    BY <1>1 DEF TuneInit
  <2> QED BY <2>1, GotoIsRight
<1>2. CASE ~reached
  <2>1. SetExposure(w)
    BY <1>2 DEF TuneInit
  <2>2. v \in Int /\ step \in Nat /\ v \in CAM_EXPO_MIN .. CAM_EXPO_MAX
    BY StepsAreSteps, EdgeSteps, TheLimits DEF Levels, Limits
  <2>3. /\ probe = "TOO_B" /\ CAM_EXPO_MID <= v => w \in CAM_EXPO_MID .. v
        /\ probe # "TOO_B" /\ v <= CAM_EXPO_MID => w \in v .. CAM_EXPO_MID
    BY <2>2, MovedBounds, TheLimits DEF Limits
  <2> HIDE DEF w, step
  <2>4. /\ w \in CAM_EXPO_MIN .. CAM_EXPO_MAX
        /\ probe = "TOO_B" => w <= v
        /\ probe = "TOO_D" => w >= v
    BY <1>2, <2>2, <2>3, TheLimits DEF Limits
  <2> QED BY <2>1, <2>4, SetExposureIsRight
<1> QED BY <1>1, <1>2

LEMMA TuneGainIsRight ==
  ASSUME Levels, NEW probe \in {"TOO_B", "TOO_D"}, NEW level \in Int, TuneGain(probe, level)
  PROVE  Levels' /\ RightWay(probe)
<1> DEFINE v == gain_tun_val
           reached == (probe = "TOO_B" /\ v <= CAM_GAIN_MIN) \/ (probe = "TOO_D" /\ v >= CAM_GAIN_MAX)
           step == GainStep(level)
           w == Moved(v, probe, step, CAM_GAIN_MIN, CAM_GAIN_MAX)
<1>1. CASE reached
  <2>1. Goto("ST_2")
    BY <1>1 DEF TuneGain
  <2> QED BY <2>1, GotoIsRight
<1>2. CASE ~reached
  <2>1. SetGain(w)
    BY <1>2 DEF TuneGain
  <2>2. v \in Int /\ step \in Nat /\ v \in CAM_GAIN_MIN .. CAM_GAIN_MAX
    BY StepsAreSteps, TheLimits DEF Levels, Limits
  <2>3. /\ probe = "TOO_B" /\ CAM_GAIN_MIN <= v => w \in CAM_GAIN_MIN .. v
        /\ probe # "TOO_B" /\ v <= CAM_GAIN_MAX => w \in v .. CAM_GAIN_MAX
    BY <2>2, MovedBounds, TheLimits DEF Limits
  <2> HIDE DEF w, step
  <2>4. /\ w \in CAM_GAIN_MIN .. CAM_GAIN_MAX
        /\ probe = "TOO_B" => w <= v
        /\ probe = "TOO_D" => w >= v
    BY <2>2, <2>3, TheLimits DEF Limits
  <2> QED BY <2>1, <2>4, SetGainIsRight
<1> QED BY <1>1, <1>2

LEMMA TuneLimitIsRight ==
  ASSUME Levels, NEW probe \in {"TOO_B", "TOO_D"}, NEW level \in Int, TuneLimit(probe, level)
  PROVE  Levels' /\ RightWay(probe)
<1> DEFINE v == exposure_tun_val
           step == AtEdge(Clamp(ExpoStep(level), MIN_STEP, MaxExpoStep))
           w == Moved(v, probe, step, CAM_EXPO_MIN, CAM_EXPO_MAX)
<1>1. Goto("ST_1") \/ Goto("ST_INIT") \/ SetExposure(w)
  BY DEF TuneLimit
<1>2. CASE Goto("ST_1") \/ Goto("ST_INIT")
  BY <1>2, GotoIsRight
<1>3. CASE SetExposure(w)
  <2>1. Clamp(ExpoStep(level), MIN_STEP, MaxExpoStep) \in Nat
    <3>1. MIN_STEP \in Int /\ MaxExpoStep \in Int /\ MIN_STEP > 0 /\ MIN_STEP <= MaxExpoStep
      BY TunerAssumption
    <3>2. ExpoStep(level) \in Int
      BY StepsAreSteps
    <3>3. Clamp(ExpoStep(level), MIN_STEP, MaxExpoStep) \in MIN_STEP .. MaxExpoStep
      BY <3>1, <3>2, ClampBounds
    <3> QED BY <3>1, <3>3
  <2>2. v \in Int /\ step \in Nat /\ v \in CAM_EXPO_MIN .. CAM_EXPO_MAX
    BY <2>1, EdgeSteps, TheLimits DEF Levels, Limits
  <2>3. /\ probe = "TOO_B" /\ CAM_EXPO_MIN <= v => w \in CAM_EXPO_MIN .. v
        /\ probe # "TOO_B" /\ v <= CAM_EXPO_MAX => w \in v .. CAM_EXPO_MAX
    BY <2>2, MovedBounds, TheLimits DEF Limits
  <2> HIDE DEF w, step
  <2>4. /\ w \in CAM_EXPO_MIN .. CAM_EXPO_MAX
        /\ probe = "TOO_B" => w <= v
        /\ probe = "TOO_D" => w >= v
    BY <2>2, <2>3, TheLimits DEF Limits
  <2> QED BY <1>3, <2>4, SetExposureIsRight
<1> QED BY <1>1, <1>2, <1>3

LEMMA TuneIsRight ==
  ASSUME TunerInv, NEW probe \in {"OK", "TOO_B", "TOO_D"}, NEW level \in Int, Tune(probe, level)
  PROVE  Levels' /\ RightWay(probe) /\ ok_streak' \in 0 .. StableOkRequired - 1
<1> DEFINE cooled == Max({0, adjust_cooldown_frames - 1})
<1>0. Levels /\ ok_streak \in 0 .. StableOkRequired - 1
  BY DEF TunerInv, TunerTypeOK, Levels
<1>1. cooled \in 0 .. Cooldown
  <2>1. adjust_cooldown_frames \in 0 .. Cooldown /\ Cooldown \in Nat
    BY <1>0, TunerAssumption DEF Levels
  <2> QED BY <2>1, MaxOfTwo
<1> HIDE DEF cooled
<1>2. CASE Ok /\ adjust_cooldown_frames' = cooled
  <2>1. Rest /\ ts_state' \in {"ST_INIT", "ST_1", "ST_2"}
    BY <1>0, <1>2 DEF Ok, Levels
  <2>2. ok_streak' \in 0 .. StableOkRequired - 1
    BY <1>0, <1>2, TunerAssumption DEF Ok
  <2>3. Levels' /\ RightWay(probe)
    BY <1>0, <1>1, <1>2, <2>1, RestIsRight DEF Levels
  <2> QED BY <2>2, <2>3
<1>3. CASE /\ ok_streak' = 0 /\ adjust_cooldown_frames' = cooled /\ Rest /\ UNCHANGED ts_state
  <2>1. Levels' /\ RightWay(probe)
    BY <1>0, <1>1, <1>3, RestIsRight DEF Levels
  <2> QED BY <1>3, <2>1, TunerAssumption
<1>4. CASE /\ probe # "OK" /\ ok_streak' = 0
           /\ TuneInit(probe, level) \/ TuneGain(probe, level) \/ TuneLimit(probe, level)
  <2>1. Levels' /\ RightWay(probe)
    BY <1>0, <1>4, TuneInitIsRight, TuneGainIsRight, TuneLimitIsRight
  <2> QED BY <1>4, <2>1, TunerAssumption
<1> QED BY <1>2, <1>3, <1>4 DEF Tune, cooled

LEMMA TunerInitInv == TunerInit => TunerInv
<1> SUFFICES ASSUME TunerInit PROVE TunerInv
  OBVIOUS
<1>1. requested = SnapToMid(exposure_tun_val)
  BY SnapKeepsOrder DEF TunerInit
<1>2. exposure_tun_val \in CAM_EXPO_MIN .. CAM_EXPO_MAX /\ requested \in CAM_EXPO_MIN .. CAM_EXPO_MAX
      /\ gain_tun_val \in CAM_GAIN_MIN .. CAM_GAIN_MAX
  BY TunerAssumption DEF TunerInit
<1>3. ok_streak \in 0 .. StableOkRequired - 1 /\ adjust_cooldown_frames \in 0 .. Cooldown
  BY TunerAssumption DEF TunerInit
<1>4. ts_state \in {"ST_INIT", "ST_1", "ST_2"} /\ seen \in [probe : {"OK", "TOO_B", "TOO_D"}, level : 0 .. 9]
  BY DEF TunerInit
<1>5. k_active \in BOOLEAN
  <2>1. k_active = FALSE
    BY DEF TunerInit
  <2> QED BY <2>1, Zenon
<1> QED BY <1>1, <1>2, <1>3, <1>4, <1>5 DEF TunerInv, TunerTypeOK

LEMMA TunerStep ==
  ASSUME TunerInv, [TunerNext]_tunerVars
  PROVE  TunerInv' /\ (tunerVars' # tunerVars => RightWay(seen'.probe))
<1>1. CASE UNCHANGED tunerVars
  <2>1. TunerInv'
    BY <1>1 DEF tunerVars, TunerInv, TunerTypeOK, SnapToMid
  <2> QED BY <1>1, <2>1
<1>2. ASSUME NEW probe \in {"OK", "TOO_B", "TOO_D"}, NEW level \in 0 .. 9,
             Picture(probe, level), Tune(probe, level), k_active' \in BOOLEAN
      PROVE  TunerInv' /\ RightWay(seen'.probe)
  <2>1. Levels' /\ RightWay(probe) /\ ok_streak' \in 0 .. StableOkRequired - 1
    BY <1>2, TuneIsRight
  <2>2. seen' \in [probe : {"OK", "TOO_B", "TOO_D"}, level : 0 .. 9] /\ seen'.probe = probe
    BY <1>2 DEF Picture
  <2>3. requested' \in CAM_EXPO_MIN .. CAM_EXPO_MAX
    BY <2>1, SnapKeepsOrder DEF Levels
  <2>4. TunerTypeOK'
    BY <1>2, <2>1, <2>2, <2>3 DEF TunerTypeOK, Levels
  <2>5. TunerInv'
    BY <2>1, <2>4 DEF TunerInv, Levels
  <2> QED BY <2>1, <2>2, <2>5
<1>3. CASE Near
  <2>1. Picture("OK", 0) /\ Tune("OK", 0) /\ k_active' = FALSE
    BY <1>3 DEF Near
  <2>2. k_active' \in BOOLEAN
    BY <2>1, Zenon
  <2>3. 0 \in 0 .. 9
    OBVIOUS
  <2> QED BY <1>2, <2>1, <2>2, <2>3
<1>4. ASSUME NEW side \in {"TOO_B", "TOO_D"}, NEW level \in ErrorLevels, Saturated(side, level)
      PROVE  TunerInv' /\ RightWay(seen'.probe)
  <2>1. level \in 0 .. 9 /\ k_active' \in BOOLEAN
    BY <1>4, TunerAssumption DEF Saturated, TunerInv, TunerTypeOK
  <2> QED BY <1>2, <1>4, <2>1 DEF Saturated
<1>5. ASSUME NEW side \in {"TOO_B", "TOO_D"}, NEW level \in ErrorLevels,
             NEW K \in {"low", "between", "high"}, Far(side, level, K)
      PROVE  TunerInv' /\ RightWay(seen'.probe)
  <2> DEFINE act == IF k_active THEN K # "low" ELSE K = "high"
             probe == IF act THEN side ELSE "OK"
  <2>1. level \in 0 .. 9 /\ act \in BOOLEAN /\ probe \in {"OK", "TOO_B", "TOO_D"}
    BY TunerAssumption
  <2>2. Picture(probe, level) /\ Tune(probe, level) /\ k_active' = act
    BY <1>5 DEF Far
  <2> QED BY <1>2, <2>1, <2>2
<1> QED BY <1>1, <1>3, <1>4, <1>5 DEF TunerNext

\* For any limits, tables, steps and pictures: exposure and gain stay within
\* their limits, and a picture too bright never makes the cameras brighter, nor
\* one too dark darker.
THEOREM TunerNeverErrs == TunerSpec => TunerIsSafe
<1> DEFINE Right == RightWay(seen'.probe)
<1>1. TunerInv /\ [TunerNext]_tunerVars => TunerInv' /\ [Right]_tunerVars /\ [TunerTypeOK']_tunerVars
  <2> SUFFICES ASSUME TunerInv, [TunerNext]_tunerVars
               PROVE  TunerInv' /\ [Right]_tunerVars /\ [TunerTypeOK']_tunerVars
    OBVIOUS
  <2>1. TunerInv' /\ (tunerVars' # tunerVars => Right)
    BY TunerStep
  <2> HIDE DEF Right
  <2> QED BY <2>1 DEF TunerInv
<1>2. TunerSpec => [][Right]_tunerVars /\ [][TunerTypeOK']_tunerVars
  BY <1>1, TunerInitInv, PTL DEF TunerSpec
<1> QED BY <1>2 DEF TunerIsSafe, NeverTheWrongWay, RightWay

----------------------------------------------------------------------------
(* CtrlMailbox *)

Busy(c)     == tpc \in {"load", "apply"} /\ tcam = c
UnderWay(c) == rpc = "dirty" /\ rcam = c

MailTyped ==
  /\ val \in [Cams -> Exposures \cup {0}] /\ dirty \in [Cams -> BOOLEAN]
  /\ rpc \in {"idle", "value", "dirty"} /\ rval \in Exposures /\ rcam \in Cams
  /\ lastVal \in [Cams -> Exposures] /\ applied \in [Cams -> Exposures] /\ lost \in [Cams -> BOOLEAN]
  /\ used \in [Cams -> Exposures]
  /\ tpc \in {"sleep", "trigger", "consume", "load", "apply", "pace"} /\ tcam \in Cams
  /\ tval \in Exposures
  /\ longest \in Nat \ {0} /\ now \in 0 .. MaxTime /\ due \in Nat

\* A value that will be loaded is one requested: the last, or its successor is
\* under way.
ValueIsLast ==
  /\ rpc = "dirty" => val[rcam] = rval
  /\ \A c \in Cams : dirty[c] \/ (tpc = "load" /\ tcam = c) =>
       val[c] \in Exposures /\ (UnderWay(c) \/ val[c] = lastVal[c])
  /\ tpc = "apply" => dirty[tcam] \/ UnderWay(tcam) \/ tval = lastVal[tcam]

\* The interval measured so far covers the cameras triggered in this round.
Covered(c) ==
  \/ tpc = "pace"
  \/ tpc \in {"consume", "load", "apply"} /\ c <= tcam
  \/ tpc = "trigger" /\ c < tcam
LongestCovers == \A c \in Cams : Covered(c) => used[c] <= longest

MailIInv == MailTyped /\ ValueIsLast /\ LastRequestWins /\ LongestCovers

LEMMA FirstIsRequested == First \in Exposures /\ 1 \in Cams
<1>1. \E x \in Exposures : \A y \in Exposures : x <= y
  BY LeastNat, MailboxAssumption
<1>2. 1 \in Cams
  BY MailboxAssumption DEF Cams
<1> QED BY <1>1, <1>2 DEF First, Min

LEMMA MailInitInv == MailboxInit => MailIInv
<1> SUFFICES ASSUME MailboxInit PROVE MailIInv
  OBVIOUS
<1>1. MailTyped
  BY FirstIsRequested, MailboxAssumption DEF MailboxInit, MailTyped
<1>2. ValueIsLast
  BY DEF MailboxInit, ValueIsLast
<1>3. LastRequestWins
  BY DEF MailboxInit, LastRequestWins
<1>4. LongestCovers
  BY DEF MailboxInit, LongestCovers, Covered
<1> QED BY <1>1, <1>2, <1>3, <1>4 DEF MailIInv

\* What a step of the tuner leaves alone.
LEMMA TunerKeeps ==
  ASSUME MailIInv, UNCHANGED <<triggerSide, now>>
  PROVE  LongestCovers'
BY DEF MailIInv, LongestCovers, Covered, triggerSide

LEMMA RequestInv ==
  ASSUME MailIInv, NEW v \in Exposures, Request(v)
  PROVE  MailIInv'
<1>1. MailTyped'
  BY FirstIsRequested DEF MailIInv, MailTyped, Request, triggerSide
<1>2. ValueIsLast' /\ LastRequestWins'
  BY DEF MailIInv, ValueIsLast, LastRequestWins, Request, triggerSide, UnderWay
<1> QED BY <1>1, <1>2, TunerKeeps DEF MailIInv, Request

LEMMA StoreValueInv ==
  ASSUME MailIInv, StoreValue
  PROVE  MailIInv'
<1>0. /\ rpc = "value" /\ rpc' = "dirty" /\ rcam' = rcam /\ rval' = rval /\ rcam \in Cams /\ rval \in Exposures
      /\ val' = [val EXCEPT ![rcam] = rval] /\ val \in [Cams -> Exposures \cup {0}]
      /\ UNCHANGED <<dirty, lastVal, tpc, tcam, tval, applied, used, longest, due, lost, now>>
  BY DEF StoreValue, MailIInv, MailTyped, triggerSide
<1>1. MailTyped'
  BY <1>0 DEF MailIInv, MailTyped
<1>2. ValueIsLast'
  BY <1>0 DEF MailIInv, ValueIsLast, UnderWay
<1>3. LastRequestWins'
  BY <1>0 DEF MailIInv, LastRequestWins
<1> QED BY <1>1, <1>2, <1>3, TunerKeeps DEF MailIInv, StoreValue

LEMMA StoreDirtyInv ==
  ASSUME MailIInv, StoreDirty
  PROVE  MailIInv'
<1>0. /\ rpc = "dirty" /\ rpc' \in {"idle", "value"} /\ rcam \in Cams /\ rval' = rval
      /\ dirty' = [dirty EXCEPT ![rcam] = TRUE] /\ lastVal' = [lastVal EXCEPT ![rcam] = rval]
      /\ lost' = [lost EXCEPT ![rcam] = FALSE]
      /\ UNCHANGED <<val, tpc, tcam, tval, applied, used, longest, due, now>>
  BY DEF StoreDirty, MailIInv, MailTyped, triggerSide
<1>1. rcam' \in Cams
  BY MailboxAssumption DEF StoreDirty, MailIInv, MailTyped, Cams
<1>2. val[rcam] = rval /\ rval \in Exposures /\ dirty \in [Cams -> BOOLEAN] /\ lastVal \in [Cams -> Exposures]
      /\ lost \in [Cams -> BOOLEAN]
  BY <1>0 DEF MailIInv, MailTyped, ValueIsLast
<1>3. MailTyped'
  BY <1>0, <1>1, <1>2 DEF MailIInv, MailTyped
<1>4. ValueIsLast'
  BY <1>0, <1>2 DEF MailIInv, ValueIsLast, UnderWay
<1>5. LastRequestWins'
  BY <1>0, <1>2 DEF MailIInv, LastRequestWins
<1> QED BY <1>3, <1>4, <1>5, TunerKeeps DEF MailIInv, StoreDirty

\* The thread goes on with the next camera, or has done all.
LEMMA NextCamGoesOn ==
  ASSUME MailTyped, NextCam
  PROVE  /\ tpc' \in {"trigger", "pace"} /\ tcam' \in Cams
         /\ \A c \in Cams : Covered(c)' => c <= tcam
BY MailboxAssumption DEF MailTyped, NextCam, Cams, Covered

LEMMA AwakeInv ==
  ASSUME MailIInv, Awake
  PROVE  MailIInv'
<1>0. /\ tpc = "sleep" /\ tpc' = "trigger" /\ tcam' = 1 /\ longest' = Interval
      /\ UNCHANGED <<val, dirty, rpc, rval, rcam, lastVal, tval, applied, lost, used, now, due>>
  BY DEF Awake, tunerSide
<1>1. MailTyped'
  BY <1>0, FirstIsRequested, MailboxAssumption DEF MailIInv, MailTyped
<1>2. ValueIsLast' /\ LastRequestWins'
  BY <1>0 DEF MailIInv, ValueIsLast, UnderWay, LastRequestWins
<1>3. LongestCovers'
  BY <1>0, MailboxAssumption DEF LongestCovers, Covered, Cams
<1> QED BY <1>1, <1>2, <1>3 DEF MailIInv

LEMMA TriggerInv ==
  ASSUME MailIInv, Trigger
  PROVE  MailIInv'
<1>0. /\ tpc = "trigger" /\ tpc' = "consume" /\ used' = [used EXCEPT ![tcam] = applied[tcam]]
      /\ UNCHANGED <<val, dirty, rpc, rval, rcam, lastVal, tcam, tval, applied, lost, now, due>>
      /\ tcam \in Cams /\ used \in [Cams -> Exposures] /\ applied[tcam] \in Exposures
      /\ applied[tcam] \in Nat /\ longest \in Nat \ {0}
  BY MailboxAssumption DEF Trigger, tunerSide, MailIInv, MailTyped
<1>1. longest' \in Nat \ {0} /\ longest <= longest' /\ applied[tcam] <= longest'
  <2> DEFINE e == IF applied[tcam] > 0 THEN applied[tcam] ELSE Interval
             m == IF longest >= e THEN longest ELSE e
  <2>1. e \in Nat \ {0} /\ applied[tcam] <= e
    BY <1>0, MailboxAssumption
  <2> HIDE DEF e
  <2>2. m \in {longest, e} /\ \A x \in {longest, e} : m >= x
    BY <1>0, <2>1
  <2>3. \A z \in {longest, e} : (\A x \in {longest, e} : z >= x) => z = m
    BY <1>0, <2>1
  <2> HIDE DEF m
  <2>4. Max({longest, e}) = m
    BY <2>2, <2>3 DEF Max
  <2>5. longest' = m
    BY <2>4 DEF Trigger, e
  <2> QED BY <1>0, <2>1, <2>2, <2>5
<1>2. MailTyped'
  BY <1>0, <1>1 DEF MailIInv, MailTyped
<1>3. ValueIsLast' /\ LastRequestWins'
  BY <1>0 DEF MailIInv, ValueIsLast, UnderWay, LastRequestWins
<1>4. LongestCovers'
  <2> SUFFICES ASSUME NEW c \in Cams, Covered(c)' PROVE used'[c] <= longest'
    BY DEF LongestCovers
  <2>1. CASE c = tcam
    BY <1>0, <1>1, <2>1
  <2>2. CASE c # tcam
    <3>1. Covered(c)
      BY <1>0, <2>2 DEF Covered, Cams
    <3>2. used'[c] = used[c] /\ used[c] \in Nat /\ used[c] <= longest
      BY <1>0, <2>2, <3>1, MailboxAssumption DEF MailIInv, LongestCovers
    <3> QED BY <1>0, <1>1, <3>2
  <2> QED BY <2>1, <2>2
<1> QED BY <1>2, <1>3, <1>4 DEF MailIInv

LEMMA ConsumeInv ==
  ASSUME MailIInv, Consume
  PROVE  MailIInv'
<1>0. /\ tpc = "consume" /\ dirty' = [dirty EXCEPT ![tcam] = FALSE]
      /\ UNCHANGED <<val, rpc, rval, rcam, lastVal, tval, applied, lost, used, longest, now, due>>
      /\ tcam \in Cams /\ dirty \in [Cams -> BOOLEAN] /\ MailTyped
  BY DEF Consume, tunerSide, MailIInv, MailTyped
<1>1. CASE dirty[tcam]
  <2>1. tpc' = "load" /\ tcam' = tcam
    BY <1>1 DEF Consume
  <2>2. MailTyped'
    BY <1>0, <2>1 DEF MailTyped
  <2>3. ValueIsLast'
    BY <1>0, <1>1, <2>1 DEF MailIInv, ValueIsLast, UnderWay
  <2>4. LastRequestWins'
    BY <1>0, <2>1 DEF MailIInv, LastRequestWins
  <2>5. LongestCovers'
    BY <1>0, <2>1 DEF MailIInv, LongestCovers, Covered
  <2> QED BY <2>2, <2>3, <2>4, <2>5 DEF MailIInv
<1>2. CASE ~dirty[tcam]
  <2>1. /\ tpc' \in {"trigger", "pace"} /\ tcam' \in Cams /\ \A c \in Cams : Covered(c)' => c <= tcam
    BY <1>0, <1>2, NextCamGoesOn DEF Consume
  <2>2. dirty' = dirty
    BY <1>0, <1>2
  <2>3. MailTyped'
    BY <1>0, <2>1, <2>2 DEF MailTyped
  <2>4. ValueIsLast'
    BY <1>0, <2>1, <2>2 DEF MailIInv, ValueIsLast, UnderWay
  <2>5. LastRequestWins'
    BY <1>0, <2>1, <2>2 DEF MailIInv, LastRequestWins
  <2>6. LongestCovers'
    BY <1>0, <2>1 DEF MailIInv, LongestCovers, Covered
  <2> QED BY <2>3, <2>4, <2>5, <2>6 DEF MailIInv
<1> QED BY <1>1, <1>2

LEMMA LoadInv ==
  ASSUME MailIInv, Load
  PROVE  MailIInv'
<1>0. /\ tpc = "load" /\ tpc' = "apply" /\ tval' = val[tcam] /\ tcam \in Cams
      /\ UNCHANGED <<val, dirty, rpc, rval, rcam, lastVal, tcam, applied, lost, used, longest, now, due>>
  BY DEF Load, tunerSide, MailIInv, MailTyped
<1>1. val[tcam] \in Exposures /\ (UnderWay(tcam) \/ val[tcam] = lastVal[tcam])
  BY <1>0 DEF MailIInv, ValueIsLast
<1>2. MailTyped'
  BY <1>0, <1>1 DEF MailIInv, MailTyped
<1>3. ValueIsLast'
  BY <1>0, <1>1 DEF MailIInv, ValueIsLast, UnderWay
<1>4. LastRequestWins'
  BY <1>0 DEF MailIInv, LastRequestWins
<1>5. LongestCovers'
  BY <1>0 DEF MailIInv, LongestCovers, Covered
<1> QED BY <1>2, <1>3, <1>4, <1>5 DEF MailIInv

LEMMA ApplyInv ==
  ASSUME MailIInv, Apply
  PROVE  MailIInv'
<1>0. /\ tpc = "apply" /\ UNCHANGED <<val, dirty, rpc, rval, rcam, lastVal, tval, used, longest, now, due>>
      /\ tcam \in Cams /\ MailTyped
      /\ applied \in [Cams -> Exposures] /\ tval \in Exposures /\ lost \in [Cams -> BOOLEAN]
  BY DEF Apply, tunerSide, MailIInv, MailTyped
<1>1. /\ tpc' \in {"trigger", "pace"} /\ tcam' \in Cams /\ \A c \in Cams : Covered(c)' => c <= tcam
  BY <1>0, NextCamGoesOn DEF Apply
<1>2. dirty[tcam] \/ UnderWay(tcam) \/ tval = lastVal[tcam]
  BY <1>0 DEF MailIInv, ValueIsLast
<1>3. /\ applied' \in [Cams -> Exposures] /\ lost' \in [Cams -> BOOLEAN]
      /\ \A c \in Cams : c # tcam => applied'[c] = applied[c] /\ lost'[c] = lost[c]
      /\ tval = lastVal[tcam] => lost'[tcam] \/ applied'[tcam] = tval
  <2>1. CASE applied' = [applied EXCEPT ![tcam] = tval] /\ UNCHANGED lost
    BY <1>0, <2>1
  <2>2. CASE UNCHANGED applied /\ lost' = [lost EXCEPT ![tcam] = tval = lastVal[tcam]]
    BY <1>0, <2>2
  <2> QED BY <2>1, <2>2 DEF Apply
<1>4. MailTyped'
  BY <1>0, <1>1, <1>3 DEF MailTyped
<1>5. ValueIsLast'
  BY <1>0, <1>1 DEF MailIInv, ValueIsLast, UnderWay
<1>6. LastRequestWins'
  <2> SUFFICES ASSUME NEW c \in Cams
               PROVE  \/ dirty'[c] \/ lost'[c] \/ applied'[c] = lastVal'[c]
                      \/ rpc' = "dirty" /\ rcam' = c
    BY DEF LastRequestWins
  <2>1. CASE c = tcam
    BY <1>0, <1>2, <1>3, <2>1 DEF UnderWay
  <2>2. CASE c # tcam
    BY <1>0, <1>3, <2>2 DEF MailIInv, LastRequestWins
  <2> QED BY <2>1, <2>2
<1>7. LongestCovers'
  BY <1>0, <1>1 DEF MailIInv, LongestCovers, Covered
<1> QED BY <1>4, <1>5, <1>6, <1>7 DEF MailIInv

\* Skipping the deadlines gone by ends not before now.
LEMMA NextDueFits ==
  ASSUME now \in Nat, NEW d \in Nat, NEW interval \in Nat \ {0}
  PROVE  NextDue(d, interval) \in Nat /\ NextDue(d, interval) >= now /\ NextDue(d, interval) - d >= interval
<1> DEFINE next == d + interval
           late == now - next
           n == late \div interval
<1>1. CASE now > next
  <2>1. late \in Nat
    BY <1>1
  <2> HIDE DEF late
  <2>2. n \in Nat /\ (n + 1) * interval >= late /\ (n + 1) * interval \in Nat
    BY <2>1
  <2>3. NextDue(d, interval) = next + (n + 1) * interval
    BY <1>1 DEF NextDue, late
  <2> DEFINE skipped == (n + 1) * interval
  <2> HIDE DEF skipped
  <2>4. skipped \in Nat /\ skipped >= late /\ NextDue(d, interval) = next + skipped
    BY <2>2, <2>3 DEF skipped
  <2> QED BY <1>1, <2>4 DEF late
<1>2. CASE ~(now > next)
  BY <1>2 DEF NextDue
<1> QED BY <1>1, <1>2

LEMMA PaceInv ==
  ASSUME MailIInv, Pace
  PROVE  /\ MailIInv'
         /\ due' >= now /\ \A c \in Cams : due' - due >= used[c]
<1>0. /\ tpc = "pace" /\ tpc' = "sleep" /\ due' = NextDue(due, longest)
      /\ UNCHANGED <<val, dirty, rpc, rval, rcam, lastVal, tcam, tval, applied, lost, used, longest, now>>
      /\ due \in Nat /\ longest \in Nat \ {0} /\ now \in 0 .. MaxTime /\ used \in [Cams -> Exposures]
  BY DEF Pace, tunerSide, MailIInv, MailTyped
<1>1. due' \in Nat /\ due' >= now /\ due' - due >= longest
  <2>1. now \in Nat
    BY <1>0, MailboxAssumption
  <2> QED BY <1>0, <2>1, NextDueFits
<1>2. \A c \in Cams : used[c] <= longest
  BY <1>0 DEF MailIInv, LongestCovers, Covered
<1>3. MailTyped'
  BY <1>0, <1>1 DEF MailIInv, MailTyped
<1>4. ValueIsLast' /\ LastRequestWins' /\ LongestCovers'
  BY <1>0 DEF MailIInv, ValueIsLast, UnderWay, LastRequestWins, LongestCovers, Covered
<1>5. \A c \in Cams : due' - due >= used[c]
  <2>1. \A c \in Cams : used[c] \in Nat
    BY <1>0, MailboxAssumption
  <2> QED BY <1>0, <1>1, <1>2, <2>1
<1> QED BY <1>1, <1>3, <1>4, <1>5 DEF MailIInv

LEMMA TickInv ==
  ASSUME MailIInv, Tick
  PROVE  MailIInv'
<1>1. /\ UNCHANGED <<val, dirty, rpc, rval, rcam, lastVal, tpc, tcam, tval, applied, used, longest, due, lost>>
  BY DEF Tick, tunerSide, triggerSide
<1>2. now' \in 0 .. MaxTime
  BY MailboxAssumption DEF Tick, MailIInv, MailTyped
<1>3. MailTyped'
  BY <1>1, <1>2 DEF MailIInv, MailTyped
<1> QED BY <1>1, <1>3 DEF MailIInv, ValueIsLast, UnderWay, LastRequestWins, LongestCovers, Covered

MailStep == due' # due => due' >= now /\ \A c \in Cams : due' - due >= used[c]

LEMMA MailStepInv == MailIInv /\ [MailboxNext]_mailVars => MailIInv' /\ [MailStep]_mailVars
<1> SUFFICES ASSUME MailIInv, [MailboxNext]_mailVars PROVE MailIInv' /\ [MailStep]_mailVars
  OBVIOUS
<1>1. CASE UNCHANGED mailVars
  <2>1. MailIInv'
    BY <1>1 DEF mailVars, MailIInv, MailTyped, ValueIsLast, UnderWay, LastRequestWins, LongestCovers, Covered
  <2> QED BY <1>1, <2>1
<1>2. CASE Pace
  BY <1>2, PaceInv DEF MailStep
<1>3. CASE Tick \/ StoreValue \/ StoreDirty \/ Awake \/ Trigger \/ Consume \/ Load \/ Apply \/ \E v \in Exposures : Request(v)
  <2>1. due' = due
    BY <1>3 DEF Tick, StoreValue, StoreDirty, Awake, Trigger, Consume, Load, Apply, Request, triggerSide
  <2>2. MailIInv'
    BY <1>3, TickInv, StoreValueInv, StoreDirtyInv, AwakeInv, TriggerInv, ConsumeInv, LoadInv, ApplyInv, RequestInv
  <2> QED BY <2>1, <2>2 DEF MailStep
<1> QED BY <1>1, <1>2, <1>3 DEF MailboxNext, TriggerThread

\* For any number of cameras and any exposures, however the tuner's steps fall
\* between those of trigger_thread: a request that is on its way nowhere has
\* been applied or was refused, and every deadline leaves each camera the
\* whole exposure it was triggered with.
THEOREM MailboxIsSound == MailboxSpec => MailboxWorks
<1>1. MailIInv => MailboxInv
  BY DEF MailIInv, MailTyped, MailboxInv, MailboxTypeOK
<1>2. MailIInv /\ [MailboxNext]_mailVars => [due' # due => due' >= now /\ \A c \in Cams : due' - due >= used[c]]_mailVars
  BY MailStepInv DEF MailStep
<1> QED BY <1>1, <1>2, MailInitInv, MailStepInv, PTL DEF MailboxSpec, MailboxWorks, ExposuresFit

----------------------------------------------------------------------------
(* StreamPorts *)

PortsSpec == PortsInit /\ [][PortsNext]_portVars

\* The ports a search may try.
Window(s) == StartPort(s) .. StartPort(s) + UDP_MAX_TRIES - 1

PortsTyped ==
  /\ taken \subseteq UdpPorts
  /\ turn \in [loop : {"pick", "build", "done"}, path : AllPaths]
  /\ k \in 0 .. UDP_MAX_TRIES - 1
  /\ udp_ports \in [AllPaths -> UdpPorts \cup {0}]
  /\ started \subseteq AllPaths /\ ok_all \in BOOLEAN
  /\ passed \in [AllPaths -> SUBSET UdpPorts]

\* A search has found in use all ports before the one it is at or took.
Searched ==
  /\ \A s \in AllPaths :
       /\ passed[s] \subseteq Window(s)
       /\ udp_ports[s] # 0 =>
            udp_ports[s] \in Window(s) /\ StartPort(s) .. udp_ports[s] - 1 \subseteq passed[s]
  /\ turn.loop = "pick" => StartPort(turn.path) .. StartPort(turn.path) + k - 1 \subseteq passed[turn.path]

\* The hubs of the streams whose turn it was are started, or it is known that
\* one is not.
BuiltSoFar ==
  /\ turn.loop = "build" => ~ok_all \/ \A s \in AllPaths : Before(s, turn.path) => s \in started
  /\ turn.loop = "done"  => ~ok_all \/ started = AllPaths
  /\ \A s \in started : udp_ports[s] # 0

PortsIInv == PortsTyped /\ Searched /\ BuiltSoFar

LEMMA PathsTyped ==
  /\ AllPaths # {} /\ Len(Bases) \in Nat \ {0} /\ DOMAIN Bases = 1 .. Len(Bases)
  /\ \A f \in 1 .. Len(Bases) : Bases[f] \in Nat \ {0} /\ Sizes[f] \in Nat \ {0}
  /\ \A s \in AllPaths :
       /\ s = <<s[1], s[2]>> /\ s[1] \in 1 .. Len(Bases) /\ s[1] \in Nat
       /\ s[2] \in 0 .. Sizes[s[1]] - 1 /\ s[2] \in Nat
<1>1. /\ Len(Bases) \in Nat \ {0} /\ DOMAIN Bases = 1 .. Len(Bases)
      /\ \A f \in 1 .. Len(Bases) : Bases[f] \in Nat \ {0} /\ Sizes[f] \in Nat \ {0}
  BY PortsAssumption
<1>2. <<1, 0>> \in AllPaths
  <2>1. 1 \in DOMAIN Bases /\ 0 \in 0 .. Sizes[1] - 1
    BY <1>1
  <2> QED BY <2>1 DEF AllPaths
<1>3. ASSUME NEW s \in AllPaths
      PROVE  /\ s = <<s[1], s[2]>> /\ s[1] \in 1 .. Len(Bases) /\ s[1] \in Nat
             /\ s[2] \in 0 .. Sizes[s[1]] - 1 /\ s[2] \in Nat
  <2>1. PICK f \in 1 .. Len(Bases) : \E sid \in 0 .. Sizes[f] - 1 : s = <<f, sid>>
    BY <1>1 DEF AllPaths
  <2> QED BY <1>1, <2>1
<1> QED BY <1>1, <1>2, <1>3

\* The order of the streams is total, and each set of them has a first.
LEMMA BeforeIsTotal ==
  ASSUME NEW s \in AllPaths, NEW t \in AllPaths
  PROVE  s = t \/ Before(s, t) \/ Before(t, s)
BY PathsTyped DEF Before

LEMMA BeforeIsStrict ==
  ASSUME NEW s \in AllPaths, NEW t \in AllPaths, Before(s, t)
  PROVE  s # t /\ ~Before(t, s)
BY PathsTyped DEF Before

LEMMA FirstIsFirst ==
  ASSUME NEW S, S \subseteq AllPaths, S # {}
  PROVE  FirstOf(S) \in S /\ \A t \in S \ {FirstOf(S)} : Before(FirstOf(S), t)
<1> DEFINE Families == {s[1] : s \in S}
<1>0. \A s \in S : s \in AllPaths /\ s = <<s[1], s[2]>> /\ s[1] \in Nat /\ s[2] \in Nat
  BY PathsTyped
<1>1. PICK f \in Families : \A g \in Families : f <= g
  <2>1. Families \subseteq Nat /\ Families # {}
    BY <1>0
  <2> HIDE DEF Families
  <2> QED BY <2>1, LeastNat
<1> DEFINE Sids == {s[2] : s \in {t \in S : t[1] = f}}
<1>2. PICK sid \in Sids : \A n \in Sids : sid <= n
  <2>1. Sids \subseteq Nat /\ Sids # {}
    BY <1>0, <1>1
  <2> HIDE DEF Sids
  <2> QED BY <2>1, LeastNat
<1>3. PICK s \in S : s[1] = f /\ s[2] = sid
  BY <1>2
<1>4. ASSUME NEW t \in S \ {s} PROVE Before(s, t)
  <2>1. f <= t[1] /\ (t[1] = f => sid <= t[2])
    BY <1>1, <1>2
  <2>2. t[1] = f => t[2] # sid
    BY <1>0, <1>3
  <2> QED BY <1>0, <1>3, <2>1, <2>2 DEF Before
<1>5. \E u \in S : \A t \in S \ {u} : Before(u, t)
  BY <1>4
<1> QED BY <1>5 DEF FirstOf

LEMMA WindowsTyped ==
  ASSUME NEW s \in AllPaths
  PROVE  StartPort(s) \in Nat \ {0} /\ Window(s) \subseteq UdpPorts /\ UDP_MAX_TRIES \in Nat \ {0}
<1>1. s[2] \in Nat /\ Bases[s[1]] \in Nat \ {0} /\ UDP_STEP \in Nat /\ UDP_MAX_TRIES \in Nat \ {0}
  BY PathsTyped, PortsAssumption
<1> DEFINE ahead == s[2] * UDP_STEP
<1>2. ahead \in Nat /\ StartPort(s) = Bases[s[1]] + ahead
  BY <1>1 DEF StartPort
<1> HIDE DEF ahead
<1>3. StartPort(s) \in Nat \ {0}
  BY <1>1, <1>2
<1>4. Window(s) \subseteq UdpPorts
  BY DEF Window, UdpPorts
<1> QED BY <1>1, <1>3, <1>4

LEMMA PortsInitInv == PortsInit => PortsIInv
<1> SUFFICES ASSUME PortsInit PROVE PortsIInv
  OBVIOUS
<1>1. FirstOf(AllPaths) \in AllPaths
  BY PathsTyped, FirstIsFirst
<1>2. PortsTyped
  BY <1>1, PortsAssumption DEF PortsInit, PortsTyped
<1>3. Searched
  <2>1. StartPort(turn.path) .. StartPort(turn.path) + k - 1 = {}
    BY <1>1, WindowsTyped DEF PortsInit
  <2> QED BY <2>1 DEF PortsInit, Searched
<1>4. BuiltSoFar
  BY DEF PortsInit, BuiltSoFar
<1> QED BY <1>2, <1>3, <1>4 DEF PortsIInv

\* The next stream's turn: all before it have had theirs.
LEMMA TurnsGoOn ==
  ASSUME PortsTyped, NextTurn
  PROVE  /\ turn' \in [loop : {"pick", "build", "done"}, path : AllPaths]
         /\ \/ /\ turn'.loop = turn.loop /\ turn'.path # turn.path
               /\ \A s \in AllPaths : Before(s, turn'.path) => s = turn.path \/ Before(s, turn.path)
            \/ /\ turn'.loop = IF turn.loop = "pick" THEN "build" ELSE "done"
               /\ \A s \in AllPaths : s = turn.path \/ Before(s, turn.path)
               /\ \A s \in AllPaths : ~Before(s, turn'.path)
<1> DEFINE rest == After(turn.path)
<1>0. turn \in [loop : {"pick", "build", "done"}, path : AllPaths] /\ turn.path \in AllPaths
      /\ turn.loop \in {"pick", "build", "done"}
  BY DEF PortsTyped
<1>1. CASE rest # {}
  <2>1. turn' = [turn EXCEPT !.path = FirstOf(rest)]
    BY <1>1 DEF NextTurn
  <2>2. rest \subseteq AllPaths
    BY DEF After
  <2> DEFINE p == FirstOf(rest)
  <2>3. p \in rest /\ \A t \in rest \ {p} : Before(p, t)
    <3> HIDE DEF rest
    <3> QED BY <1>1, <2>2, FirstIsFirst
  <2>4. turn'.path = p /\ turn'.loop = turn.loop /\ turn' \in [loop : {"pick", "build", "done"}, path : AllPaths]
    BY <1>0, <2>1, <2>2, <2>3
  <2> HIDE DEF p
  <2>5. p \in AllPaths /\ Before(turn.path, p)
    BY <2>3 DEF After
  <2>6. p # turn.path
    BY <1>0, <2>5, BeforeIsStrict
  <2>7. ASSUME NEW s \in AllPaths, Before(s, p) PROVE s = turn.path \/ Before(s, turn.path)
    <3>1. s # p /\ ~Before(p, s)
      BY <2>5, <2>7, BeforeIsStrict
    <3>2. s \notin rest
      BY <2>3, <3>1
    <3>3. ~Before(turn.path, s)
      BY <3>2 DEF After
    <3> QED BY <1>0, <3>3, BeforeIsTotal
  <2> QED BY <2>4, <2>6, <2>7
<1>2. CASE rest = {}
  <2>1. turn' = [loop |-> IF turn.loop = "pick" THEN "build" ELSE "done", path |-> FirstOf(AllPaths)]
    BY <1>2 DEF NextTurn
  <2>2. FirstOf(AllPaths) \in AllPaths /\ \A t \in AllPaths \ {FirstOf(AllPaths)} : Before(FirstOf(AllPaths), t)
    BY PathsTyped, FirstIsFirst
  <2>3. \A s \in AllPaths : ~Before(s, FirstOf(AllPaths))
    BY <2>2, BeforeIsStrict
  <2>4. \A s \in AllPaths : s = turn.path \/ Before(s, turn.path)
    BY <1>0, <1>2, BeforeIsTotal DEF After
  <2> QED BY <1>0, <2>1, <2>2, <2>3, <2>4
<1> QED BY <1>1, <1>2

LEMMA OthersBindInv ==
  ASSUME PortsIInv, OthersBind
  PROVE  PortsIInv'
<1>1. taken' \subseteq UdpPorts /\ UNCHANGED <<turn, k, udp_ports, started, ok_all, passed>>
  BY DEF OthersBind, PortsIInv, PortsTyped
<1> QED BY <1>1 DEF PortsIInv, PortsTyped, Searched, BuiltSoFar

LEMMA PickInv ==
  ASSUME PortsIInv, Pick
  PROVE  PortsIInv'
<1> DEFINE s == turn.path
           p == StartPort(s) + k
<1>0. /\ turn.loop = "pick" /\ UNCHANGED <<taken, started>> /\ s \in AllPaths
      /\ k \in 0 .. UDP_MAX_TRIES - 1 /\ StartPort(s) \in Nat \ {0} /\ UDP_MAX_TRIES \in Nat \ {0}
      /\ Window(s) \subseteq UdpPorts
      /\ udp_ports \in [AllPaths -> UdpPorts \cup {0}] /\ passed \in [AllPaths -> SUBSET UdpPorts]
      /\ StartPort(s) .. p - 1 \subseteq passed[s] /\ PortsTyped
  BY WindowsTyped DEF Pick, PortsIInv, PortsTyped, Searched
<1>1. p \in Window(s) /\ p \in UdpPorts /\ p # 0 /\ p \in Nat
  BY <1>0 DEF Window
<1>2. CASE p \notin taken
  <2>1. udp_ports' = [udp_ports EXCEPT ![s] = p] /\ k' = 0 /\ NextTurn /\ UNCHANGED <<ok_all, passed>>
    BY <1>2 DEF Pick
  <2>2. /\ turn' \in [loop : {"pick", "build", "done"}, path : AllPaths]
        /\ turn'.loop \in {"pick", "build"}
        /\ turn'.loop = "build" => \A t \in AllPaths : ~Before(t, turn'.path)
    BY <1>0, <2>1, TurnsGoOn
  <2>3. PortsTyped'
    BY <1>0, <1>1, <2>1, <2>2 DEF PortsTyped
  <2>4. ASSUME NEW t \in AllPaths
        PROVE  /\ passed'[t] \subseteq Window(t)
               /\ udp_ports'[t] # 0 =>
                    udp_ports'[t] \in Window(t) /\ StartPort(t) .. udp_ports'[t] - 1 \subseteq passed'[t]
    <3>1. CASE t = s
      BY <1>0, <1>1, <2>1, <3>1 DEF PortsIInv, Searched
    <3>2. CASE t # s
      BY <1>0, <2>1, <3>2 DEF PortsIInv, Searched
    <3> QED BY <3>1, <3>2
  <2>5. StartPort(turn'.path) .. StartPort(turn'.path) + k' - 1 = {}
    <3>1. turn'.path \in AllPaths
      BY <2>2
    <3>2. StartPort(turn'.path) \in Nat
      BY <3>1, WindowsTyped
    <3> QED BY <2>1, <3>2
  <2>6. Searched'
    BY <2>4, <2>5 DEF Searched, Window, StartPort
  <2>7. BuiltSoFar'
    BY <1>0, <1>1, <2>1, <2>2 DEF PortsIInv, BuiltSoFar, PortsTyped
  <2> QED BY <2>3, <2>6, <2>7 DEF PortsIInv
<1>3. CASE p \in taken
  <2>1. /\ passed' = [passed EXCEPT ![s] = @ \cup {p}] /\ UNCHANGED udp_ports
        /\ IF k + 1 < UDP_MAX_TRIES THEN k' = k + 1 /\ UNCHANGED <<turn, ok_all>>
           ELSE k' = 0 /\ ok_all' = FALSE /\ NextTurn
    BY <1>3 DEF Pick
  <2>2. ASSUME NEW t \in AllPaths
        PROVE  /\ passed'[t] \subseteq Window(t) /\ passed[t] \subseteq passed'[t]
               /\ udp_ports'[t] # 0 =>
                    udp_ports'[t] \in Window(t) /\ StartPort(t) .. udp_ports'[t] - 1 \subseteq passed'[t]
    <3>1. passed[t] \subseteq Window(t) /\ passed'[t] = IF t = s THEN passed[t] \cup {p} ELSE passed[t]
      BY <1>0, <2>1 DEF PortsIInv, Searched
    <3> QED BY <1>1, <2>1, <3>1 DEF PortsIInv, Searched
  <2>3. passed' \in [AllPaths -> SUBSET UdpPorts]
    BY <1>0, <1>1, <2>1
  <2>4. \A t \in started' : udp_ports'[t] # 0
    BY <1>0, <2>1 DEF PortsIInv, BuiltSoFar
  <2>5. CASE k + 1 < UDP_MAX_TRIES
    <3>1. k' = k + 1 /\ UNCHANGED <<turn, ok_all>>
      BY <2>1, <2>5
    <3>2. StartPort(s) .. StartPort(s) + k' - 1 \subseteq passed'[s]
      BY <1>0, <2>1, <3>1
    <3>3. PortsTyped'
      BY <1>0, <2>1, <2>3, <2>5, <3>1 DEF PortsTyped
    <3>4. Searched'
      BY <2>2, <3>1, <3>2 DEF Searched, Window, StartPort
    <3>5. BuiltSoFar'
      BY <1>0, <2>4, <3>1 DEF BuiltSoFar
    <3> QED BY <3>3, <3>4, <3>5 DEF PortsIInv
  <2>6. CASE ~(k + 1 < UDP_MAX_TRIES)
    <3>1. k' = 0 /\ ok_all' = FALSE /\ NextTurn
      BY <2>1, <2>6
    <3>2. turn' \in [loop : {"pick", "build", "done"}, path : AllPaths]
      BY <1>0, <3>1, TurnsGoOn
    <3>3. PortsTyped'
      <4>1. k' \in 0 .. UDP_MAX_TRIES - 1
        BY <1>0, <3>1
      <4>2. ok_all' \in BOOLEAN
        BY <3>1
      <4> QED BY <1>0, <2>1, <2>3, <3>2, <4>1, <4>2 DEF PortsTyped
    <3>4. StartPort(turn'.path) .. StartPort(turn'.path) + k' - 1 = {}
      <4>1. turn'.path \in AllPaths
        BY <3>2
      <4>2. StartPort(turn'.path) \in Nat
        BY <4>1, WindowsTyped
      <4> QED BY <3>1, <4>2
    <3>5. Searched'
      BY <2>2, <3>4 DEF Searched, Window, StartPort
    <3>6. BuiltSoFar'
      BY <2>4, <3>1 DEF BuiltSoFar
    <3> QED BY <3>3, <3>5, <3>6 DEF PortsIInv
  <2> QED BY <2>5, <2>6
<1> QED BY <1>2, <1>3

LEMMA BuildInv ==
  ASSUME PortsIInv, Build
  PROVE  PortsIInv'
<1> DEFINE s == turn.path
<1>0. /\ turn.loop = "build" /\ NextTurn /\ UNCHANGED <<taken, k, udp_ports, passed>>
      /\ PortsTyped /\ s \in AllPaths /\ started \subseteq AllPaths
  BY DEF Build, PortsIInv, PortsTyped
<1>1. \/ udp_ports[s] # 0 /\ started' = started \cup {s} /\ UNCHANGED ok_all
      \/ ok_all' = FALSE /\ UNCHANGED started
  BY DEF Build
<1>2. /\ turn' \in [loop : {"pick", "build", "done"}, path : AllPaths]
      /\ turn'.loop = "build" => \A t \in AllPaths : Before(t, turn'.path) => t = s \/ Before(t, s)
      /\ turn'.loop = "done"  => \A t \in AllPaths : t = s \/ Before(t, s)
      /\ turn'.loop # "pick"
  BY <1>0, TurnsGoOn
<1>3. started' \subseteq AllPaths /\ ok_all' \in BOOLEAN
  BY <1>0, <1>1 DEF PortsTyped
<1>4. PortsTyped'
  BY <1>0, <1>2, <1>3 DEF PortsTyped
<1>5. Searched'
  BY <1>0, <1>2 DEF PortsIInv, Searched
<1>6. BuiltSoFar'
  <2>1. \A t \in started' : udp_ports'[t] # 0
    BY <1>0, <1>1 DEF PortsIInv, BuiltSoFar
  <2>2. CASE ok_all' = FALSE
    BY <2>1, <2>2 DEF BuiltSoFar
  <2>3. CASE started' = started \cup {s} /\ UNCHANGED ok_all
    <3>1. ~ok_all \/ \A t \in AllPaths : t = s \/ Before(t, s) => t \in started'
      BY <1>0, <2>3 DEF PortsIInv, BuiltSoFar
    <3>2. turn'.loop = "build" => ~ok_all' \/ \A t \in AllPaths : Before(t, turn'.path) => t \in started'
      BY <1>2, <2>3, <3>1
    <3>3. turn'.loop = "done" => ~ok_all' \/ started' = AllPaths
      BY <1>2, <1>3, <2>3, <3>1
    <3> QED BY <2>1, <3>2, <3>3 DEF BuiltSoFar, Before
  <2> QED BY <1>1, <2>2, <2>3
<1> QED BY <1>4, <1>5, <1>6 DEF PortsIInv

LEMMA PortsStep == PortsIInv /\ [PortsNext]_portVars => PortsIInv'
<1> SUFFICES ASSUME PortsIInv, [PortsNext]_portVars PROVE PortsIInv'
  OBVIOUS
<1>1. CASE UNCHANGED portVars
  BY <1>1 DEF portVars, PortsIInv, PortsTyped, Searched, BuiltSoFar
<1> QED BY <1>1, OthersBindInv, PickInv, BuildInv DEF PortsNext

\* The families do not reach into each other.
LEMMA BasesGrow ==
  ASSUME NEW f \in 1 .. Len(Bases), NEW g \in 1 .. Len(Bases), f < g
  PROVE  Bases[f] + (Sizes[f] - 1) * UDP_STEP + UDP_MAX_TRIES <= Bases[g]
<1> DEFINE Span(h) == (Sizes[h] - 1) * UDP_STEP
           top == Bases[f] + Span(f) + UDP_MAX_TRIES
           Low == {h \in Nat : f < h /\ h <= Len(Bases) /\ Bases[h] < top}
<1>0. /\ Len(Bases) \in Nat /\ \A h \in 1 .. Len(Bases) : Bases[h] \in Nat \ {0} /\ Sizes[h] \in Nat \ {0}
      /\ UDP_STEP \in Nat \ {0} /\ UDP_MAX_TRIES \in Nat \ {0}
  BY PathsTyped, PortsAssumption
<1>1. \A h \in 1 .. Len(Bases) - 1 : Bases[h] + Span(h) + UDP_MAX_TRIES <= Bases[h + 1]
  BY PortsAssumption
<1>5. \A h \in 1 .. Len(Bases) : Span(h) \in Nat
  <2> SUFFICES ASSUME NEW h \in 1 .. Len(Bases) PROVE Span(h) \in Nat
    OBVIOUS
  <2>1. Sizes[h] - 1 \in Nat /\ UDP_STEP \in Nat
    BY <1>0
  <2>2. \A a, b \in Nat : a * b \in Nat
    OBVIOUS
  <2> QED BY <2>1, <2>2
<1> HIDE DEF Span
<1>2. \A h \in 1 .. Len(Bases) - 1 : Bases[h] <= Bases[h + 1]
  <2> SUFFICES ASSUME NEW h \in 1 .. Len(Bases) - 1 PROVE Bases[h] <= Bases[h + 1]
    OBVIOUS
  <2>1. h \in 1 .. Len(Bases) /\ h + 1 \in 1 .. Len(Bases)
    BY <1>0
  <2>2. /\ Span(h) \in Nat /\ Bases[h] \in Nat /\ Bases[h + 1] \in Nat
        /\ Bases[h] + Span(h) + UDP_MAX_TRIES <= Bases[h + 1]
    BY <1>0, <1>1, <1>5, <2>1
  <2> QED BY <1>0, <2>2
<1>3. top \in Nat /\ top <= Bases[f + 1]
  <2>1. f \in 1 .. Len(Bases) - 1
    BY <1>0
  <2>2. Span(f) \in Nat /\ Bases[f] \in Nat
    BY <1>0, <1>5
  <2>3. Bases[f] + Span(f) + UDP_MAX_TRIES <= Bases[f + 1]
    BY <1>1, <2>1
  <2> QED BY <1>0, <2>2, <2>3
<1> HIDE DEF top
<1>4. Low = {}
  <2> SUFFICES ASSUME Low # {} PROVE FALSE
    OBVIOUS
  <2>1. PICK h \in Low : \A i \in Low : h <= i
    BY LeastNat
  <2>2. h # f + 1 /\ h - 1 \in Nat /\ f < h - 1 /\ h - 1 <= Len(Bases) /\ h - 1 \in 1 .. Len(Bases) - 1
    BY <1>0, <1>3, <2>1
  <2>3. h - 1 \notin Low
    BY <2>1, <2>2
  <2>4. ~(Bases[h - 1] < top)
    BY <2>2, <2>3
  <2>5. Bases[h - 1] <= Bases[h - 1 + 1] /\ h - 1 + 1 = h
    BY <1>2, <2>1, <2>2
  <2>6. Bases[h] < top /\ Bases[h] \in Nat /\ Bases[h - 1] \in Nat
    BY <1>0, <2>1, <2>2
  <2> QED BY <1>3, <2>4, <2>5, <2>6
<1>6. ~(Bases[g] < top)
  BY <1>4
<1>7. top <= Bases[g]
  BY <1>0, <1>3, <1>6
<1> QED BY <1>7 DEF top, Span

\* Two streams that search the same port are of one family, and the earlier
\* one went past the start of the later.
LEMMA SharedPort ==
  ASSUME NEW s \in AllPaths, NEW t \in AllPaths, Before(s, t), NEW p \in Nat, p \in Window(s), p \in Window(t)
  PROVE  s[1] = t[1] /\ StartPort(s) + UDP_STEP <= p
<1>0. /\ s[1] \in 1 .. Len(Bases) /\ t[1] \in 1 .. Len(Bases)
      /\ s[2] \in 0 .. Sizes[s[1]] - 1 /\ s[2] \in Nat /\ t[2] \in Nat /\ Sizes[s[1]] \in Nat
      /\ Bases[s[1]] \in Nat /\ Bases[t[1]] \in Nat /\ UDP_STEP \in Nat \ {0} /\ UDP_MAX_TRIES \in Nat \ {0}
  BY PathsTyped, PortsAssumption
<1> DEFINE here == s[2] * UDP_STEP
           there == t[2] * UDP_STEP
           last == (Sizes[s[1]] - 1) * UDP_STEP
<1>1. here \in Nat /\ there \in Nat /\ last \in Nat /\ here <= last
  <2>1. \A a, b \in Nat : a * b \in Nat
    OBVIOUS
  <2>2. \A a, b, c \in Nat : a <= b => a * c <= b * c
    OBVIOUS
  <2>3. Sizes[s[1]] - 1 \in Nat /\ s[2] <= Sizes[s[1]] - 1
    BY <1>0
  <2>4. here \in Nat /\ there \in Nat /\ last \in Nat
    BY <1>0, <2>1, <2>3
  <2>5. here <= last
    BY <1>0, <2>2, <2>3
  <2> QED BY <2>4, <2>5
<1>2. /\ p <= Bases[s[1]] + here + UDP_MAX_TRIES - 1 /\ Bases[t[1]] + there <= p
  BY DEF Window, StartPort
<1>3. s[1] = t[1]
  <2> SUFFICES ASSUME s[1] # t[1] PROVE FALSE
    OBVIOUS
  <2>1. s[1] < t[1]
    BY DEF Before
  <2>2. Bases[s[1]] + last + UDP_MAX_TRIES <= Bases[t[1]]
    BY <1>0, <2>1, BasesGrow
  <2> HIDE DEF here, there, last
  <2>3. \A a, b, h, l, n \in Nat : h <= l /\ a + l + n <= b => a + h + n - 1 < b
    OBVIOUS
  <2>4. Bases[s[1]] + here + UDP_MAX_TRIES - 1 < Bases[t[1]]
    BY <1>0, <1>1, <2>2, <2>3
  <2> QED BY <1>0, <1>1, <1>2, <2>4
<1>4. here + UDP_STEP <= there
  <2>1. \A a, b, c \in Nat : a + 1 <= b => a * c + c <= b * c
    OBVIOUS
  <2>2. s[2] + 1 <= t[2]
    BY <1>0, <1>3 DEF Before
  <2> QED BY <1>0, <2>1, <2>2
<1>5. StartPort(s) = Bases[s[1]] + here
  BY DEF StartPort
<1> HIDE DEF here, there, last
<1>6. StartPort(s) + UDP_STEP <= p
  BY <1>0, <1>1, <1>2, <1>3, <1>4, <1>5
<1> QED BY <1>3, <1>6

LEMMA CrowdInv == PortsIInv => SharedOnlyInACrowd
<1> SUFFICES ASSUME PortsIInv, NEW s \in AllPaths, NEW t \in AllPaths,
                    Before(s, t), udp_ports[s] = udp_ports[t], udp_ports[s] # 0
             PROVE  s[1] = t[1] /\ Cardinality(passed[s]) >= UDP_STEP
  BY DEF SharedOnlyInACrowd
<1> DEFINE p == udp_ports[s]
<1>1. /\ p \in Window(s) /\ p \in Window(t) /\ StartPort(s) .. p - 1 \subseteq passed[s]
      /\ passed[s] \subseteq Window(s) /\ StartPort(s) \in Nat \ {0} /\ UDP_MAX_TRIES \in Nat /\ UDP_STEP \in Nat
  BY WindowsTyped, PortsAssumption DEF PortsIInv, Searched
<1>2. p \in Nat
  BY <1>1 DEF Window
<1>3. s[1] = t[1] /\ StartPort(s) + UDP_STEP <= p
  BY <1>1, <1>2, SharedPort
<1> DEFINE near == StartPort(s) .. StartPort(s) + UDP_STEP - 1
<1>4. near \subseteq passed[s]
  BY <1>1, <1>2, <1>3
<1>5. Cardinality(near) = UDP_STEP
  BY <1>1, FS_Interval
<1>6. IsFiniteSet(passed[s])
  <2>1. IsFiniteSet(Window(s))
    BY <1>1, FS_Interval DEF Window
  <2> QED BY <1>1, <2>1, FS_Subset
<1> HIDE DEF near
<1>7. Cardinality(near) <= Cardinality(passed[s]) /\ Cardinality(passed[s]) \in Nat
  BY <1>4, <1>6, FS_Subset, FS_CardinalityType
<1> QED BY <1>1, <1>3, <1>5, <1>7

\* For any families, sizes and distances, with other programs taking and
\* giving back ports at any time: two streams share a port only when a search
\* had to pass UDP_STEP ports, and the function reports every missing hub.
THEOREM PortsAreApart == PortsSpec => []PortsInv
<1>1. PortsIInv => PortsTypeOK /\ TrueMeansAll
  BY DEF PortsIInv, PortsTyped, PortsTypeOK, BuiltSoFar, TrueMeansAll
<1>2. PortsIInv => PortsInv
  BY <1>1, CrowdInv DEF PortsInv
<1> QED BY <1>2, PortsInitInv, PortsStep, PTL DEF PortsSpec

=============================================================================
