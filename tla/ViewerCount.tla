---------------------------- MODULE ViewerCount ----------------------------
(***************************************************************************)
(* Who watches a stream (k180_rtsp_attach.cpp). Each RTSP client keeps the *)
(* streams it was counted for; DESCRIBE, SETUP and PLAY count it, PAUSE,   *)
(* TEARDOWN and the end of the connection take it away. Before the first   *)
(* client is counted its media has to be started, and for that the hub     *)
(* must run already: the media-configure callback counts a bootstrap       *)
(* viewer, which the first counted client, or the end of the media, takes  *)
(* away. HubManager pushes pictures into a hub while its count is not 0.   *)
(*                                                                         *)
(* GStreamer runs the requests of all clients on one thread, the pool's    *)
(* default, and may end a media on that media's own thread at any time.    *)
(***************************************************************************)
EXTENDS Integers, FiniteSets

CONSTANTS Clients, Streams, None

ASSUME ViewerAssumption == IsFiniteSet(Clients) /\ None \notin Clients \cup Streams

VARIABLES
  life,       \* of a client: "out" (not connected) or "in"
  active,     \* ClientTrackState.active: the streams it was counted for
  flag,       \* FactoryCtx.bootstrap_active
  registered, \* g_factory_ctx_by_id has the stream's factory
  media,      \* the factory's shared media: "none" or "made"
  viewers,    \* HubManager.viewers, viewers_h264
  pc,         \* the client thread
  who, what,  \* the client it serves and the stream it is at
  drop,       \* streams release_all_streams_locked has still to count down
  mpc         \* the media thread of each stream

countVars == <<flag, viewers>>
threadVars == <<pc, who, what, drop>>
vars == <<life, active, registered, media, countVars, threadVars, mpc>>

Init ==
  /\ life = [c \in Clients |-> "out"]
  /\ active = [c \in Clients |-> {}]
  /\ flag = [s \in Streams |-> FALSE]
  /\ registered = [s \in Streams |-> TRUE]
  /\ media = [s \in Streams |-> "none"]
  /\ viewers = [s \in Streams |-> 0]
  /\ pc = "idle" /\ who = None /\ what = None /\ drop = {}
  /\ mpc = [s \in Streams |-> "idle"]

ThenTo(p) == pc' = p /\ UNCHANGED <<who, what, drop>>
Finish == pc' = "idle" /\ who' = None /\ what' = None /\ drop' = {}

Inc(s) == viewers' = [viewers EXCEPT ![s] = @ + 1]
\* The compare-exchange loop does nothing at zero.
Dec(s) == viewers' = [viewers EXCEPT ![s] = IF @ > 0 THEN @ - 1 ELSE 0]

----------------------------------------------------------------------------
(* Requests reach the client thread *)

Connect(c) ==
  /\ pc = "idle" /\ life[c] = "out"
  /\ life' = [life EXCEPT ![c] = "in"]
  /\ UNCHANGED <<active, registered, media, countVars, threadVars, mpc>>

Serve(c, s, p) == pc = "idle" /\ life[c] = "in" /\ pc' = p /\ who' = c /\ what' = s

\* DESCRIBE and SETUP look for the media of the path; a factory without one
\* makes and configures it.
DescribeOrSetup(c, s) ==
  /\ registered[s]
  /\ Serve(c, s, IF media[s] = "none" THEN "configure" ELSE "prepare")
  /\ UNCHANGED <<life, active, registered, media, countVars, drop, mpc>>

\* PLAY finds the media of its session.
Play(c, s) ==
  /\ Serve(c, s, "start")
  /\ UNCHANGED <<life, active, registered, media, countVars, drop, mpc>>

PauseOrTeardown(c, s) ==
  /\ Serve(c, s, "stop")
  /\ UNCHANGED <<life, active, registered, media, countVars, drop, mpc>>

\* A TEARDOWN whose path names no stream, and the end of the connection.
ReleaseAll(c) ==
  /\ Serve(c, None, "release") /\ drop' = active[c]
  /\ UNCHANGED <<active, registered, media, countVars, mpc>>

TeardownAll(c) == ReleaseAll(c) /\ UNCHANGED life
Closed(c) == ReleaseAll(c) /\ life' = [life EXCEPT ![c] = "out"]

----------------------------------------------------------------------------
(* The callbacks on the client thread *)

\* media_configure_cb: the exchange ...
MarkBootstrap ==
  /\ pc = "configure"
  /\ flag' = [flag EXCEPT ![what] = TRUE]
  /\ media' = [media EXCEPT ![what] = "made"]
  /\ ThenTo(IF flag[what] THEN "prepare" ELSE "boot")
  /\ UNCHANGED <<life, active, registered, viewers, mpc>>

\* ... and the count it stands for.
CountBootstrap ==
  /\ pc = "boot" /\ Inc(what) /\ ThenTo("prepare")
  /\ UNCHANGED <<life, active, registered, media, flag, mpc>>

\* The media starts, or fails: then the request ends without a signal, and
\* the media is dropped or stays until it is unprepared.
PrepareMedia ==
  /\ pc = "prepare"
  /\ \/ ThenTo("start") /\ UNCHANGED media
     \/ /\ Finish
        /\ media' \in {media, [media EXCEPT ![what] = IF mpc[what] = "idle" THEN "none" ELSE @]}
  /\ UNCHANGED <<life, active, registered, countVars, mpc>>

\* Mutant: a client is counted at every request.
StartClientStream_Recount ==
  /\ pc = "start"
  /\ active' = [active EXCEPT ![who] = @ \cup {what}]
  /\ ThenTo("count")
  /\ UNCHANGED <<life, registered, media, countVars, mpc>>

\* Mutant: the bootstrap viewer is taken away before the client is counted.
StartClientStream_ConsumeFirst ==
  /\ pc = "start"
  /\ active' = [active EXCEPT ![who] = @ \cup {what}]
  /\ viewers' = [viewers EXCEPT ![what] =
       IF flag[what] /\ @ > 0 THEN @ - 1 ELSE @]
  /\ flag' = [flag EXCEPT ![what] = FALSE]
  /\ ThenTo(IF what \in active[who] THEN "consume" ELSE "count")
  /\ UNCHANGED <<life, registered, media, mpc>>

\* start_client_stream: a client is counted once for each stream.
StartClientStream ==
  /\ pc = "start"
  /\ active' = [active EXCEPT ![who] = @ \cup {what}]
  /\ ThenTo(IF what \in active[who] THEN "consume" ELSE "count")
  /\ UNCHANGED <<life, registered, media, countVars, mpc>>

CountClient ==
  /\ pc = "count" /\ Inc(what) /\ ThenTo("consume")
  /\ UNCHANGED <<life, active, registered, media, flag, mpc>>

ConsumeBootstrap ==
  /\ pc = "consume"
  /\ IF registered[what] /\ flag[what]
     THEN flag' = [flag EXCEPT ![what] = FALSE] /\ ThenTo("undo")
     ELSE Finish /\ UNCHANGED flag
  /\ UNCHANGED <<life, active, registered, media, viewers, mpc>>

UncountBootstrap ==
  /\ pc = "undo" /\ Dec(what) /\ Finish
  /\ UNCHANGED <<life, active, registered, media, flag, mpc>>

\* stop_client_stream: only a client that was counted is taken away.
StopClientStream ==
  /\ pc = "stop"
  /\ active' = [active EXCEPT ![who] = @ \ {what}]
  /\ IF what \in active[who] THEN ThenTo("uncount") ELSE Finish
  /\ UNCHANGED <<life, registered, media, countVars, mpc>>

UncountClient ==
  /\ pc = "uncount" /\ Dec(what) /\ Finish
  /\ UNCHANGED <<life, active, registered, media, flag, mpc>>

\* release_all_streams_locked
ReleaseStream ==
  /\ pc = "release"
  /\ \E s \in drop : Dec(s) /\ drop' = drop \ {s}
  /\ UNCHANGED <<life, active, registered, media, flag, pc, who, what, mpc>>

ClearActive ==
  /\ pc = "release" /\ drop = {}
  /\ active' = [active EXCEPT ![who] = {}] /\ Finish
  /\ UNCHANGED <<life, registered, media, countVars, mpc>>

ClientThread ==
  \/ MarkBootstrap \/ CountBootstrap \/ PrepareMedia \/ StartClientStream \/ CountClient
  \/ ConsumeBootstrap \/ UncountBootstrap \/ StopClientStream \/ UncountClient
  \/ ReleaseStream \/ ClearActive

----------------------------------------------------------------------------
(* The media thread and the end of the factory, where release_factory_bootstrap runs too *)

\* Mutant: the exchange is forgotten, the bootstrap viewer is taken away by
\* whoever comes.
Unprepared_NoExchange(s) ==
  /\ media[s] = "made" /\ mpc[s] = "idle" /\ ~(what = s /\ pc \in {"configure", "boot"})
  /\ mpc' = [mpc EXCEPT ![s] = IF flag[s] THEN "undo" ELSE "forget"]
  /\ UNCHANGED <<life, active, registered, media, countVars, threadVars>>

\* on_media_unprepared: the exchange, ...
Unprepared(s) ==
  /\ media[s] = "made" /\ mpc[s] = "idle" /\ ~(what = s /\ pc \in {"configure", "boot"})
  /\ mpc' = [mpc EXCEPT ![s] = IF flag[s] THEN "undo" ELSE "forget"]
  /\ flag' = [flag EXCEPT ![s] = FALSE]
  /\ UNCHANGED <<life, active, registered, media, viewers, threadVars>>

\* ... the count, ...
MediaUncount(s) ==
  /\ mpc[s] = "undo" /\ Dec(s)
  /\ mpc' = [mpc EXCEPT ![s] = "forget"]
  /\ UNCHANGED <<life, active, registered, media, flag, threadVars>>

\* ... and only then does the factory forget its media.
MediaForgotten(s) ==
  /\ mpc[s] = "forget"
  /\ mpc' = [mpc EXCEPT ![s] = "idle"] /\ media' = [media EXCEPT ![s] = "none"]
  /\ UNCHANGED <<life, active, registered, countVars, threadVars>>

\* destroy_ctx, when the server goes after its clients.
DestroyFactory(s) ==
  /\ pc = "idle" /\ mpc[s] = "idle" /\ registered[s] /\ \A c \in Clients : life[c] = "out"
  /\ registered' = [registered EXCEPT ![s] = FALSE]
  /\ flag' = [flag EXCEPT ![s] = FALSE]
  /\ media' = [media EXCEPT ![s] = "none"]
  /\ mpc' = [mpc EXCEPT ![s] = IF flag[s] THEN "undo" ELSE "idle"]
  /\ UNCHANGED <<life, active, viewers, threadVars>>

Next ==
  \/ \E c \in Clients : Connect(c) \/ TeardownAll(c) \/ Closed(c)
  \/ \E c \in Clients, s \in Streams : DescribeOrSetup(c, s) \/ Play(c, s) \/ PauseOrTeardown(c, s)
  \/ ClientThread
  \/ \E s \in Streams : Unprepared(s) \/ MediaUncount(s) \/ MediaForgotten(s) \/ DestroyFactory(s)

\* Threads that can run do run. Nothing makes a client do anything.
Spec ==
  /\ Init /\ [][Next]_vars
  /\ WF_vars(ClientThread)
  /\ \A s \in Streams : WF_vars(MediaUncount(s)) /\ WF_vars(MediaForgotten(s))

----------------------------------------------------------------------------
(* Properties *)

TypeOK ==
  /\ life \in [Clients -> {"out", "in"}]
  /\ active \in [Clients -> SUBSET Streams]
  /\ flag \in [Streams -> BOOLEAN]
  /\ registered \in [Streams -> BOOLEAN]
  /\ media \in [Streams -> {"none", "made"}]
  /\ viewers \in [Streams -> 0 .. Cardinality(Clients) + 1]
  /\ pc \in {"idle", "configure", "boot", "prepare", "start", "count", "consume", "undo",
             "stop", "uncount", "release"}
  /\ who \in Clients \cup {None} /\ what \in Streams \cup {None}
  /\ drop \subseteq Streams
  /\ mpc \in [Streams -> {"idle", "undo", "forget"}]

One(b) == IF b THEN 1 ELSE 0
At(p, s) == pc = p /\ what = s

\* The clients counted for a stream: one being counted is not yet, one being
\* released is no longer.
Counted(s) ==
  {c \in Clients : /\ s \in active[c]
                   /\ ~(c = who /\ (At("count", s) \/ pc = "release"))}

\* The count of a hub is the number of its clients, one more while its media
\* is being started, and one more for each decrement under way. So no
\* decrement ever meets zero, where viewer_dec would swallow it.
CountIsExact ==
  \A s \in Streams :
    viewers[s] = Cardinality(Counted(s)) + One(flag[s] /\ ~At("boot", s))
               + One(At("undo", s)) + One(At("uncount", s))
               + One(pc = "release" /\ s \in drop) + One(mpc[s] = "undo")

\* The variables have their types, and no viewer is counted twice or forgotten.
ViewersInv == TypeOK /\ CountIsExact

Demand == INSTANCE ViewerDemand WITH
  watchers <- [s \in Streams |-> Counted(s)],
  starting <- [s \in Streams |-> flag[s] /\ ~At("boot", s)],
  wanted   <- [s \in Streams |-> viewers[s] > 0]

\* The counters implement the abstract demand: a stream stays wanted through
\* the change from the bootstrap viewer to the first client, whatever the
\* media thread does meanwhile, and stops being wanted after the last client.
ImplementsDemand == Demand!Spec
=============================================================================
