---------------------------- MODULE ViewerDemand ----------------------------
(***************************************************************************)
(* What the viewer counts promise, without counters or callbacks: a stream *)
(* somebody watches, or whose media is being started, is wanted and stays  *)
(* wanted; a stream nobody asks for any longer stops being wanted.         *)
(***************************************************************************)
CONSTANTS Clients, Streams

VARIABLES
  watchers,  \* the clients counted for each stream
  starting,  \* the stream's media is being started for its first client
  wanted     \* pictures are pushed into the stream's hub

vars == <<watchers, starting, wanted>>

Init ==
  /\ watchers = [s \in Streams |-> {}]
  /\ starting = [s \in Streams |-> FALSE]
  /\ wanted = [s \in Streams |-> FALSE]

Join(c, s) ==
  /\ c \notin watchers[s]
  /\ watchers' = [watchers EXCEPT ![s] = @ \cup {c}]
  /\ wanted' = [wanted EXCEPT ![s] = TRUE]
  /\ UNCHANGED starting

\* One client stops watching one stream, or all streams at once.
Leave(c, S) ==
  /\ watchers' = [s \in Streams |-> IF s \in S THEN watchers[s] \ {c} ELSE watchers[s]]
  /\ UNCHANGED <<starting, wanted>>

StartMedia(s) ==
  /\ ~starting[s]
  /\ starting' = [starting EXCEPT ![s] = TRUE]
  /\ wanted' = [wanted EXCEPT ![s] = TRUE]
  /\ UNCHANGED watchers

MediaStarted(s) ==
  /\ starting[s]
  /\ starting' = [starting EXCEPT ![s] = FALSE]
  /\ UNCHANGED <<watchers, wanted>>

Idle(s) == watchers[s] = {} /\ ~starting[s]

Unwant(s) ==
  /\ Idle(s)
  /\ wanted' = [wanted EXCEPT ![s] = FALSE]
  /\ UNCHANGED <<watchers, starting>>

Next ==
  \/ \E c \in Clients, s \in Streams : Join(c, s)
  \/ \E c \in Clients, S \in SUBSET Streams : Leave(c, S)
  \/ \E s \in Streams : StartMedia(s) \/ MediaStarted(s) \/ Unwant(s)

Spec == Init /\ [][Next]_vars /\ \A s \in Streams : WF_vars(Unwant(s))
=============================================================================
