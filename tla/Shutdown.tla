------------------------------ MODULE Shutdown ------------------------------
(***************************************************************************)
(* How grand_yeah ends. The main thread stores three stop flags, notifies  *)
(* four condition variables, does so again in shutdown_all, closes the     *)
(* StageQueues and joins every worker. The flags are atomics stored        *)
(* without the mutex of the condition variables, so a worker that has just *)
(* evaluated its predicate can miss the notification; a StageQueue sets    *)
(* closed_ under its mutex, so nobody can miss that. A wait is modelled as *)
(*   "wait" (evaluate, under the mutex) -> "blocking" (predicate false,    *)
(*   mutex still held) -> "blocked" (mutex released, on the wait list).    *)
(* What a round of work computes is modelled elsewhere: here work reaches  *)
(* a thread at any time while one of its producers lives.                  *)
(***************************************************************************)
EXTENDS Integers, Sequences, FiniteSets

CONSTANTS
  Cams,     \* cameras, 0 .. 3 in the code
  TunerCam, \* the camera that feeds the brightness tuner
  Teams     \* sets of threads to look at together; all of them are one in the code

Trig     == <<"trigger", 0>>
Bright   == <<"bright", 0>>
Infer    == <<"infer", 0>>
SeamFind == <<"seam_find", 0>>
Apply    == <<"apply", 0>>
Prepare  == <<"prepare", 0>>
Captures == {<<"capture", c>> : c \in Cams}
Preps    == {<<"seam_prep", c>> : c \in Cams}

\* The threads that sleep on one of the four condition variables, and those
\* that sleep in StageQueue::pop.
Waiters == {SeamFind, Apply, Prepare} \cup Captures
Poppers == {Bright, Infer} \cup Preps
Threads == {Trig} \cup Waiters \cup Poppers

ASSUME ShutdownAssumption ==
  TunerCam \in Cams /\ IsFiniteSet(Cams) /\ Cams \subseteq Nat /\ Teams \subseteq SUBSET Threads

VARIABLES
  workers,  \* the team
  pc,       \* where each worker is
  main,     \* the next step of the main thread's script
  stopped,  \* the flags that say stop (keep_running and running are cleared)
  work,     \* workers with a tick, a full join mask or an item waiting for them
  closed,   \* workers whose StageQueue is closed
  missed,   \* history: workers that were about to sleep when last notified
  late      \* history: rounds a worker began after the flags were stored, to 2

stop == <<workers, main, stopped, closed, missed>>
vars == <<pc, stop, work, late>>

----------------------------------------------------------------------------
(* The main thread's script *)

Op(op, arg) == [op |-> op, arg |-> arg]

RequestStop ==
  << Op("store", "pipeline_sync_stop"), Op("store", "keep_running"), Op("store", "running"),
     Op("notify", Captures), Op("notify", {Apply}), Op("notify", {SeamFind}),
     Op("notify", {Prepare}) >>

\* Mutant: the seam preparation threads are joined before their queues close.
ShutdownAll_JoinFirst ==
  RequestStop \o
  << Op("close", {Bright}), Op("close", {Infer}),
     Op("join", {Trig}), Op("join", {Bright}), Op("join", {Infer}), Op("join", {SeamFind}),
     Op("join", Preps), Op("close", Preps), Op("join", {Apply}), Op("notify", {Prepare}),
     Op("join", {Prepare}), Op("join", Captures) >>

\* shutdown_all in its order; the camera threads of a group are joined as one.
\* q_blend is closed too, but nobody sleeps on it.
ShutdownAll ==
  RequestStop \o
  << Op("close", Preps \cup {Bright}), Op("close", {Infer}),
     Op("join", {Trig}), Op("join", {Bright}), Op("join", {Infer}), Op("join", {SeamFind}),
     Op("join", Preps), Op("join", {Apply}), Op("notify", {Prepare}),
     Op("join", {Prepare}), Op("join", Captures) >>

\* on_unix_signal, the end of the main loop, shutdown_all.
Script == RequestStop \o ShutdownAll

AllFlags == {"pipeline_sync_stop", "keep_running", "running"}

----------------------------------------------------------------------------
Init ==
  /\ workers \in Teams
  /\ pc = [t \in workers |-> "check"]
  /\ main = 1
  /\ stopped = {}
  /\ work = {}
  /\ closed = {}
  /\ missed = {}
  /\ late = [t \in workers |-> 0]

Goto(t, label) == pc' = [pc EXCEPT ![t] = label]

\* t begins a round, which leads back to the head of its loop. The history
\* counts the rounds begun with every flag stored.
BeginRound(t) ==
  /\ Goto(t, "check")
  /\ work' = work \ {t}
  /\ late' = IF stopped = AllFlags /\ late[t] < 2 THEN [late EXCEPT ![t] = @ + 1] ELSE late

\* Nobody is between a predicate and the sleep on t's condition variable: its
\* mutex is free. The capture threads share one.
Peers(t)     == IF t \in Captures THEN Captures \cap workers ELSE {t}
\* Mutant: a capture thread looks at its own flag only.
MutexFree_Own(t) == pc[t] # "blocking"

MutexFree(t) == \A u \in Peers(t) : pc[u] # "blocking"

\* notify_all: sleepers re-evaluate their predicate.
Woken(ts) == [t \in workers |-> IF t \in ts /\ pc[t] = "blocked" THEN "wait" ELSE pc[t]]

\* Mutant: for (;;) around the pop.
GoesOn_Always(t) == t \in Poppers \/ "running" \notin stopped

\* The loop condition: the trigger looks at keep_running, the others at running.
GoesOn(t) == (IF t = Trig THEN "keep_running" ELSE "running") \notin stopped

LoopStart(t) == IF t \in Waiters THEN "wait" ELSE IF t = Bright THEN "nap" ELSE "pop"

\* The head of the loop; the tuner sleeps first and looks again.
Check(t) ==
  /\ pc[t] = "check"
  /\ IF ~GoesOn(t) THEN Goto(t, "exited") /\ UNCHANGED <<work, late>>
     ELSE IF t = Trig THEN BeginRound(t)
     ELSE Goto(t, LoopStart(t)) /\ UNCHANGED <<work, late>>
  /\ UNCHANGED stop

Nap ==
  /\ pc[Bright] = "nap"
  /\ Goto(Bright, IF GoesOn(Bright) THEN "pop" ELSE "exited")
  /\ UNCHANGED <<work, stop, late>>

\* Mutant: thread_blender_prepare only looks at its queue.
StopSeen_NotPrepare(t) == t # Prepare /\ "pipeline_sync_stop" \in stopped

\* The predicate says stop; thread_blender_prepare looks at keep_running.
StopSeen(t) == (IF t = Prepare THEN "keep_running" ELSE "pipeline_sync_stop") \in stopped

\* cv.wait evaluates its predicate under the mutex: stop, take the work, or
\* get ready to sleep.
WaitStop(t) ==
  /\ pc[t] = "wait" /\ MutexFree(t) /\ StopSeen(t)
  /\ Goto(t, "exited")
  /\ UNCHANGED <<work, stop, late>>

WaitWork(t) ==
  /\ pc[t] = "wait" /\ MutexFree(t) /\ ~StopSeen(t) /\ t \in work
  /\ BeginRound(t)
  /\ UNCHANGED stop

WaitBlock(t) ==
  /\ pc[t] = "wait" /\ MutexFree(t) /\ ~StopSeen(t) /\ t \notin work
  /\ Goto(t, "blocking")
  /\ UNCHANGED <<work, stop, late>>

\* The mutex is released and the thread put on the wait list in one step.
Sleep(t) ==
  /\ pc[t] = "blocking"
  /\ Goto(t, "blocked")
  /\ UNCHANGED <<work, stop, late>>

\* StageQueue::pop and pop_latest: wait until there is an item or the queue is
\* closed; a closed queue is drained first. Its mutex covers the whole of it.
Pop(t) ==
  /\ pc[t] = "pop"
  /\ \/ t \in work /\ BeginRound(t)
     \/ t \notin work /\ t \in closed /\ Goto(t, "exited") /\ UNCHANGED <<work, late>>
  /\ UNCHANGED stop

\* Who gives t its work: the trigger ticks the captures, a frame goes to three
\* threads, the last signal completes a join, a round of apply goes on to the
\* preparation and to inference.
Producers(t) ==
  IF t \in Captures THEN {Trig}
  ELSE IF t = Bright THEN {<<"capture", TunerCam>>}
  ELSE IF t \in Preps THEN {<<"capture", t[2]>>}
  ELSE IF t = Apply THEN Captures
  ELSE IF t = SeamFind THEN Preps ELSE {Apply}

\* A producer outside workers is taken to live; the captures of one tick may get
\* it one after the other.
Produce(t) ==
  /\ t # Trig /\ t \notin closed
  /\ \E p \in Producers(t) : p \in workers => pc[p] # "exited"
  /\ MutexFree(t)
  /\ work' = work \cup {t}
  /\ pc' = Woken({t})
  /\ UNCHANGED <<stop, late>>

----------------------------------------------------------------------------
(* The main thread *)

Store(o) ==
  /\ o.op = "store"
  /\ stopped' = stopped \cup {o.arg}
  /\ UNCHANGED <<pc, closed, missed>>

\* notify_all, without the mutex.
Notify(o) ==
  /\ o.op = "notify"
  /\ pc' = Woken(o.arg)
  /\ missed' = (missed \ o.arg) \cup {t \in o.arg \cap workers : pc[t] = "blocking"}
  /\ UNCHANGED <<stopped, closed>>

Close(o) ==
  /\ o.op = "close"
  /\ closed' = closed \cup (o.arg \cap workers)
  /\ UNCHANGED <<pc, stopped, missed>>

Join(o) ==
  /\ o.op = "join"
  /\ \A t \in o.arg \cap workers : pc[t] = "exited"
  /\ UNCHANGED <<pc, stopped, closed, missed>>

MainStep ==
  /\ main <= Len(Script)
  /\ main' = main + 1
  /\ LET o == Script[main] IN Store(o) \/ Notify(o) \/ Close(o) \/ Join(o)
  /\ UNCHANGED <<workers, work, late>>

Step(t) ==
  \/ Check(t) \/ WaitStop(t) \/ WaitWork(t) \/ WaitBlock(t) \/ Sleep(t) \/ Pop(t)
  \/ t = Bright /\ Nap

Next == MainStep \/ \E t \in workers : Step(t) \/ Produce(t)

Spec == Init /\ [][Next]_vars

\* Every thread that can run does; the signal itself need never come, nor work.
FairSpec ==
  /\ Spec
  /\ WF_vars(main > 1 /\ MainStep)
  /\ \A t \in Threads : WF_vars(t \in workers /\ Step(t))

----------------------------------------------------------------------------
Labels == {"check", "wait", "blocking", "blocked", "nap", "pop", "exited"}

\* The variables have their types, only a condition variable is slept on, and
\* two capture threads are never both inside the mutex they share.
TypeOK ==
  /\ workers \in Teams /\ pc \in [workers -> Labels]
  /\ main \in 1 .. Len(Script) + 1
  /\ stopped \subseteq AllFlags
  /\ work \subseteq workers
  /\ closed \subseteq Poppers \cap workers
  /\ missed \subseteq Waiters \cap workers
  /\ late \in [workers -> 0 .. 2]
  /\ \A t \in workers : pc[t] \in {"wait", "blocking", "blocked"} => t \in Waiters
  /\ \A t, u \in Captures \cap workers : pc[t] = "blocking" /\ pc[u] = "blocking" => t = u

\* Once the three flags are stored no thread begins more than one more round,
\* whatever its queue still holds: the wait for a join is a bounded one.
AtMostOneMoreRound == \A t \in workers : late[t] <= 1

\* The threads' states are consistent, and each stops after one more round.
ShutdownInv == TypeOK /\ AtMostOneMoreRound

Ended == main = Len(Script) + 1

\* A stuck shutdown has one cause: a thread evaluated its predicate before the
\* flag was stored and fell asleep after the last notification meant for it.
EndsUnlessMissed == (main > 1) ~> (Ended \/ missed # {})

\* k180_stage_sync.h: notify_all is there "to wake stuck waits at shutdown", so
\* after the signal the program ends.
ShutdownEnds == (main > 1) ~> Ended
=============================================================================
