---------------------------- MODULE SystemProofs ----------------------------
(***************************************************************************)
(* Theorems of what a unit is set up, updated and stopped by. Shutdown,    *)
(* for any cameras and any team of threads: OneRound strengthens           *)
(* AtMostOneMoreRound, a thread that began a round with every flag stored  *)
(* is at the head of its loop, where it leaves, or has left. ConfigFile,   *)
(* for any number of pages, values, requests and power cuts: Locked says   *)
(* what a writer under the lock may rely on; NetKept that the file's       *)
(* network is in 01-netcfg.yaml or will be, by a helper that is at work,   *)
(* or by a page that is about to start one, if the helper has its rescue   *)
(* file. FirmwareInstall, for any                                          *)
(* number of updates and any failures: FwInv says, besides the types, what *)
(* is staged (StagedInv), that without an overlap one update is at work    *)
(* (OneAtWork) and how far it has come in the directory of the programs    *)
(* (Progress), and that a service which runs another program than the one  *)
(* that is there has a restart before it (RestartsToCome). Recordings, for *)
(* any times and numbers: the file that is open is the newest by time and  *)
(* by name (Dated), so the order of the cleanup's list, which was right    *)
(* when it was made (InOrder, Remembered), stays right while the recorder  *)
(* writes, begins files and users delete.                                  *)
(***************************************************************************)
EXTENDS Shutdown, ConfigFile, FirmwareInstall, Recordings,
        FiniteSetTheorems, SequenceTheorems, TLAPS

----------------------------------------------------------------------------
(* Shutdown *)

\* TypeOK without the exclusion of the two capture threads.
Typed ==
  /\ workers \in Teams /\ pc \in [workers -> Labels]
  /\ main \in 1 .. Len(Script) + 1
  /\ stopped \subseteq AllFlags
  /\ work \subseteq workers
  /\ closed \subseteq Poppers \cap workers
  /\ missed \subseteq Waiters \cap workers
  /\ late \in [workers -> 0 .. 2]
  /\ \A t \in workers : pc[t] \in {"wait", "blocking", "blocked"} => t \in Waiters

Exclusion == \A t, u \in Captures \cap workers : pc[t] = "blocking" /\ pc[u] = "blocking" => t = u

OneRound ==
  \A t \in workers : late[t] # 0 => late[t] = 1 /\ stopped = AllFlags /\ pc[t] \in {"check", "exited"}

StopInv == Typed /\ Exclusion /\ OneRound

----------------------------------------------------------------------------
(* The script *)

Ops ==
  {Op("store", a) : a \in AllFlags} \cup {Op("notify", a) : a \in SUBSET Waiters}
  \cup {Op("close", a) : a \in SUBSET Poppers} \cup {Op("join", a) : a \in SUBSET Threads}

LEMMA ScriptOps == Script \in Seq(Ops)
<1>1. RequestStop \in Seq(Ops)
  <2>1. \A a \in AllFlags : Op("store", a) \in Ops
    BY DEF Ops
  <2>2. \A a \in SUBSET Waiters : Op("notify", a) \in Ops
    BY DEF Ops
  <2>3. {"pipeline_sync_stop", "keep_running", "running"} \subseteq AllFlags
    BY DEF AllFlags
  <2>4. {Captures, {Apply}, {SeamFind}, {Prepare}} \subseteq SUBSET Waiters
    BY DEF Waiters
  <2> QED BY <2>1, <2>2, <2>3, <2>4 DEF RequestStop
<1>2. << Op("close", Preps \cup {Bright}), Op("close", {Infer}),
         Op("join", {Trig}), Op("join", {Bright}), Op("join", {Infer}), Op("join", {SeamFind}),
         Op("join", Preps), Op("join", {Apply}), Op("notify", {Prepare}),
         Op("join", {Prepare}), Op("join", Captures) >> \in Seq(Ops)
  <2>1. \A a \in SUBSET Threads : Op("join", a) \in Ops
    BY DEF Ops
  <2>2. {{Trig}, {Bright}, {Infer}, {SeamFind}, Preps, {Apply}, {Prepare}, Captures} \subseteq SUBSET Threads
    BY DEF Threads, Waiters, Poppers
  <2>3. Op("close", Preps \cup {Bright}) \in Ops /\ Op("close", {Infer}) \in Ops
    BY DEF Ops, Poppers
  <2>4. Op("notify", {Prepare}) \in Ops
    BY DEF Ops, Waiters
  <2> QED BY <2>1, <2>2, <2>3, <2>4
<1>3. ShutdownAll \in Seq(Ops)
  BY <1>1, <1>2, ConcatProperties DEF ShutdownAll
<1> QED BY <1>1, <1>3, ConcatProperties DEF Script

LEMMA OpKinds ==
  ASSUME NEW o \in Ops
  PROVE  /\ Store(o) => o.arg \in AllFlags
         /\ Notify(o) => o.arg \subseteq Waiters
         /\ Close(o) => o.arg \subseteq Poppers
  BY DEF Ops, Op, Store, Notify, Close

LEMMA StopInit == Init => StopInv
<1> SUFFICES ASSUME Init PROVE StopInv
  OBVIOUS
<1>1. main \in 1 .. Len(Script) + 1
  BY ScriptOps, LenProperties DEF Init
<1> QED BY <1>1 DEF Init, StopInv, Typed, Exclusion, OneRound, Labels

\* One more round: the loop condition and the predicates see the flags.
LEMMA WorkerStep ==
  ASSUME StopInv, NEW t \in workers, Step(t)
  PROVE  StopInv'
<1> USE DEF StopInv, Typed, Exclusion, OneRound, Labels, Goto, BeginRound, stop
<1>0. workers \subseteq Threads /\ Waiters \cap (Poppers \cup {Trig}) = {}
  <2>1. Waiters \cap (Poppers \cup {Trig}) = {}
    BY DEF Waiters, Poppers, Captures, Preps, Trig, Bright, Infer, SeamFind, Apply, Prepare
  <2> QED BY <2>1, ShutdownAssumption
<1>1. CASE Check(t)
  <2>1. CASE ~GoesOn(t)
    BY <1>1, <2>1 DEF Check
  <2>2. CASE GoesOn(t)
    <3>1. stopped # AllFlags /\ late[t] = 0
      BY <2>2 DEF GoesOn, AllFlags
    <3>2. CASE t = Trig
      BY <1>1, <2>2, <3>1, <3>2 DEF Check
    <3>3. CASE t # Trig
      <4>1. LoopStart(t) \in {"wait", "nap", "pop"} /\ (LoopStart(t) = "wait" => t \in Waiters)
        BY DEF LoopStart
      <4> QED BY <1>1, <2>2, <3>1, <3>3, <4>1 DEF Check
    <3> QED BY <3>2, <3>3
  <2> QED BY <2>1, <2>2
<1>2. CASE WaitStop(t)
  BY <1>2 DEF WaitStop
<1>3. CASE WaitWork(t)
  <2>1. late[t] = 0 /\ late'[t] \in {0, 1} /\ (late'[t] = 1 => stopped = AllFlags)
    BY <1>3 DEF WaitWork
  <2> QED BY <1>3, <2>1 DEF WaitWork
<1>4. CASE WaitBlock(t)
  BY <1>4 DEF WaitBlock, MutexFree, Peers
<1>5. CASE Sleep(t)
  BY <1>5 DEF Sleep
<1>6. CASE Pop(t)
  <2>1. late[t] = 0
    BY <1>6 DEF Pop
  <2>2. CASE BeginRound(t)
    <3>1. late'[t] \in {0, 1} /\ (late'[t] = 1 => stopped = AllFlags)
      BY <2>1, <2>2
    <3> QED BY <1>6, <2>1, <2>2, <3>1 DEF Pop
  <2>3. CASE Goto(t, "exited") /\ UNCHANGED <<work, late>>
    BY <1>6, <2>3 DEF Pop
  <2> QED BY <1>6, <2>2, <2>3 DEF Pop
<1>7. CASE t = Bright /\ Nap
  BY <1>7 DEF Nap
<1> QED BY <1>1, <1>2, <1>3, <1>4, <1>5, <1>6, <1>7 DEF Step

LEMMA ProduceStep ==
  ASSUME StopInv, NEW t \in workers, Produce(t)
  PROVE  StopInv'
<1> USE DEF StopInv, Typed, Exclusion, OneRound, Labels, Produce, Woken, stop
<1>1. \A u \in workers : pc'[u] = pc[u] \/ (pc[u] = "blocked" /\ pc'[u] = "wait")
  OBVIOUS
<1>2. pc' \in [workers -> Labels]
  OBVIOUS
<1> QED BY <1>1, <1>2

LEMMA MainStopInv ==
  ASSUME StopInv, MainStep
  PROVE  StopInv'
<1> USE DEF StopInv, Typed, Exclusion, OneRound, MainStep
<1> DEFINE o == Script[main]
<1>1. main \in 1 .. Len(Script) /\ main' \in 1 .. Len(Script) + 1
  BY ScriptOps, LenProperties
<1>2. o \in Ops
  BY <1>1, ScriptOps, ElementOfSeq
<1>3. CASE Store(o)
  <2>1. stopped' \subseteq AllFlags /\ stopped \subseteq stopped'
    BY <1>2, <1>3, OpKinds DEF Store
  <2> QED BY <1>1, <1>3, <2>1 DEF Store
<1>4. CASE Notify(o)
  <2>1. /\ pc' \in [workers -> Labels]
        /\ \A u \in workers : pc'[u] = pc[u] \/ (pc[u] = "blocked" /\ pc'[u] = "wait")
    BY <1>4 DEF Notify, Woken, Labels
  <2>2. missed' \subseteq Waiters \cap workers
    BY <1>2, <1>4, OpKinds DEF Notify
  <2> QED BY <1>1, <1>4, <2>1, <2>2 DEF Notify
<1>5. CASE Close(o)
  <2>1. closed' \subseteq Poppers \cap workers
    BY <1>2, <1>5, OpKinds DEF Close
  <2> QED BY <1>1, <1>5, <2>1 DEF Close
<1>6. CASE Join(o)
  BY <1>1, <1>6 DEF Join
<1> QED BY <1>3, <1>4, <1>5, <1>6

LEMMA StopStep == StopInv /\ [Next]_vars => StopInv'
<1> SUFFICES ASSUME StopInv, [Next]_vars PROVE StopInv'
  OBVIOUS
<1>1. CASE UNCHANGED vars
  BY <1>1 DEF vars, stop, StopInv, Typed, Exclusion, OneRound
<1> QED BY <1>1, WorkerStep, ProduceStep, MainStopInv DEF Next

\* For any number of cameras and any team: once the three flags are stored no
\* thread begins more than one more round, and no two capture threads are
\* inside the mutex they share.
THEOREM RoundsAreBounded == Spec => []ShutdownInv
<1>1. StopInv => ShutdownInv
  BY DEF StopInv, Typed, Exclusion, OneRound, ShutdownInv, TypeOK, AtMostOneMoreRound
<1> QED BY <1>1, StopInit, StopStep, PTL DEF Spec

----------------------------------------------------------------------------
(* ConfigFile *)

SafeSpec == ConfigInit /\ [][ConfigNext]_configVars

Critical == {"truncate", "write", "unlock"}

\* The fields of the records, and which values cannot be "none".
Shape ==
  /\ rest = [step |-> rest.step, new |-> rest.new]
  /\ DOMAIN page = Pages
  /\ \A p \in Pages :
       /\ page[p] = [step |-> page[p].step, form |-> page[p].form,
                     changed |-> page[p].changed, read |-> page[p].read]
       /\ page[p].form.net # "none"
       /\ page[p].step \in {"truncate", "write", "netplan"} => page[p].read.net # "none"
  /\ file # Empty => file.net # "none"
  /\ torn \in BOOLEAN /\ raced \in BOOLEAN /\ rescue \in BOOLEAN

\* Under the lock: the file stays as the page read it, and between truncation
\* and write, and only there, it is empty.
Locked ==
  /\ WriterHoldsLock
  /\ file = Empty => torn \/ \E p \in Pages : page[p].step = "write"
  /\ \A p \in Pages :
       /\ page[p].step = "write" => file = Empty
       /\ page[p].step = "truncate" /\ "net" \notin page[p].changed => page[p].read.net = file.net

Helped == \E p \in Pages : page[p].step \in {"helper", "netplan"}
Asking == \E p \in Pages : page[p].step = "unlock" /\ "net" \in page[p].changed

\* n is in 01-netcfg.yaml, or a helper is at work, or none can write.
InNetplan(n) == raced \/ torn \/ ~rescue \/ netplan = n \/ Helped

NetKept ==
  /\ file # Empty => InNetplan(file.net) \/ Asking
  /\ \A p \in Pages :
       page[p].step \in {"truncate", "write"} /\ "net" \notin page[p].changed
         => InNetplan(page[p].read.net)

LifeInv == Shape /\ Locked /\ NetKept
LEMMA LifeInit == ConfigInit => LifeInv
<1> SUFFICES ASSUME ConfigInit PROVE LifeInv
  OBVIOUS
<1>1. file.net # "none" /\ file # Empty
  BY ConfigAssumption DEF ConfigInit, Empty
<1>2. \A p \in Pages : page[p] = NoPage
  BY DEF ConfigInit
<1>3. Shape
  BY <1>1, <1>2 DEF ConfigInit, Shape, NoPage, NoForm, NoRequest
<1>4. Locked
  BY <1>1, <1>2 DEF ConfigInit, Locked, WriterHoldsLock, NoPage, NoRequest
<1>5. NetKept
  BY <1>2 DEF ConfigInit, NetKept, InNetplan, NoPage
<1> QED BY <1>3, <1>4, <1>5 DEF LifeInv

\* While the lock is free nobody is at work under it.
LEMMA NobodyWrites ==
  ASSUME Locked, holder = Nobody \/ holder = "leaked"
  PROVE  rest.step # "write" /\ \A p \in Pages : page[p].step \notin Critical
  BY ConfigAssumption DEF Locked, WriterHoldsLock, Rest, Nobody, Critical

\* Only one page is at work under the lock, and REST is not.
LEMMA OneWriter ==
  ASSUME Locked, NEW p \in Pages, page[p].step \in Critical
  PROVE  /\ rest.step # "write" /\ holder = p
         /\ \A q \in Pages \ {p} : page[q].step \notin Critical
  BY ConfigAssumption DEF Locked, WriterHoldsLock, Rest, Nobody, Critical

LEMMA RestLife ==
  ASSUME LifeInv, Ask \/ RestStep
  PROVE  LifeInv'
<1> USE DEF LifeInv, Shape
<1>1. CASE Ask
  <2>1. UNCHANGED <<file, holder, page, netplan, rescue, torn, raced>> /\ rest'.step # "write" /\ rest.step = "idle"
    BY <1>1 DEF Ask
  <2>2. rest' = [step |-> rest'.step, new |-> rest'.new]
    BY <1>1 DEF Ask
  <2> QED BY <2>1, <2>2 DEF Locked, WriterHoldsLock, NetKept, InNetplan, Helped, Asking
<1>2. CASE Answer
  BY <1>2 DEF Answer, NoRequest, Locked, WriterHoldsLock, NetKept, InNetplan, Helped, Asking
<1>3. CASE AnswerOther
  <2>1. \A p \in Pages : page[p].step \notin Critical
    BY <1>3, NobodyWrites DEF AnswerOther, Free
  <2>2. UNCHANGED <<file, page, netplan, rescue, torn, raced>> /\ rest' = NoRequest
    BY <1>3 DEF AnswerOther
  <2> QED BY <2>1, <2>2 DEF NoRequest, Locked, WriterHoldsLock, NetKept, InNetplan, Helped, Asking, Critical
<1>4. CASE PutTruncate
  <2>1. \A p \in Pages : page[p].step \notin Critical
    BY <1>4, NobodyWrites DEF PutTruncate, Free
  <2>2. UNCHANGED <<page, netplan, rescue, raced>> /\ file' = Empty /\ torn' = TRUE /\ holder' = Rest
    BY <1>4 DEF PutTruncate
  <2>3. rest' = [step |-> rest'.step, new |-> rest'.new]
    BY <1>4 DEF PutTruncate
  <2> QED BY <2>1, <2>2, <2>3 DEF Locked, WriterHoldsLock, NetKept, InNetplan, Helped, Asking, Critical
<1>5. CASE PutFails
  <2>1. \A p \in Pages : page[p].step \notin Critical
    BY <1>5, ConfigAssumption DEF PutFails, Locked, WriterHoldsLock, Critical, Rest
  <2>2. UNCHANGED <<file, page, netplan, rescue, torn, raced>> /\ rest' = NoRequest
    BY <1>5 DEF PutFails
  <2> QED BY <2>1, <2>2 DEF NoRequest, Locked, WriterHoldsLock, NetKept, InNetplan, Helped, Asking, Critical
<1> QED BY <1>1, <1>2, <1>3, <1>4, <1>5 DEF RestStep

\* Every process goes: a page or a helper cut off is a race, an empty file torn.
LEMMA BootLife ==
  ASSUME LifeInv, Boot
  PROVE  LifeInv'
<1> USE DEF LifeInv, Shape
<1>1. \A p \in Pages : page'[p] = NoPage
  BY DEF Boot
<1>2. Shape'
  BY <1>1 DEF Boot, NoPage, NoForm, NoRequest
<1>3. Locked'
  BY <1>1 DEF Boot, NoPage, NoRequest, Locked, WriterHoldsLock
<1>4. NetKept'
  <2> SUFFICES ASSUME file # Empty PROVE InNetplan(file.net)'
    BY <1>1 DEF Boot, NetKept, NoPage
  <2>1. raced' \/ (~Helped /\ ~Asking)
    BY DEF Boot, Helped, Asking
  <2>2. InNetplan(file.net) \/ Asking
    BY DEF NetKept
  <2> QED BY <2>1, <2>2 DEF Boot, InNetplan
<1> QED BY <1>2, <1>3, <1>4

\* What one page does leaves the others where they are.
LEMMA LockLife ==
  ASSUME LifeInv, NEW p \in Pages, PageLock(p)
  PROVE  LifeInv'
<1> USE DEF LifeInv, Shape
<1>0. (\A q \in Pages : page[q].step \notin Critical) /\ rest.step # "write"
  BY NobodyWrites DEF PageLock, Free
<1>1. /\ UNCHANGED <<file, rest, netplan, rescue, torn, raced>> /\ page[p].step = "wait"
      /\ \A q \in Pages \ {p} : page'[q] = page[q]
  BY DEF PageLock
<1>2. CASE page' = [page EXCEPT ![p] = NoPage] /\ UNCHANGED holder
  <2>1. page'[p] = NoPage /\ DOMAIN page' = Pages
    BY <1>2
  <2>2. \A q \in Pages : page'[q].step \notin Critical
    BY <1>0, <1>1, <2>1 DEF NoPage, Critical
  <2>3. Shape'
    BY <1>1, <2>1 DEF NoPage, NoForm
  <2>4. Locked'
    BY <1>0, <1>1, <2>2 DEF Locked, WriterHoldsLock, Critical
  <2>5. (Helped => Helped') /\ (Asking => Asking')
    BY <1>1 DEF Helped, Asking
  <2> QED BY <1>1, <2>2, <2>3, <2>4, <2>5 DEF NetKept, InNetplan, Critical
<1>3. CASE ~(page' = [page EXCEPT ![p] = NoPage] /\ UNCHANGED holder)
  <2> DEFINE f == page[p].form
             n == page'[p].read.net
  <2>1. /\ file # Empty /\ holder' = p
        /\ ~("net" \in Changes(f) /\ f.net = "bad")
        /\ DOMAIN page' = Pages
        /\ page'[p] = [step    |-> IF Changes(f) = {} THEN "unlock" ELSE "truncate",
                       form    |-> NoForm,
                       changed |-> Changes(f),
                       read    |-> [g \in {"stream", "net"} |->
                                      IF g \in Changes(f) THEN f[g] ELSE file[g]]]
    BY <1>3 DEF PageLock
  <2>2. /\ page'[p].step = IF Changes(f) = {} THEN "unlock" ELSE "truncate"
        /\ page'[p].changed = Changes(f) /\ page'[p].form = NoForm
        /\ page'[p].read = [g \in {"stream", "net"} |-> IF g \in Changes(f) THEN f[g] ELSE file[g]]
        /\ page'[p] = [step |-> page'[p].step, form |-> page'[p].form,
                       changed |-> page'[p].changed, read |-> page'[p].read]
        /\ DOMAIN page' = Pages
    BY <2>1
  <2>3. n = IF "net" \in Changes(f) THEN f.net ELSE file.net
    BY <2>2
  <2>4. n # "none"
    BY <2>1, <2>3
  <2>5. Shape'
    BY <1>1, <2>2, <2>4 DEF NoForm
  <2>6. Locked'
    <3>1. page'[p].step \in {"unlock", "truncate"}
      BY <2>2
    <3>2. WriterHoldsLock'
      BY <1>0, <1>1, <2>1, <2>2 DEF WriterHoldsLock, Critical
    <3>3. (file = Empty => torn \/ \E q \in Pages : page[q].step = "write")'
      BY <1>1, <2>1
    <3>4. (\A q \in Pages : page[q].step = "write" => file = Empty)'
      BY <1>0, <1>1, <2>2, <3>1 DEF Critical
    <3>5. page'[p].changed = Changes(f)
      BY <2>2
    <3>6. (\A q \in Pages : page[q].step = "truncate" /\ "net" \notin page[q].changed
                             => page[q].read.net = file.net)'
      BY <1>0, <1>1, <2>2, <2>3, <3>5 DEF Critical
    <3> QED BY <3>2, <3>3, <3>4, <3>6 DEF Locked
  <2>7. (Helped => Helped') /\ ~Asking
    BY <1>0, <1>1 DEF Helped, Asking, Critical
  <2>8. InNetplan(file.net)'
    BY <1>1, <2>1, <2>7 DEF NetKept, InNetplan
  <2> QED BY <1>0, <1>1, <2>2, <2>3, <2>5, <2>6, <2>8 DEF NetKept, InNetplan, Critical
<1> QED BY <1>2, <1>3

\* A step of page p that changes its step only.
PageGoes(p, s) == page' = [page EXCEPT ![p].step = s]

LEMMA PageGoesOn ==
  ASSUME Shape, NEW p \in Pages, NEW s, PageGoes(p, s)
  PROVE  /\ DOMAIN page' = Pages /\ \A q \in Pages \ {p} : page'[q] = page[q]
         /\ page'[p] = [step |-> s, form |-> page[p].form, changed |-> page[p].changed,
                        read |-> page[p].read]
  BY DEF Shape, PageGoes

LEMMA WriterLife ==
  ASSUME LifeInv, NEW p \in Pages, PageTruncate(p) \/ PageWrite(p) \/ PageUnlock(p)
  PROVE  LifeInv'
<1> USE DEF LifeInv
<1>0. /\ rest.step # "write" /\ holder = p
      /\ \A q \in Pages \ {p} : page[q].step \notin Critical
  BY OneWriter DEF PageTruncate, PageWrite, PageUnlock, Critical
<1>1. CASE PageTruncate(p)
  <2>1. /\ page[p].step = "truncate" /\ file' = Empty
        /\ UNCHANGED <<holder, rest, netplan, rescue, torn, raced>> /\ PageGoes(p, "write")
    BY <1>1 DEF PageTruncate, PageGoes
  <2>2. /\ DOMAIN page' = Pages /\ \A q \in Pages \ {p} : page'[q] = page[q]
        /\ page'[p] = [step |-> "write", form |-> page[p].form, changed |-> page[p].changed,
                       read |-> page[p].read]
    BY <2>1, PageGoesOn
  <2>3. Shape'
    BY <2>1, <2>2 DEF Shape
  <2>4. Locked'
    BY <1>0, <2>1, <2>2 DEF Locked, WriterHoldsLock, Critical
  <2>5. Helped => Helped'
    BY <2>1, <2>2 DEF Helped
  <2> QED BY <1>0, <2>1, <2>2, <2>3, <2>4, <2>5 DEF NetKept, InNetplan, Critical
<1>2. CASE PageWrite(p)
  <2>1. /\ page[p].step = "write" /\ file' = page[p].read
        /\ UNCHANGED <<holder, rest, netplan, rescue, torn, raced>> /\ PageGoes(p, "unlock")
    BY <1>2 DEF PageWrite, PageGoes
  <2>2. /\ DOMAIN page' = Pages /\ \A q \in Pages \ {p} : page'[q] = page[q]
        /\ page'[p] = [step |-> "unlock", form |-> page[p].form, changed |-> page[p].changed,
                       read |-> page[p].read]
    BY <2>1, PageGoesOn
  <2>3. page[p].read.net # "none" /\ page[p].read # Empty
    BY <2>1 DEF Shape, Empty
  <2>4. Shape'
    BY <2>1, <2>2, <2>3 DEF Shape
  <2>5. Locked'
    BY <1>0, <2>1, <2>2, <2>3 DEF Locked, WriterHoldsLock, Critical
  <2>6. Helped => Helped'
    BY <2>1, <2>2 DEF Helped
  <2>7. InNetplan(file.net)' \/ Asking'
    <3>1. CASE "net" \in page[p].changed
      BY <2>2, <3>1 DEF Asking
    <3>2. CASE "net" \notin page[p].changed
      BY <2>1, <2>6, <3>2 DEF NetKept, InNetplan
    <3> QED BY <3>1, <3>2
  <2> QED BY <1>0, <2>1, <2>2, <2>4, <2>5, <2>7 DEF NetKept, Critical
<1>3. CASE PageUnlock(p)
  <2> DEFINE s == IF "net" \in page[p].changed THEN "helper" ELSE "restart"
  <2>1. /\ page[p].step = "unlock" /\ holder' = Nobody
        /\ UNCHANGED <<file, rest, netplan, rescue, torn, raced>>
    BY <1>3 DEF PageUnlock
  <2>2. /\ DOMAIN page' = Pages /\ \A q \in Pages \ {p} : page'[q] = page[q]
        /\ page'[p] = [step |-> s, form |-> NoForm, changed |-> {}, read |-> Empty]
    BY <1>3 DEF PageUnlock, NoPage, Shape
  <2>3. Shape'
    BY <2>1, <2>2 DEF Shape, NoForm
  <2>4. \A q \in Pages : page'[q].step \notin Critical
    BY <1>0, <2>2 DEF Critical
  <2>5. Locked'
    BY <1>0, <2>1, <2>2, <2>4 DEF Locked, WriterHoldsLock, Critical
  <2>6. InNetplan(file.net)' \/ file = Empty
    <3>1. CASE "net" \in page[p].changed
      BY <2>2, <3>1 DEF InNetplan, Helped
    <3>2. CASE "net" \notin page[p].changed
      <4>1. ~Asking
        BY <1>0, <3>2 DEF Asking, Critical
      <4>2. Helped => Helped'
        BY <2>1, <2>2 DEF Helped
      <4> QED BY <2>1, <4>1, <4>2 DEF NetKept, InNetplan
    <3> QED BY <3>1, <3>2
  <2> QED BY <2>1, <2>3, <2>4, <2>5, <2>6 DEF NetKept, Critical
<1> QED BY <1>1, <1>2, <1>3

\* The lock is free: an empty file is then a torn one, and no page relies on it.
LEMMA HelperReads ==
  ASSUME LifeInv, NEW p \in Pages, HelperRead(p)
  PROVE  LifeInv'
<1> USE DEF LifeInv
<1>0. (\A q \in Pages : page[q].step \notin Critical) /\ rest.step # "write"
  BY NobodyWrites DEF HelperRead, Free
<1>1. /\ page[p].step = "helper" /\ DOMAIN page' = Pages
      /\ UNCHANGED <<file, holder, rest, netplan, rescue, torn, raced>>
      /\ \A q \in Pages \ {p} : page'[q] = page[q]
      /\ page'[p] = [step |-> IF file = Empty THEN "reboot" ELSE "netplan",
                     form |-> NoForm, changed |-> {}, read |-> file]
  BY DEF HelperRead, NoPage, Shape
<1>2. file = Empty => torn
  BY <1>0 DEF Locked, Critical
<1>3. \A q \in Pages : page'[q].step \notin Critical
  BY <1>0, <1>1 DEF Critical
<1>4. Shape'
  BY <1>1 DEF Shape, NoForm
<1>5. Locked'
  BY <1>0, <1>1, <1>2, <1>3 DEF Locked, WriterHoldsLock, Critical
<1>6. file # Empty => Helped'
  BY <1>1 DEF Helped
<1> QED BY <1>1, <1>3, <1>4, <1>5, <1>6 DEF NetKept, InNetplan, Critical

\* What the helper writes is the file's network, unless a page has changed
\* the file since the helper read it: that is a race.
LEMMA HelperWrites ==
  ASSUME LifeInv, NEW p \in Pages, HelperWrite(p)
  PROVE  LifeInv'
<1> USE DEF LifeInv
<1> DEFINE n == page[p].read.net
<1>1. /\ page[p].step = "netplan" /\ UNCHANGED <<file, holder, rest, rescue, torn>>
      /\ raced' \in BOOLEAN /\ (raced => raced')
      /\ rescue => netplan' = n /\ raced' = (raced \/ file.net # n)
  BY DEF HelperWrite, Written, Shape
<1>2. /\ DOMAIN page' = Pages /\ \A q \in Pages \ {p} : page'[q] = page[q]
      /\ page'[p] = [step |-> "reboot", form |-> NoForm, changed |-> {}, read |-> Empty]
  BY DEF HelperWrite, NoPage, Shape
<1>3. Shape'
  BY <1>1, <1>2 DEF Shape, NoForm
<1>4. Locked'
  BY <1>1, <1>2 DEF Locked, WriterHoldsLock
<1>5. InNetplan(file.net)'
  BY <1>1 DEF InNetplan
<1>6. file.net = n \/ raced' \/ ~rescue
  BY <1>1
<1>7. ASSUME NEW q \in Pages, page'[q].step \in {"truncate", "write"}, "net" \notin page'[q].changed
      PROVE  InNetplan(page[q].read.net)'
  <2>1. q # p /\ page'[q] = page[q]
    BY <1>2, <1>7
  <2>2. CASE page[q].step = "truncate"
    <3>1. page[q].read.net = file.net
      BY <1>7, <2>1, <2>2 DEF Locked
    <3>2. raced' \/ ~rescue' \/ netplan' = page'[q].read.net
      BY <1>1, <1>6, <2>1, <3>1
    <3> QED BY <3>2 DEF InNetplan
  <2>3. CASE page[q].step = "write"
    <3>1. file = Empty
      BY <2>3 DEF Locked
    <3>2. file.net # n
      BY <1>1, <3>1 DEF Shape, Empty
    <3> QED BY <1>1, <1>6, <3>2 DEF InNetplan
  <2> QED BY <1>7, <2>1, <2>2, <2>3
<1> QED BY <1>3, <1>4, <1>5, <1>7 DEF NetKept

\* A page that is not at work under the lock, nor helping, may become anything
\* that is neither.
LEMMA IdlePage ==
  ASSUME LifeInv, NEW p \in Pages, NEW r, page' = [page EXCEPT ![p] = r],
         r = [step |-> r.step, form |-> r.form, changed |-> r.changed, read |-> r.read],
         r.form.net # "none", {page[p].step, r.step} \subseteq {"idle", "wait", "restart"},
         UNCHANGED <<file, holder, rest, netplan, rescue, torn, raced>>
  PROVE  LifeInv'
<1> USE DEF LifeInv
<1>1. DOMAIN page' = Pages /\ page'[p] = r /\ \A q \in Pages \ {p} : page'[q] = page[q]
  BY DEF Shape
<1>2. Shape'
  BY <1>1 DEF Shape
<1>3. Locked'
  BY <1>1 DEF Locked, WriterHoldsLock
<1>4. (Helped => Helped') /\ (Asking => Asking')
  BY <1>1 DEF Helped, Asking
<1> QED BY <1>1, <1>2, <1>3, <1>4 DEF NetKept, InNetplan

LEMMA LifeStep == LifeInv /\ [ConfigNext]_configVars => LifeInv'
<1> SUFFICES ASSUME LifeInv, [ConfigNext]_configVars PROVE LifeInv'
  OBVIOUS
<1>1. CASE Unit \/ IntervalEnds \/ UNCHANGED configVars
  BY <1>1 DEF Unit, Launch, ServerStart, IntervalEnds, configVars, LifeInv, Shape, Locked, WriterHoldsLock,
              NetKept, InNetplan, Helped, Asking
<1>2. ASSUME NEW p \in Pages, Send(p) PROVE LifeInv'
  <2>1. PICK f \in [stream : Streams, net : Networks] :
          page' = [page EXCEPT ![p] = [step |-> "wait", form |-> f, changed |-> {}, read |-> Empty]]
    BY <1>2 DEF Send
  <2>2. f.net # "none"
    BY ConfigAssumption
  <2>3. page[p].step = "idle" /\ UNCHANGED <<file, holder, rest, netplan, rescue, torn, raced>>
    BY <1>2 DEF Send
  <2> QED BY <2>1, <2>2, <2>3, IdlePage
<1>3. ASSUME NEW p \in Pages, Restart(p) PROVE LifeInv'
  BY <1>3, IdlePage DEF Restart, NoPage, NoForm
<1>4. CASE PowerCut \/ \E p \in Pages : Reboot(p)
  BY <1>4, BootLife DEF PowerCut, Reboot
<1> QED BY <1>1, <1>2, <1>3, <1>4, RestLife, LockLife, WriterLife, HelperReads, HelperWrites
        DEF ConfigNext, PageStep

\* For any number of pages, values, requests and power cuts: the file has one
\* writer at a time, is whole when the lock is free unless a PUT or a power cut
\* emptied it, and the network settings follow it unless two helpers race.
THEOREM ConfigIsSafe == SafeSpec => []ConfigInv
<1>1. ASSUME LifeInv PROVE ConfigInv
  <2> USE <1>1 DEF LifeInv
  <2>1. WriterHoldsLock
    BY DEF Locked
  <2>2. NobodySeesHalfAFile
    BY NobodyWrites DEF NobodySeesHalfAFile, Free, Locked, Critical
  <2>3. NetplanFollows
    <3>1. CASE file = Empty
      BY <3>1 DEF NetplanFollows
    <3>2. CASE Asking
      BY <3>2 DEF NetplanFollows, Asking
    <3>3. CASE InNetplan(file.net)
      BY <3>3, Zenon DEF NetplanFollows, InNetplan, Helped
    <3> QED BY <3>1, <3>2, <3>3 DEF NetKept
  <2> QED BY <2>1, <2>2, <2>3 DEF ConfigInv
<1> QED BY <1>1, LifeInit, LifeStep, PTL DEF SafeSpec

----------------------------------------------------------------------------
(* FirmwareInstall *)

FwSpec == FwInit /\ [][FwNext]_fwVars

Versions == Updates \cup {Installed, Half}
Steps    == {"sent", "refused", "write", "rename", "restart", "done", "failed"}

FwType ==
  /\ bin \in [Programs -> Versions] /\ running \in [Programs -> Versions]
  /\ update \in [Updates -> [step : Steps, at : Programs]]
  /\ staged \in [Updates -> [Programs -> Versions]]
  /\ faults \in Nat /\ overlap \in BOOLEAN /\ full \in BOOLEAN

\* Without a full directory each update has staged its own programs.
StagedInv == full \/ \A u \in Updates, i \in Programs : staged[u][i] = u

OneAtWork == overlap \/ \A u, v \in Updates : Busy(u) /\ Busy(v) => u = v

Copying(u) == update[u].step \in {"write", "rename"}

\* What the update at work has installed by now.
Progress ==
  overlap \/ full \/ \A u \in Updates :
    /\ Copying(u) /\ update[u].at = 2 => bin[1] = u
    /\ At(u, "restart") => bin[1] = u /\ bin[2] = u

\* Before its first program and after its second both belong together.
Together ==
  faults = 0 =>
    /\ ~full
    /\ overlap \/ (\E u \in Updates : Copying(u) /\ update[u].at = 2) \/ bin[1] = bin[2]

RestartsToCome ==
  faults = 0 => \A i \in Programs :
    running[i] = bin[i] \/ \E u \in Updates : Copying(u) \/ (At(u, "restart") /\ update[u].at <= i)

WholeInv == full \/ \A i \in Programs : bin[i] # Half

FwInv == FwType /\ StagedInv /\ OneAtWork /\ Progress /\ Together /\ RestartsToCome /\ WholeInv

LEMMA FwTypeInit == FwInit => FwType
<1> SUFFICES ASSUME FwInit PROVE FwType
  OBVIOUS
<1>1. bin \in [Programs -> Versions] /\ running \in [Programs -> Versions]
  BY DEF FwInit, Versions
<1>2. update \in [Updates -> [step : Steps, at : Programs]]
  BY DEF FwInit, Steps, Programs
<1>3. staged \in [Updates -> [Programs -> Versions]]
  <2>1. \A u \in Updates : [i \in Programs |-> u] \in [Programs -> Versions]
    BY DEF Versions
  <2> QED BY <2>1 DEF FwInit
<1> QED BY <1>1, <1>2, <1>3 DEF FwInit, FwType

LEMMA FwTypeStep == FwType /\ [FwNext]_fwVars => FwType'
<1> SUFFICES ASSUME FwType, [FwNext]_fwVars PROVE FwType'
  OBVIOUS
<1> USE DEF FwType, Versions, Steps, Programs, UpdateGoes, At
<1>1. CASE PowerGoes
  BY <1>1 DEF PowerGoes, Busy
<1>2. ASSUME NEW i \in Programs, ComesBack(i) PROVE FwType'
  BY <1>2 DEF ComesBack
<1>3. ASSUME NEW u \in Updates, Verify(u) PROVE FwType'
  <2>1. CASE UpdateGoes(u, "refused", 1) /\ UNCHANGED overlap
    BY <1>3, <2>1 DEF Verify
  <2>2. CASE UpdateGoes(u, "write", 1) /\ overlap' = (overlap \/ \E v \in Updates : Busy(v))
    <3>1. overlap' \in BOOLEAN
      BY <2>2
    <3> QED BY <1>3, <2>2, <3>1 DEF Verify
  <2> QED BY <1>3, <2>1, <2>2 DEF Verify
<1>4. ASSUME NEW u \in Updates, StagingFull(u) PROVE FwType'
  <2>1. PICK i \in Programs : staged' = [staged EXCEPT ![u][i] = Half]
    BY <1>4 DEF StagingFull
  <2>2. staged' \in [Updates -> [Programs -> Versions]]
    BY <2>1
  <2> QED BY <1>4, <2>2 DEF StagingFull
<1>5. ASSUME NEW u \in Updates, InstallWrite(u) PROVE FwType'
  BY <1>5 DEF InstallWrite, WriteTemp
<1>6. ASSUME NEW u \in Updates, InstallRename(u) PROVE FwType'
  BY <1>6 DEF InstallRename, NextStep
<1>7. ASSUME NEW u \in Updates, InstallFails(u) PROVE FwType'
  BY <1>7 DEF InstallFails
<1>8. ASSUME NEW u \in Updates, RestartService(u) PROVE FwType'
  BY <1>8 DEF RestartService
<1>9. ASSUME NEW u \in Updates, RestartFails(u) PROVE FwType'
  BY <1>9 DEF RestartFails
<1>10. CASE UNCHANGED fwVars
  BY <1>10 DEF fwVars
<1> QED BY <1>1, <1>2, <1>3, <1>4, <1>5, <1>6, <1>7, <1>8, <1>9, <1>10 DEF FwNext

LEMMA FwInitInv == FwInit => FwInv
<1> SUFFICES ASSUME FwInit PROVE FwInv
  OBVIOUS
<1>1. FwType
  BY FwTypeInit
<1>2. \A u \in Updates : update[u].step = "sent"
  BY DEF FwInit
<1>3. StagedInv /\ OneAtWork /\ Progress /\ Together
  BY <1>2 DEF FwInit, StagedInv, OneAtWork, Progress, Together, Busy, Copying, At, Programs
<1>4. RestartsToCome /\ WholeInv
  BY DEF FwInit, RestartsToCome, WholeInv, Programs, Installed, Half
<1> QED BY <1>1, <1>3, <1>4 DEF FwInv

\* Nothing is staged twice.
LEMMA StagedStep == FwInv /\ [FwNext]_fwVars => StagedInv'
<1> SUFFICES ASSUME FwInv, [FwNext]_fwVars PROVE StagedInv'
  OBVIOUS
<1>1. full' \/ UNCHANGED <<staged, full>>
  BY DEF FwNext, fwVars, PowerGoes, ComesBack, Verify, StagingFull, InstallWrite, InstallRename,
         InstallFails, RestartService, RestartFails
<1> QED BY <1>1 DEF FwInv, StagedInv

LEMMA WholeStep == FwInv /\ [FwNext]_fwVars => WholeInv'
<1> SUFFICES ASSUME FwInv, [FwNext]_fwVars PROVE WholeInv'
  OBVIOUS
<1> USE DEF FwInv, WholeInv
<1>1. ASSUME NEW u \in Updates, InstallRename(u) PROVE WholeInv'
  <2>1. update[u].at \in Programs /\ bin \in [Programs -> Versions]
    BY DEF FwType
  <2>2. full \/ staged[u][update[u].at] = u
    BY <2>1 DEF StagedInv
  <2>3. u # Half
    BY FirmwareAssumption
  <2> QED BY <1>1, <2>1, <2>2, <2>3 DEF InstallRename
<1>2. CASE UNCHANGED bin /\ (full' \/ UNCHANGED full)
  BY <1>2
<1>3. (\E u \in Updates : InstallRename(u)) \/ (UNCHANGED bin /\ (full' \/ UNCHANGED full))
  BY DEF FwNext, fwVars, PowerGoes, ComesBack, Verify, StagingFull, InstallWrite, WriteTemp,
         InstallFails, RestartService, RestartFails
<1> QED BY <1>1, <1>2, <1>3

\* How one step of the updates relates their states before and after.
LEMMA OneAtWorkStep == FwInv /\ [FwNext]_fwVars => OneAtWork'
<1> SUFFICES ASSUME FwInv, [FwNext]_fwVars PROVE OneAtWork'
  OBVIOUS
<1> USE DEF FwInv, OneAtWork, Busy
<1>0. update \in [Updates -> [step : Steps, at : Programs]]
  BY DEF FwType
<1>1. ASSUME NEW u \in Updates, Verify(u) PROVE OneAtWork'
  <2>1. CASE UpdateGoes(u, "refused", 1) /\ UNCHANGED overlap
    BY <1>0, <2>1 DEF UpdateGoes
  <2>2. CASE UpdateGoes(u, "write", 1) /\ overlap' = (overlap \/ \E v \in Updates : Busy(v))
    <3>1. CASE \E v \in Updates : Busy(v)
      BY <2>2, <3>1
    <3>2. CASE ~ \E v \in Updates : Busy(v)
      BY <1>0, <2>2, <3>2 DEF UpdateGoes
    <3> QED BY <3>1, <3>2
  <2> QED BY <1>1, <2>1, <2>2 DEF Verify
<1>2. ASSUME \A v \in Updates : Busy(v)' => Busy(v), UNCHANGED overlap PROVE OneAtWork'
  BY <1>2
<1>3. CASE PowerGoes
  BY <1>0, <1>2, <1>3 DEF PowerGoes
<1>4. ASSUME NEW i \in Programs, ComesBack(i) PROVE OneAtWork'
  BY <1>2, <1>4 DEF ComesBack
<1>5. ASSUME NEW u \in Updates, StagingFull(u) PROVE OneAtWork'
  BY <1>2, <1>5 DEF StagingFull
<1>6. ASSUME NEW u \in Updates, InstallWrite(u) \/ InstallRename(u) \/ InstallFails(u) PROVE OneAtWork'
  BY <1>0, <1>2, <1>6 DEF InstallWrite, InstallRename, InstallFails, UpdateGoes, At
<1>7. ASSUME NEW u \in Updates, RestartService(u) \/ RestartFails(u) PROVE OneAtWork'
  BY <1>0, <1>2, <1>7 DEF RestartService, RestartFails, UpdateGoes, At
<1>8. CASE UNCHANGED fwVars
  BY <1>8 DEF fwVars
<1> QED BY <1>1, <1>3, <1>4, <1>5, <1>6, <1>7, <1>8 DEF FwNext

\* Only the update at work installs, and it installs its own programs in order.
LEMMA ProgressStep == FwInv /\ [FwNext]_fwVars => Progress'
<1> SUFFICES ASSUME FwInv, [FwNext]_fwVars PROVE Progress'
  OBVIOUS
<1> USE DEF FwInv, Progress, Copying, At
<1>0. update \in [Updates -> [step : Steps, at : Programs]] /\ bin \in [Programs -> Versions]
  BY DEF FwType
<1>1. ASSUME NEW u \in Updates, Verify(u) PROVE Progress'
  <2>1. \A v \in Updates : v = u => update'[v].step \in {"refused", "write"} /\ update'[v].at = 1
    BY <1>0, <1>1 DEF Verify, UpdateGoes
  <2>2. \A v \in Updates : v # u => update'[v] = update[v]
    BY <1>0, <1>1 DEF Verify, UpdateGoes
  <2>3. UNCHANGED <<bin, full>>
    BY <1>1 DEF Verify
  <2>4. overlap => overlap'
    BY <1>1, Zenon DEF Verify
  <2> QED BY <2>1, <2>2, <2>3, <2>4
<1>2. CASE PowerGoes
  BY <1>0, <1>2 DEF PowerGoes, Busy
<1>3. ASSUME NEW i \in Programs, ComesBack(i) PROVE Progress'
  BY <1>3 DEF ComesBack
<1>4. ASSUME NEW u \in Updates, StagingFull(u) PROVE Progress'
  BY <1>4 DEF StagingFull
<1>5. ASSUME NEW u \in Updates, InstallWrite(u) PROVE Progress'
  BY <1>0, <1>5 DEF InstallWrite, WriteTemp, UpdateGoes
<1>6. ASSUME NEW u \in Updates, InstallRename(u) PROVE Progress'
  <2> SUFFICES ASSUME ~overlap', ~full', NEW v \in Updates
               PROVE  /\ (Copying(v) /\ update[v].at = 2 => bin[1] = v)'
                      /\ (At(v, "restart") => bin[1] = v /\ bin[2] = v)'
    OBVIOUS
  <2>1. ~overlap /\ ~full
    BY <1>6 DEF InstallRename
  <2>2. CASE v # u
    <3>1. Busy(u) /\ update'[v] = update[v]
      BY <1>0, <1>6, <2>2 DEF Busy, InstallRename, UpdateGoes
    <3>2. ~Busy(v)
      BY <2>1, <2>2, <3>1 DEF OneAtWork
    <3> QED BY <3>1, <3>2 DEF Busy
  <2>3. CASE v = u /\ update[u].at = 1
    <3>1. staged[u][1] = u /\ bin' = [bin EXCEPT ![1] = staged[u][1]]
      BY <1>6, <2>1, <2>3 DEF InstallRename, StagedInv, Programs
    <3>2. update'[u] = [step |-> "write", at |-> 2]
      BY <1>0, <1>6, <2>3 DEF InstallRename, NextStep, UpdateGoes
    <3> QED BY <1>0, <2>3, <3>1, <3>2 DEF Programs
  <2>4. CASE v = u /\ update[u].at = 2
    <3>1. staged[u][2] = u /\ bin' = [bin EXCEPT ![2] = staged[u][2]]
      BY <1>6, <2>1, <2>4 DEF InstallRename, StagedInv, Programs
    <3>2. bin[1] = u
      BY <1>6, <2>1, <2>4 DEF InstallRename
    <3>3. update'[u] = [step |-> "restart", at |-> 1]
      BY <1>0, <1>6, <2>4 DEF InstallRename, NextStep, UpdateGoes
    <3> QED BY <1>0, <2>4, <3>1, <3>2, <3>3 DEF Programs
  <2> QED BY <1>0, <2>2, <2>3, <2>4 DEF Programs
<1>7. ASSUME NEW u \in Updates, InstallFails(u) PROVE Progress'
  BY <1>0, <1>7 DEF InstallFails, UpdateGoes
<1>8. ASSUME NEW u \in Updates, RestartService(u) PROVE Progress'
  BY <1>0, <1>8 DEF RestartService, UpdateGoes
<1>9. ASSUME NEW u \in Updates, RestartFails(u) PROVE Progress'
  BY <1>0, <1>9 DEF RestartFails, UpdateGoes
<1>10. CASE UNCHANGED fwVars
  BY <1>10 DEF fwVars
<1> QED BY <1>1, <1>2, <1>3, <1>4, <1>5, <1>6, <1>7, <1>8, <1>9, <1>10 DEF FwNext

\* No failure yet: a step raised the count of faults, or it was none of those.
LEMMA TogetherStep == FwInv /\ [FwNext]_fwVars => Together'
<1> SUFFICES ASSUME FwInv, [FwNext]_fwVars, faults' = 0 PROVE Together'
  BY DEF Together
<1> USE DEF FwInv, Together, Copying, At
<1>0. /\ update \in [Updates -> [step : Steps, at : Programs]] /\ bin \in [Programs -> Versions]
      /\ faults \in Nat
  BY DEF FwType
<1>1. faults = 0 /\ ~full /\ ~full'
  BY <1>0 DEF FwNext, fwVars, PowerGoes, ComesBack, Verify, StagingFull, InstallWrite, InstallRename,
              InstallFails, RestartService, RestartFails
<1>2. ASSUME UNCHANGED bin, overlap => overlap',
             \A v \in Updates : update[v].step \in {"write", "rename"} =>
               update'[v].step \in {"write", "rename"} /\ update'[v].at = update[v].at
      PROVE Together'
  BY <1>1, <1>2
<1>3. ASSUME NEW i \in Programs, ComesBack(i) PROVE Together'
  BY <1>2, <1>3 DEF ComesBack
<1>4. ASSUME NEW u \in Updates, Verify(u) PROVE Together'
  BY <1>0, <1>2, <1>4 DEF Verify, UpdateGoes
<1>5. ASSUME NEW u \in Updates, InstallWrite(u) PROVE Together'
  BY <1>0, <1>2, <1>5 DEF InstallWrite, WriteTemp, UpdateGoes
<1>6. ASSUME NEW u \in Updates, InstallRename(u) PROVE Together'
  <2> SUFFICES ASSUME ~overlap' PROVE (\E v \in Updates : Copying(v) /\ update[v].at = 2)' \/ bin'[1] = bin'[2]
    BY <1>1
  <2>1. ~overlap
    BY <1>6 DEF InstallRename
  <2>2. CASE update[u].at = 1
    BY <1>0, <1>6, <2>2 DEF InstallRename, NextStep, UpdateGoes
  <2>3. CASE update[u].at = 2
    <3>1. bin[1] = u
      BY <1>1, <1>6, <2>1, <2>3 DEF InstallRename, Progress
    <3>2. staged[u][2] = u
      BY <1>1 DEF StagedInv, Programs
    <3>3. bin' = [bin EXCEPT ![2] = u]
      BY <1>6, <2>3, <3>2 DEF InstallRename
    <3> QED BY <1>0, <3>1, <3>3 DEF Programs
  <2> QED BY <1>0, <2>2, <2>3 DEF Programs
<1>7. ASSUME NEW u \in Updates, RestartService(u) PROVE Together'
  BY <1>0, <1>2, <1>7 DEF RestartService, UpdateGoes
<1>8. CASE UNCHANGED fwVars
  BY <1>2, <1>8 DEF fwVars
<1>9. ~PowerGoes /\ \A u \in Updates : ~StagingFull(u) /\ ~InstallFails(u) /\ ~RestartFails(u)
  BY <1>0, <1>1 DEF PowerGoes, StagingFull, InstallFails, RestartFails
<1> QED BY <1>3, <1>4, <1>5, <1>6, <1>7, <1>8, <1>9 DEF FwNext

\* u will still restart the service of program i.
ComesTo(u, i) == Copying(u) \/ (At(u, "restart") /\ update[u].at <= i)

LEMMA RestartsStep == FwInv /\ [FwNext]_fwVars => RestartsToCome'
<1> SUFFICES ASSUME FwInv, [FwNext]_fwVars, faults' = 0, NEW i \in Programs
             PROVE  running'[i] = bin'[i] \/ \E u \in Updates : ComesTo(u, i)'
  BY DEF RestartsToCome, ComesTo
<1> USE DEF FwInv, Copying, At
<1>0. /\ update \in [Updates -> [step : Steps, at : Programs]] /\ faults \in Nat
      /\ bin \in [Programs -> Versions] /\ running \in [Programs -> Versions]
  BY DEF FwType
<1>1. faults = 0
  BY <1>0 DEF FwNext, fwVars, PowerGoes, ComesBack, Verify, StagingFull, InstallWrite, InstallRename,
              InstallFails, RestartService, RestartFails
<1>2. running[i] = bin[i] \/ \E u \in Updates : ComesTo(u, i)
  BY <1>1 DEF RestartsToCome, ComesTo
<1>3. ASSUME UNCHANGED <<bin, running>>, \A v \in Updates : ComesTo(v, i) => ComesTo(v, i)'
      PROVE  running'[i] = bin'[i] \/ \E u \in Updates : ComesTo(u, i)'
  BY <1>2, <1>3
<1>4. ASSUME NEW j \in Programs, ComesBack(j) PROVE running'[i] = bin'[i] \/ \E u \in Updates : ComesTo(u, i)'
  <2>1. UNCHANGED update /\ running' = [running EXCEPT ![j] = bin[j]] /\ bin' = bin
    BY <1>4 DEF ComesBack
  <2> QED BY <1>0, <1>2, <2>1 DEF ComesTo
<1>5. ASSUME NEW u \in Updates, Verify(u) PROVE running'[i] = bin'[i] \/ \E w \in Updates : ComesTo(w, i)'
  BY <1>0, <1>3, <1>5 DEF Verify, UpdateGoes, ComesTo
<1>6. ASSUME NEW u \in Updates, InstallWrite(u) PROVE running'[i] = bin'[i] \/ \E w \in Updates : ComesTo(w, i)'
  BY <1>0, <1>3, <1>6 DEF InstallWrite, WriteTemp, UpdateGoes, ComesTo
<1>7. ASSUME NEW u \in Updates, InstallRename(u) PROVE running'[i] = bin'[i] \/ \E w \in Updates : ComesTo(w, i)'
  <2>1. update'[u].step = "write" \/ (update'[u].step = "restart" /\ update'[u].at = 1)
    BY <1>0, <1>7 DEF InstallRename, NextStep, UpdateGoes, Programs
  <2> QED BY <2>1 DEF ComesTo, Programs
<1>8. ASSUME NEW u \in Updates, RestartService(u) PROVE running'[i] = bin'[i] \/ \E w \in Updates : ComesTo(w, i)'
  <2>1. CASE i = update[u].at
    BY <1>0, <1>8, <2>1 DEF RestartService
  <2>2. CASE i # update[u].at
    <3>1. UNCHANGED bin /\ running'[i] = running[i]
      BY <1>0, <1>8, <2>2 DEF RestartService
    <3>2. \A v \in Updates : v # u => update'[v] = update[v]
      BY <1>0, <1>8 DEF RestartService, UpdateGoes
    <3>3. ComesTo(u, i) => ComesTo(u, i)'
      BY <1>0, <1>8, <2>2 DEF RestartService, UpdateGoes, ComesTo, Programs
    <3> QED BY <1>2, <3>1, <3>2, <3>3 DEF ComesTo
  <2> QED BY <2>1, <2>2
<1>9. CASE UNCHANGED fwVars
  BY <1>3, <1>9 DEF fwVars, ComesTo
<1>10. ~PowerGoes /\ \A u \in Updates : ~StagingFull(u) /\ ~InstallFails(u) /\ ~RestartFails(u)
  BY <1>0, <1>1 DEF PowerGoes, StagingFull, InstallFails, RestartFails
<1> QED BY <1>4, <1>5, <1>6, <1>7, <1>8, <1>9, <1>10 DEF FwNext

\* Every reachable state satisfies FwInv.
THEOREM FwInvariant == FwSpec => []FwInv
<1>1. FwInit => FwInv
  BY FwInitInv
<1>2. FwInv /\ [FwNext]_fwVars => FwInv'
  <2> SUFFICES ASSUME FwInv, [FwNext]_fwVars PROVE FwInv'
    OBVIOUS
  <2>1. FwType'
    BY FwTypeStep DEF FwInv
  <2> QED BY <2>1, StagedStep, OneAtWorkStep, ProgressStep, TogetherStep, RestartsStep, WholeStep DEF FwInv
<1> QED BY <1>1, <1>2, PTL DEF FwSpec

\* The invariant is what the updates promise of each state, ...
LEMMA InvPromises == FwInv => ProgramsAreWhole /\ UpdateIsComplete
<1> SUFFICES ASSUME FwInv PROVE ProgramsAreWhole /\ UpdateIsComplete
  OBVIOUS
<1>1. ProgramsAreWhole
  BY DEF FwInv, WholeInv, ProgramsAreWhole
<1>2. ASSUME \A u \in Updates : ~Busy(u), faults = 0 PROVE running = bin /\ (overlap \/ bin[1] = bin[2])
  <2>1. \A u \in Updates : ~Copying(u) /\ ~At(u, "restart")
    BY <1>2 DEF Busy, Copying, At
  <2>2. \A i \in Programs : running[i] = bin[i]
    BY <1>2, <2>1 DEF FwInv, RestartsToCome
  <2>3. bin \in [Programs -> Versions] /\ running \in [Programs -> Versions]
    BY DEF FwInv, FwType
  <2>4. running = bin
    BY <2>2, <2>3
  <2> QED BY <1>2, <2>1, <2>4 DEF FwInv, Together
<1> QED BY <1>1, <1>2 DEF UpdateIsComplete

\* ... and of a step that ends an update with success.
LEMMA SuccessStep ==
  ASSUME FwInv, [FwNext]_fwVars, NEW u \in Updates, At(u, "restart"), update'[u].step = "done"
  PROVE  overlap \/ full \/ \A i \in Programs : bin[i] = u
  BY DEF FwInv, Progress, Programs

\* However many updates are sent and overlap, and whatever fails: no program
\* is ever half there, both belong together when no update is at work, each
\* service runs what is there, and success is reported for both programs only.
THEOREM UpdatesSound == FwSpec => UpdatesAreSound
<1>1. FwInv => ProgramsAreWhole /\ UpdateIsComplete
  BY InvPromises
<1>2. FwInv /\ [FwNext]_fwVars
        => [\A u \in Updates : At(u, "restart") /\ update'[u].step = "done"
              => overlap \/ full \/ \A i \in Programs : bin[i] = u]_fwVars
  BY SuccessStep
<1> QED BY <1>1, <1>2, FwInvariant, PTL DEF FwSpec, UpdatesAreSound, SuccessIsComplete

----------------------------------------------------------------------------
(* Recordings *)

FileOf == [size : Nat, mtime : Nat]

RecTyped ==
  /\ now \in Nat /\ silent \in Nat
  /\ DOMAIN dir \subseteq 0 .. now /\ dir \in [DOMAIN dir -> FileOf]
  /\ recorder = Off \/ recorder.name \in 0 .. now
  /\ recorder \in [name : Int, ran : Nat]
  /\ cleaner \in [step : {"check", "wait", "delete"}, todo : Seq(0 .. now)]
  /\ listed \subseteq 0 .. now

\* A file was begun at the minute of its name and written since; no other was
\* written after the recorder began the one it has open.
Dated ==
  \A n \in DOMAIN dir :
    /\ n <= dir[n].mtime /\ dir[n].mtime <= now
    /\ n # recorder.name /\ recorder # Off => n < recorder.name /\ dir[n].mtime <= recorder.name

\* silent counts the pause that goes on, and has to be long before the open
\* file is listed.
Paused ==
  /\ recorder.name \in DOMAIN dir => now - dir[recorder.name].mtime <= silent
  /\ \A i \in 1 .. Len(cleaner.todo) : cleaner.todo[i] = recorder.name => silent >= MinAge

\* What is older than a file of the list is before it in the list, or gone, or
\* was refused.
InOrder ==
  \A j \in 1 .. Len(cleaner.todo), m \in DOMAIN dir :
    cleaner.todo[j] \in DOMAIN dir /\ Older(m, cleaner.todo[j]) =>
      m \in refused \/ \E i \in 1 .. j - 1 : cleaner.todo[i] = m

\* The round still has before it what it listed and has not dealt with.
Remembered ==
  cleaner.step = "delete" =>
    \A m \in listed \cap DOMAIN dir :
      m \in refused \/ \E i \in 1 .. Len(cleaner.todo) : cleaner.todo[i] = m

Idle == cleaner.step # "delete" => cleaner.todo = <<>>

RecInv == RecTyped /\ Dated /\ Paused /\ InOrder /\ Remembered /\ Idle

----------------------------------------------------------------------------
LEMMA RecInitInv == RecInit => RecInv
<1> SUFFICES ASSUME RecInit PROVE RecInv
  OBVIOUS
<1>1. DOMAIN dir = {} /\ dir \in [DOMAIN dir -> FileOf]
  BY DEF RecInit
<1>2. cleaner.step = "check" /\ cleaner.todo = <<>> /\ <<>> \in Seq(0 .. now) /\ Len(<<>>) = 0
  BY DEF RecInit
<1>3. cleaner \in [step : {"check", "wait", "delete"}, todo : Seq(0 .. now)]
  BY <1>2 DEF RecInit
<1>4. recorder = Off /\ Off \in [name : Int, ran : Nat] /\ now \in Nat /\ silent \in Nat /\ listed = {}
  BY DEF RecInit, Off, None
<1> QED BY <1>1, <1>2, <1>3, <1>4 DEF RecInv, RecTyped, Dated, Paused, InOrder, Remembered, Idle, Off

----------------------------------------------------------------------------
(* What the steps do to the directory *)

\* A file is begun under the name of the minute, in place of any of that name.
LEMMA BeginEffect ==
  ASSUME NEW d, NEW t \in Nat, d \in [DOMAIN d -> FileOf]
  PROVE  /\ DOMAIN Begin(d, t) = DOMAIN d \cup {t}
         /\ Begin(d, t) \in [DOMAIN d \cup {t} -> FileOf]
         /\ Begin(d, t)[t].mtime = t
         /\ \A m \in DOMAIN d \ {t} : Begin(d, t)[m] = d[m]
BY DEF Begin, Put, NameOf, FileOf

LEMMA WriteEffect ==
  ASSUME NEW t \in Nat, dir \in [DOMAIN dir -> FileOf]
  PROVE  /\ DOMAIN Write(dir, t) = DOMAIN dir
         /\ Write(dir, t) \in [DOMAIN dir -> FileOf]
         /\ \A m \in DOMAIN dir : m # recorder.name => Write(dir, t)[m] = dir[m]
         /\ recorder.name \in DOMAIN dir => Write(dir, t)[recorder.name].mtime = t
<1>1. CASE recorder.name \notin DOMAIN dir
  BY <1>1 DEF Write
<1>2. CASE recorder.name \in DOMAIN dir
  <2> DEFINE f == [size |-> dir[recorder.name].size + 1, mtime |-> t]
  <2>1. dir[recorder.name] \in FileOf
    BY <1>2
  <2>2. f \in FileOf /\ f.mtime = t
    BY <2>1 DEF FileOf
  <2>3. Write(dir, t) = [dir EXCEPT ![recorder.name] = f]
    BY <1>2 DEF Write
  <2> HIDE DEF f
  <2> QED BY <1>2, <2>2, <2>3
<1> QED BY <1>1, <1>2

\* The recorder's own file is the newest, before and after it is written.
LEMMA OpenIsNewest ==
  ASSUME RecTyped, Dated, recorder # Off, recorder.name \in DOMAIN dir,
         NEW m \in DOMAIN dir
  PROVE  /\ m # recorder.name => Older(m, recorder.name)
         /\ ~Older(recorder.name, m)
<1>1. m \in Int /\ recorder.name \in Int /\ dir[m].mtime \in Nat /\ dir[recorder.name].mtime \in Nat
  BY DEF RecTyped, FileOf
<1> QED BY <1>1 DEF Dated, Older

----------------------------------------------------------------------------
(* A minute *)

LEMMA MinuteInv ==
  ASSUME RecInv, NEW pause \in BOOLEAN, Minute(pause)
  PROVE  RecInv'
<1> DEFINE t == now + 1
           todo == cleaner.todo
<1>0. /\ t \in Nat /\ now' = t /\ UNCHANGED <<cleaner, listed, refused>>
      /\ now \in Nat /\ 0 .. now \subseteq 0 .. t /\ t \notin 0 .. now
      /\ todo \in Seq(0 .. now) /\ Len(todo) \in Nat /\ \A i \in 1 .. Len(todo) : todo[i] \in 0 .. now
      /\ dir \in [DOMAIN dir -> FileOf] /\ DOMAIN dir \subseteq 0 .. now
      /\ \A n \in DOMAIN dir : dir[n].mtime \in Nat
      /\ MinAge \in Nat /\ silent \in Nat
  <2>1. cleaner \in [step : {"check", "wait", "delete"}, todo : Seq(0 .. now)] /\ now \in Nat
    BY DEF RecInv, RecTyped
  <2>2. todo \in Seq(0 .. now)
    BY <2>1
  <2>3. Len(todo) \in Nat /\ \A i \in 1 .. Len(todo) : todo[i] \in 0 .. now
    BY <2>2, ElementOfSeq, LenProperties
  <2> QED BY <2>1, <2>2, <2>3, RecordingsAssumption DEF RecInv, RecTyped, Minute, FileOf
<1>1. cleaner' \in [step : {"check", "wait", "delete"}, todo : Seq(0 .. now')] /\ listed' \subseteq 0 .. now'
  <2>1. todo \in Seq(0 .. t)
    BY <1>0
  <2> QED BY <1>0, <2>1 DEF RecInv, RecTyped
<1>2. Idle'
  BY <1>0 DEF RecInv, Idle
<1>3. CASE recorder = Off
  <2>1. UNCHANGED <<dir, recorder, silent>> /\ recorder.name = None
    BY <1>3 DEF Minute, Off
  <2>2. None \notin DOMAIN dir /\ \A i \in 1 .. Len(todo) : todo[i] # None
    BY <1>0 DEF None
  <2>3. RecTyped'
    BY <1>0, <1>1, <1>3, <2>1 DEF RecInv, RecTyped
  <2>4. Dated'
    BY <1>0, <1>3, <2>1 DEF RecInv, Dated
  <2>5. Paused'
    BY <1>0, <2>1, <2>2 DEF RecInv, Paused
  <2>6. InOrder' /\ Remembered'
    BY <1>0, <2>1 DEF RecInv, InOrder, Remembered, Older
  <2> QED BY <1>2, <2>3, <2>4, <2>5, <2>6 DEF RecInv
<1>4. CASE recorder # Off /\ pause
  <2>1. /\ UNCHANGED <<dir, recorder>>
        /\ silent' = IF recorder.name \in DOMAIN dir THEN Max({silent, t - dir[recorder.name].mtime}) ELSE silent
    BY <1>4 DEF Minute
  <2>2. silent' \in Nat /\ silent' >= silent
        /\ (recorder.name \in DOMAIN dir => silent' >= t - dir[recorder.name].mtime)
    <3>1. CASE recorder.name \in DOMAIN dir
      <4> DEFINE p == t - dir[recorder.name].mtime
      <4>1. p \in Int
        BY <1>0, <3>1
      <4>2. silent' = Max({silent, p})
        BY <2>1, <3>1
      <4> HIDE DEF p
      <4>3. \E x \in {silent, p} : \A y \in {silent, p} : y <= x
        BY <1>0, <4>1
      <4>4. Max({silent, p}) \in {silent, p} /\ \A y \in {silent, p} : y <= Max({silent, p})
        BY <4>3 DEF Max
      <4>5. silent' \in {silent, p} /\ silent <= silent' /\ p <= silent'
        BY <4>2, <4>4
      <4>6. silent' \in Nat /\ silent' >= silent /\ silent' >= p
        BY <1>0, <4>1, <4>5
      <4> QED BY <3>1, <4>6 DEF p
    <3>2. CASE recorder.name \notin DOMAIN dir
      BY <1>0, <2>1, <3>2
    <3> QED BY <3>1, <3>2
  <2>3. RecTyped'
    BY <1>0, <1>1, <1>4, <2>1, <2>2 DEF RecInv, RecTyped
  <2>4. Dated'
    BY <1>0, <1>4, <2>1 DEF RecInv, Dated
  <2>5. Paused'
    <3>1. recorder'.name \in DOMAIN dir' => now' - dir'[recorder'.name].mtime <= silent'
      BY <1>0, <2>1, <2>2
    <3>2. \A i \in 1 .. Len(todo) : todo[i] = recorder.name => silent >= MinAge
      BY DEF RecInv, Paused
    <3>3. \A i \in 1 .. Len(cleaner'.todo) : cleaner'.todo[i] = recorder'.name => silent' >= MinAge
      BY <1>0, <2>1, <2>2, <3>2
    <3> QED BY <3>1, <3>3 DEF Paused
  <2>6. InOrder' /\ Remembered'
    BY <1>0, <2>1 DEF RecInv, InOrder, Remembered, Older
  <2> QED BY <1>2, <2>3, <2>4, <2>5, <2>6 DEF RecInv
<1>5. CASE recorder # Off /\ ~pause /\ recorder.ran + 1 < Segment
  <2>1. dir' = Write(dir, t) /\ recorder' = [recorder EXCEPT !.ran = @ + 1] /\ UNCHANGED silent
    BY <1>5 DEF Minute
  <2>2. recorder \in [name : Int, ran : Nat] /\ recorder.name \in 0 .. now
    BY <1>5 DEF RecInv, RecTyped
  <2>3. recorder'.name = recorder.name /\ recorder' \in [name : Int, ran : Nat] /\ recorder'.ran # 0
        /\ recorder' # Off
    BY <2>1, <2>2 DEF Off
  <2>4. /\ DOMAIN dir' = DOMAIN dir /\ dir' \in [DOMAIN dir' -> FileOf]
        /\ \A m \in DOMAIN dir : m # recorder.name => dir'[m] = dir[m]
        /\ recorder.name \in DOMAIN dir => dir'[recorder.name].mtime = t
    BY <1>0, <2>1, WriteEffect
  <2>5. RecTyped'
    BY <1>0, <1>1, <2>1, <2>2, <2>3, <2>4 DEF RecInv, RecTyped
  <2>6. Dated'
    BY <1>0, <1>5, <2>2, <2>3, <2>4 DEF RecInv, Dated
  <2>7. Paused'
    BY <1>0, <2>1, <2>3, <2>4 DEF RecInv, Paused
  <2>8. ASSUME NEW j \in 1 .. Len(todo), NEW m \in DOMAIN dir, todo[j] \in DOMAIN dir,
               dir'[m].mtime < dir'[todo[j]].mtime \/ (dir'[m].mtime = dir'[todo[j]].mtime /\ m < todo[j])
        PROVE  Older(m, todo[j])
    <3> DEFINE n == todo[j]
    <3>1. m \in Int /\ n \in Int /\ dir[m].mtime \in Nat /\ dir[n].mtime \in Nat
      BY <1>0, <2>8
    <3>2. CASE m = recorder.name
      <4>1. dir'[m].mtime = t
        BY <2>4, <3>2
      <4>2. n # m => dir'[n].mtime = dir[n].mtime /\ dir[n].mtime <= now /\ n < m
        BY <1>5, <2>4, <2>8, <3>2 DEF RecInv, Dated
      <4>3. n # m => FALSE
        BY <1>0, <2>8, <3>1, <4>1, <4>2
      <4>4. n = m => FALSE
        BY <1>0, <2>8, <3>1, <4>1
      <4> QED BY <4>3, <4>4
    <3>3. CASE m # recorder.name /\ n = recorder.name
      BY <1>5, <2>8, <3>3, OpenIsNewest DEF RecInv
    <3>4. CASE m # recorder.name /\ n # recorder.name
      <4>1. dir'[m] = dir[m] /\ dir'[n] = dir[n]
        BY <2>4, <2>8, <3>4
      <4> QED BY <2>8, <4>1 DEF Older
    <3> QED BY <3>2, <3>3, <3>4
  <2>9. InOrder' /\ Remembered'
    <3>1. InOrder'
      <4> SUFFICES ASSUME NEW j \in 1 .. Len(todo), NEW m \in DOMAIN dir', todo[j] \in DOMAIN dir',
                          dir'[m].mtime < dir'[todo[j]].mtime \/ (dir'[m].mtime = dir'[todo[j]].mtime /\ m < todo[j])
                   PROVE  m \in refused \/ \E i \in 1 .. j - 1 : todo[i] = m
        BY <1>0 DEF InOrder, Older
      <4>1. Older(m, todo[j])
        BY <2>4, <2>8
      <4> QED BY <2>4, <4>1 DEF RecInv, InOrder
    <3> QED BY <1>0, <2>4, <3>1 DEF RecInv, Remembered
  <2> QED BY <1>2, <2>5, <2>6, <2>7, <2>9 DEF RecInv
<1>6. CASE recorder # Off /\ ~pause /\ ~(recorder.ran + 1 < Segment)
  <2> DEFINE d == Write(dir, t)
  <2>1. dir' = Begin(d, t) /\ recorder' = [name |-> t, ran |-> 0] /\ silent' = 0
    BY <1>6 DEF Minute, NameOf
  <2>2. /\ DOMAIN d = DOMAIN dir /\ d \in [DOMAIN dir -> FileOf]
        /\ \A m \in DOMAIN dir : m # recorder.name => d[m] = dir[m]
        /\ recorder.name \in DOMAIN dir => d[recorder.name].mtime = t
    BY <1>0, WriteEffect
  <2> HIDE DEF d
  <2>3. /\ DOMAIN dir' = DOMAIN dir \cup {t} /\ dir' \in [DOMAIN dir' -> FileOf]
        /\ dir'[t].mtime = t
        /\ \A m \in DOMAIN dir \ {t} : dir'[m] = d[m]
    <3>1. d \in [DOMAIN d -> FileOf]
      BY <2>2
    <3>2. /\ DOMAIN Begin(d, t) = DOMAIN d \cup {t}
          /\ Begin(d, t) \in [DOMAIN d \cup {t} -> FileOf]
          /\ Begin(d, t)[t].mtime = t
          /\ \A m \in DOMAIN d \ {t} : Begin(d, t)[m] = d[m]
      BY <1>0, <3>1, BeginEffect
    <3> QED BY <2>1, <2>2, <3>2
  <2>4. recorder'.name = t /\ recorder' # Off /\ recorder' \in [name : Int, ran : Nat]
    BY <1>0, <2>1 DEF Off, None
  <2>5. RecTyped'
    BY <1>0, <1>1, <2>1, <2>3, <2>4 DEF RecInv, RecTyped
  <2>6. \A m \in DOMAIN dir : m # t /\ dir'[m].mtime \in Nat /\ m <= dir'[m].mtime /\ dir'[m].mtime <= t /\ m < t
    <3> SUFFICES ASSUME NEW m \in DOMAIN dir
                 PROVE  m # t /\ dir'[m].mtime \in Nat /\ m <= dir'[m].mtime /\ dir'[m].mtime <= t /\ m < t
      OBVIOUS
    <3>1. m # t /\ m \in 0 .. now /\ dir'[m] = d[m] /\ dir[m].mtime \in Nat
      BY <1>0, <2>3
    <3>2. d[m].mtime = t \/ d[m].mtime = dir[m].mtime
      BY <2>2
    <3>3. m <= dir[m].mtime /\ dir[m].mtime <= now
      BY DEF RecInv, Dated
    <3> QED BY <1>0, <3>1, <3>2, <3>3
  <2>7. Dated'
    BY <1>0, <2>3, <2>4, <2>6 DEF Dated
  <2>8. Paused'
    BY <1>0, <2>1, <2>3, <2>4 DEF Paused
  <2>9. ASSUME NEW j \in 1 .. Len(todo), NEW m \in DOMAIN dir', todo[j] \in DOMAIN dir',
               dir'[m].mtime < dir'[todo[j]].mtime \/ (dir'[m].mtime = dir'[todo[j]].mtime /\ m < todo[j])
        PROVE  m \in DOMAIN dir /\ todo[j] \in DOMAIN dir /\ Older(m, todo[j])
    <3> DEFINE n == todo[j]
    <3>1. n \in 0 .. now /\ n \in DOMAIN dir
      BY <1>0, <2>3, <2>9
    <3>2. m # t
      <4>1. m = t => dir'[m].mtime = t /\ dir'[n].mtime <= t /\ dir'[n].mtime \in Nat /\ n < m
        BY <2>3, <2>6, <3>1
      <4> QED BY <1>0, <2>9, <3>1, <4>1
    <3>3. m \in DOMAIN dir
      BY <2>3, <3>2
    <3>4. dir'[m] = d[m] /\ dir'[n] = d[n] /\ m \in Int /\ n \in Int
          /\ dir[m].mtime \in Nat /\ dir[n].mtime \in Nat
      BY <1>0, <2>3, <3>1, <3>3
    <3>5. CASE m = recorder.name
      <4>1. d[m].mtime = t
        BY <2>2, <3>3, <3>5
      <4>2. n # m => d[n].mtime = dir[n].mtime /\ dir[n].mtime <= now /\ n < m
        BY <1>6, <2>2, <3>1, <3>5 DEF RecInv, Dated
      <4>3. n # m => FALSE
        BY <1>0, <2>9, <3>4, <4>1, <4>2
      <4>4. n = m => FALSE
        BY <1>0, <2>9, <3>4, <4>1
      <4> QED BY <4>3, <4>4
    <3>6. CASE m # recorder.name /\ n = recorder.name
      BY <1>6, <3>1, <3>3, <3>6, OpenIsNewest DEF RecInv
    <3>7. CASE m # recorder.name /\ n # recorder.name
      <4>1. d[m] = dir[m] /\ d[n] = dir[n]
        BY <2>2, <3>1, <3>3, <3>7
      <4> QED BY <2>9, <3>1, <3>3, <3>4, <4>1 DEF Older
    <3> QED BY <3>1, <3>3, <3>5, <3>6, <3>7
  <2>10. InOrder'
    <3> SUFFICES ASSUME NEW j \in 1 .. Len(todo), NEW m \in DOMAIN dir', todo[j] \in DOMAIN dir',
                        dir'[m].mtime < dir'[todo[j]].mtime \/ (dir'[m].mtime = dir'[todo[j]].mtime /\ m < todo[j])
                 PROVE  m \in refused \/ \E i \in 1 .. j - 1 : todo[i] = m
      BY <1>0 DEF InOrder, Older
    <3>1. m \in DOMAIN dir /\ todo[j] \in DOMAIN dir /\ Older(m, todo[j])
      BY <2>9
    <3> QED BY <3>1 DEF RecInv, InOrder
  <2>11. Remembered'
    <3>1. listed \cap DOMAIN dir' \subseteq listed \cap DOMAIN dir
      BY <1>0, <2>3 DEF RecInv, RecTyped
    <3> QED BY <1>0, <3>1 DEF RecInv, Remembered
  <2> QED BY <1>2, <2>5, <2>7, <2>8, <2>10, <2>11 DEF RecInv
<1> QED BY <1>3, <1>4, <1>5, <1>6

----------------------------------------------------------------------------
(* Opening, restarting, users *)

LEMMA OpenInv == ASSUME RecInv, Open PROVE RecInv'
<1>0. /\ now \in Nat /\ UNCHANGED <<now, cleaner, listed, refused>> /\ cleaner.step = "wait"
      /\ cleaner.todo = <<>> /\ Len(cleaner.todo) = 0
      /\ dir \in [DOMAIN dir -> FileOf] /\ DOMAIN dir \subseteq 0 .. now
      /\ \A n \in DOMAIN dir : dir[n].mtime \in Nat
  BY DEF RecInv, RecTyped, Idle, Open, FileOf
<1>1. dir' = Begin(dir, now) /\ recorder' = [name |-> now, ran |-> 0] /\ silent' = 0
  BY DEF Open, NameOf
<1>2. /\ DOMAIN dir' = DOMAIN dir \cup {now} /\ dir' \in [DOMAIN dir' -> FileOf]
      /\ dir'[now].mtime = now /\ \A m \in DOMAIN dir \ {now} : dir'[m] = dir[m]
  BY <1>0, <1>1, BeginEffect
<1>3. recorder'.name = now /\ recorder' \in [name : Int, ran : Nat]
  BY <1>0, <1>1
<1>4. RecTyped'
  BY <1>0, <1>1, <1>2, <1>3 DEF RecInv, RecTyped
<1>5. Dated'
  <2> SUFFICES ASSUME NEW n \in DOMAIN dir'
               PROVE  n <= dir'[n].mtime /\ dir'[n].mtime <= now /\ (n # now => n < now)
    BY <1>0, <1>3 DEF Dated
  <2>1. CASE n = now
    BY <1>0, <1>2, <2>1
  <2>2. CASE n # now
    <3>1. n \in DOMAIN dir /\ dir'[n] = dir[n] /\ n \in 0 .. now
      BY <1>0, <1>2, <2>2
    <3> QED BY <1>0, <2>2, <3>1 DEF RecInv, Dated
  <2> QED BY <2>1, <2>2
<1> QED BY <1>0, <1>1, <1>2, <1>3, <1>4, <1>5 DEF RecInv, Paused, InOrder, Remembered, Idle

LEMMA RestartInv == ASSUME RecInv, RestartRecorder PROVE RecInv'
<1>1. recorder' = Off /\ Off \in [name : Int, ran : Nat] /\ Off.name = None
      /\ UNCHANGED <<now, dir, silent>> /\ listed' = {}
  BY DEF RestartRecorder, Off, None
<1>2. cleaner'.step = "check" /\ cleaner'.todo = <<>> /\ Len(cleaner'.todo) = 0
      /\ cleaner' \in [step : {"check", "wait", "delete"}, todo : Seq(0 .. now)]
  BY DEF RestartRecorder
<1>3. None \notin DOMAIN dir
  BY DEF None, RecInv, RecTyped
<1>4. RecTyped'
  BY <1>1, <1>2 DEF RecInv, RecTyped
<1> QED BY <1>1, <1>2, <1>3, <1>4 DEF RecInv, Dated, Paused, InOrder, Remembered, Idle

LEMMA UnlinkInv ==
  ASSUME RecInv, NEW n \in DOMAIN dir, Unlink(n), UNCHANGED <<now, recorder, silent>>
  PROVE  /\ DOMAIN dir' = DOMAIN dir \ {n} /\ dir' \in [DOMAIN dir' -> FileOf]
         /\ \A m \in DOMAIN dir' : dir'[m] = dir[m]
         /\ Dated' /\ (recorder.name \in DOMAIN dir' => now - dir'[recorder.name].mtime <= silent)
<1>1. dir' = [m \in DOMAIN dir \ {n} |-> dir[m]] /\ dir \in [DOMAIN dir -> FileOf]
  BY DEF Unlink, Without, RecInv, RecTyped
<1>2. DOMAIN dir' = DOMAIN dir \ {n} /\ dir' \in [DOMAIN dir' -> FileOf]
      /\ \A m \in DOMAIN dir' : m \in DOMAIN dir /\ dir'[m] = dir[m]
  BY <1>1
<1>3. Dated'
  BY <1>2 DEF RecInv, Dated
<1>4. recorder.name \in DOMAIN dir' => now - dir'[recorder.name].mtime <= silent
  BY <1>2 DEF RecInv, Paused
<1> QED BY <1>2, <1>3, <1>4

LEMMA UserDeleteInv == ASSUME RecInv, UserDelete PROVE RecInv'
<1>0. UNCHANGED <<now, recorder, cleaner, listed, refused, silent>>
  BY DEF UserDelete
<1>1. PICK n \in DOMAIN dir : Unlink(n)
  BY DEF UserDelete
<1>2. /\ DOMAIN dir' = DOMAIN dir \ {n} /\ dir' \in [DOMAIN dir' -> FileOf]
      /\ \A m \in DOMAIN dir' : dir'[m] = dir[m]
      /\ Dated' /\ (recorder.name \in DOMAIN dir' => now - dir'[recorder.name].mtime <= silent)
  BY <1>0, <1>1, UnlinkInv
<1>3. RecTyped'
  BY <1>0, <1>2 DEF RecInv, RecTyped
<1>4. InOrder'
  BY <1>0, <1>2 DEF RecInv, InOrder, Older
<1> QED BY <1>0, <1>2, <1>3, <1>4 DEF RecInv, Paused, Remembered, Idle

----------------------------------------------------------------------------
(* The cleanup *)

LEMMA CheckFillInv == ASSUME RecInv, CheckFill PROVE RecInv'
<1>0. UNCHANGED <<now, dir, recorder, silent>> /\ refused' = {}
  BY DEF CheckFill
<1> DEFINE old == OldFiles
<1>1. PICK todo \in IF Used < HighWater THEN {<<>>} ELSE Candidates :
        /\ cleaner' = [step |-> IF todo = <<>> THEN "wait" ELSE "delete", todo |-> todo]
        /\ listed' = ToSet(todo)
  BY DEF CheckFill
<1>2. CASE todo = <<>>
  <2>1. cleaner'.todo = <<>> /\ cleaner'.step = "wait" /\ Len(cleaner'.todo) = 0
        /\ cleaner' \in [step : {"check", "wait", "delete"}, todo : Seq(0 .. now)]
    BY <1>1, <1>2
  <2>2. listed' = {}
    BY <1>1, <1>2 DEF ToSet
  <2>3. RecTyped'
    BY <1>0, <2>1, <2>2 DEF RecInv, RecTyped
  <2> QED BY <1>0, <2>1, <2>2, <2>3 DEF RecInv, Dated, Paused, InOrder, Remembered, Idle
<1>3. CASE todo # <<>>
  <2>1. todo \in Candidates
    BY <1>1, <1>3
  <2>2. /\ todo \in [1 .. Cardinality(old) -> old]
        /\ \A x \in old : \E i \in 1 .. Cardinality(old) : todo[i] = x
        /\ \A i, j \in DOMAIN todo : i < j => Older(todo[i], todo[j])
    BY <2>1 DEF Candidates, Bijection, Injection, Surjection
  <2>3. IsFiniteSet(old) /\ Cardinality(old) \in Nat /\ old \subseteq DOMAIN dir /\ old \subseteq 0 .. now
    <3>1. IsFiniteSet(0 .. now)
      <4>1. 0 \in Int /\ now \in Int
        BY DEF RecInv, RecTyped
      <4> QED BY <4>1, FS_Interval
    <3>2. old \subseteq DOMAIN dir /\ DOMAIN dir \subseteq 0 .. now
      BY DEF OldFiles, RecInv, RecTyped
    <3> QED BY <3>1, <3>2, FS_Subset, FS_CardinalityType
  <2>4. todo \in Seq(old) /\ Len(todo) = Cardinality(old) /\ DOMAIN todo = 1 .. Len(todo)
    BY <2>2, <2>3
  <2> HIDE DEF old
  <2>5. todo \in Seq(0 .. now) /\ ToSet(todo) = old
    <3>1. todo \in Seq(0 .. now)
      <4>1. todo \in [1 .. Len(todo) -> 0 .. now] /\ Len(todo) \in Nat
        BY <2>2, <2>3, <2>4
      <4> QED BY <4>1, SeqDef
    <3>2. ToSet(todo) = {todo[i] : i \in 1 .. Cardinality(old)}
      BY <2>4 DEF ToSet
    <3>3. {todo[i] : i \in 1 .. Cardinality(old)} = old
      BY <2>2
    <3> QED BY <3>1, <3>2, <3>3
  <2>6. cleaner'.todo = todo /\ cleaner'.step = "delete"
        /\ cleaner' \in [step : {"check", "wait", "delete"}, todo : Seq(0 .. now)]
    BY <1>1, <1>3, <2>5
  <2>7. RecTyped'
    BY <1>0, <1>1, <2>3, <2>5, <2>6 DEF RecInv, RecTyped
  <2>8. Paused'
    <3> SUFFICES ASSUME NEW i \in 1 .. Len(todo), todo[i] = recorder.name PROVE silent >= MinAge
      BY <1>0, <2>6 DEF RecInv, Paused
    <3>1. recorder.name \in old
      BY <2>2, <2>4
    <3>2. recorder.name \in DOMAIN dir /\ dir[recorder.name].mtime <= now - MinAge
      BY <3>1 DEF old, OldFiles, OldEnough
    <3>3. dir[recorder.name].mtime \in Nat /\ now \in Nat /\ MinAge \in Nat /\ silent \in Nat
      BY <3>2, RecordingsAssumption DEF RecInv, RecTyped, FileOf
    <3> QED BY <3>2, <3>3 DEF RecInv, Paused
  <2>9. InOrder'
    <3> SUFFICES ASSUME NEW j \in 1 .. Len(todo), NEW m \in DOMAIN dir, Older(m, todo[j])
                 PROVE  \E i \in 1 .. j - 1 : todo[i] = m
      BY <1>0, <2>6 DEF InOrder, Older
    <3>1. todo[j] \in old /\ todo[j] \in DOMAIN dir /\ todo[j] \in Int
      BY <2>2, <2>3, <2>4
    <3>2. dir[todo[j]].mtime <= now - MinAge
      BY <3>1 DEF old, OldFiles, OldEnough
    <3>3. m \in Int /\ dir[m].mtime \in Nat /\ dir[todo[j]].mtime \in Nat /\ now \in Nat /\ MinAge \in Nat
      <4>1. \A x \in DOMAIN dir : x \in Int /\ dir[x].mtime \in Nat
        BY DEF RecInv, RecTyped, FileOf
      <4> QED BY <3>1, <4>1, RecordingsAssumption DEF RecInv, RecTyped
    <3>4. dir[m].mtime <= now - MinAge
      BY <3>2, <3>3 DEF Older
    <3>5. m \in old
      BY <3>4 DEF old, OldFiles, OldEnough
    <3>6. PICK i \in 1 .. Len(todo) : todo[i] = m
      BY <2>2, <2>4, <3>5
    <3>7. i # j
      BY <3>1, <3>3, <3>6 DEF Older
    <3>8. ~(j < i)
      <4>1. j < i => Older(todo[j], m)
        BY <2>2, <2>4, <3>6
      <4> QED BY <3>1, <3>3, <4>1 DEF Older
    <3>9. i \in 1 .. j - 1
      BY <2>3, <2>4, <3>6, <3>7, <3>8
    <3> QED BY <3>6, <3>9
  <2>10. Remembered'
    BY <1>0, <1>1, <2>2, <2>4, <2>5, <2>6 DEF Remembered
  <2> QED BY <1>0, <2>6, <2>7, <2>8, <2>9, <2>10 DEF RecInv, Dated, Idle
<1> QED BY <1>2, <1>3

LEMMA WakeInv == ASSUME RecInv, Wake PROVE RecInv'
<1>1. UNCHANGED <<now, dir, recorder, listed, refused, silent>> /\ cleaner.step = "wait"
      /\ cleaner \in [step : {"check", "wait", "delete"}, todo : Seq(0 .. now)] /\ cleaner.todo = <<>>
  BY DEF Wake, RecInv, RecTyped, Idle
<1>2. cleaner' = [cleaner EXCEPT !.step = "check"]
  BY DEF Wake
<1>3. cleaner'.step = "check" /\ cleaner'.todo = cleaner.todo
      /\ cleaner' \in [step : {"check", "wait", "delete"}, todo : Seq(0 .. now)]
  BY <1>1, <1>2
<1> QED BY <1>1, <1>3 DEF RecInv, RecTyped, Dated, Paused, InOrder, Older, Remembered, Idle

LEMMA RoundEndsInv == ASSUME RecInv, RoundEnds PROVE RecInv'
<1>1. UNCHANGED <<now, dir, recorder, listed, refused, silent>>
      /\ cleaner'.step = "wait" /\ cleaner'.todo = <<>> /\ Len(cleaner'.todo) = 0
      /\ cleaner' \in [step : {"check", "wait", "delete"}, todo : Seq(0 .. now)]
  BY DEF RoundEnds
<1> QED BY <1>1 DEF RecInv, RecTyped, Dated, Paused, InOrder, Older, Remembered, Idle

LEMMA DeleteInv == ASSUME RecInv, Delete PROVE RecInv'
<1> DEFINE todo == cleaner.todo
           n == Head(todo)
<1>0. UNCHANGED <<now, recorder, listed, silent>> /\ cleaner.step = "delete" /\ todo # <<>>
  BY DEF Delete
<1>1. cleaner \in [step : {"check", "wait", "delete"}, todo : Seq(0 .. now)]
  BY DEF RecInv, RecTyped
<1>2. cleaner' = [cleaner EXCEPT !.todo = Tail(todo)]
  BY DEF Delete, AfterFailure
<1>3. cleaner'.step = "delete" /\ cleaner'.todo = Tail(todo) /\ todo \in Seq(0 .. now)
  BY <1>0, <1>1, <1>2
<1>4. /\ Tail(todo) \in Seq(0 .. now) /\ Len(todo) \in Nat /\ Len(todo) > 0 /\ Len(Tail(todo)) = Len(todo) - 1
      /\ \A i \in 1 .. Len(Tail(todo)) : i + 1 \in 1 .. Len(todo) /\ Tail(todo)[i] = todo[i + 1]
      /\ n = todo[1]
  <2>1. todo # <<>> /\ todo \in Seq(0 .. now)
    BY <1>0, <1>3
  <2> HIDE DEF todo
  <2> QED BY <2>1, HeadTailProperties
<1>5. cleaner' \in [step : {"check", "wait", "delete"}, todo : Seq(0 .. now)]
  BY <1>1, <1>2, <1>4
<1>6. /\ \/ n \in DOMAIN dir /\ Unlink(n) /\ UNCHANGED refused
         \/ refused' = refused \cup {n} /\ UNCHANGED dir
  BY DEF Delete
<1> HIDE DEF n
<1>7. /\ DOMAIN dir' \subseteq DOMAIN dir /\ dir' \in [DOMAIN dir' -> FileOf]
      /\ \A m \in DOMAIN dir' : dir'[m] = dir[m]
      /\ Dated' /\ (recorder.name \in DOMAIN dir' => now - dir'[recorder.name].mtime <= silent)
      /\ n \in DOMAIN dir' => n \in refused'
      /\ refused \subseteq refused'
  <2>1. CASE n \in DOMAIN dir /\ Unlink(n) /\ UNCHANGED refused
    BY <1>0, <2>1, UnlinkInv
  <2>2. CASE refused' = refused \cup {n} /\ UNCHANGED dir
    BY <1>0, <2>2 DEF RecInv, RecTyped, Dated, Paused
  <2> QED BY <1>6, <2>1, <2>2
<1>8. RecTyped'
  BY <1>0, <1>5, <1>7 DEF RecInv, RecTyped
<1>9. Paused'
  BY <1>0, <1>3, <1>4, <1>7 DEF RecInv, Paused
<1>10. InOrder'
  <2> SUFFICES ASSUME NEW j \in 1 .. Len(Tail(todo)), NEW m \in DOMAIN dir',
                      Tail(todo)[j] \in DOMAIN dir',
                      dir'[m].mtime < dir'[Tail(todo)[j]].mtime
                        \/ (dir'[m].mtime = dir'[Tail(todo)[j]].mtime /\ m < Tail(todo)[j])
               PROVE  m \in refused' \/ \E i \in 1 .. j - 1 : Tail(todo)[i] = m
    BY <1>3 DEF InOrder, Older
  <2>1. j + 1 \in 1 .. Len(todo) /\ Tail(todo)[j] = todo[j + 1]
    BY <1>4
  <2>2. m \in DOMAIN dir /\ todo[j + 1] \in DOMAIN dir /\ Older(m, todo[j + 1])
    BY <1>3, <1>7, <2>1 DEF Older
  <2>3. m \in refused \/ \E i \in 1 .. (j + 1) - 1 : todo[i] = m
    BY <2>1, <2>2 DEF RecInv, InOrder
  <2>4. CASE m \in refused
    BY <1>7, <2>4
  <2>5. ASSUME NEW i \in 1 .. (j + 1) - 1, todo[i] = m
        PROVE  m \in refused' \/ \E k \in 1 .. j - 1 : Tail(todo)[k] = m
    <3>1. CASE i = 1
      BY <1>4, <1>7, <2>5, <3>1
    <3>2. CASE i # 1
      <4>1. i - 1 \in 1 .. j - 1 /\ i - 1 \in 1 .. Len(Tail(todo)) /\ (i - 1) + 1 = i
        BY <1>4, <3>2
      <4>2. Tail(todo)[i - 1] = m
        BY <1>4, <2>5, <4>1
      <4> QED BY <4>1, <4>2
    <3> QED BY <3>1, <3>2
  <2> QED BY <2>3, <2>4, <2>5
<1>11. Remembered'
  <2> SUFFICES ASSUME NEW m \in listed \cap DOMAIN dir'
               PROVE  m \in refused' \/ \E i \in 1 .. Len(Tail(todo)) : Tail(todo)[i] = m
    BY <1>0, <1>3 DEF Remembered
  <2>1. m \in refused \/ \E i \in 1 .. Len(todo) : todo[i] = m
    BY <1>0, <1>7 DEF RecInv, Remembered
  <2>2. ASSUME NEW i \in 1 .. Len(todo), todo[i] = m, m # n
        PROVE  \E k \in 1 .. Len(Tail(todo)) : Tail(todo)[k] = m
    <3>1. i # 1
      BY <1>4, <2>2
    <3>2. i - 1 \in 1 .. Len(Tail(todo)) /\ (i - 1) + 1 = i
      BY <1>4, <3>1
    <3>3. Tail(todo)[i - 1] = m
      BY <1>4, <2>2, <3>2
    <3> QED BY <3>2, <3>3
  <2> QED BY <1>7, <2>1, <2>2
<1> QED BY <1>3, <1>7, <1>8, <1>9, <1>10, <1>11 DEF RecInv, Idle

LEMMA RecStepInv == RecInv /\ [RecNext]_recVars => RecInv'
<1> SUFFICES ASSUME RecInv, [RecNext]_recVars PROVE RecInv'
  OBVIOUS
<1>1. CASE UNCHANGED recVars \/ LastClose
  <2>1. UNCHANGED <<now, dir, recorder, cleaner, listed, refused, silent>>
    BY <1>1 DEF recVars, LastClose
  <2> QED BY <2>1 DEF RecInv, RecTyped, Dated, Paused, InOrder, Older, Remembered, Idle
<1> QED BY <1>1, MinuteInv, OpenInv, RestartInv, UserDeleteInv, CheckFillInv, WakeInv, RoundEndsInv, DeleteInv
        DEF RecNext

----------------------------------------------------------------------------
(* The four promises, each of one step *)

\* Only Delete unlinks for the cleanup, and takes the head of the list.
LEMMA CleansIsDelete ==
  ASSUME RecInv, [RecNext]_recVars, NEW n \in DOMAIN dir, Cleans(n)
  PROVE  Delete /\ n = Head(cleaner.todo)
<1>1. n \notin DOMAIN dir' /\ dir' # dir /\ cleaner' # cleaner
  BY DEF Cleans
<1>2. Delete
  BY <1>1 DEF RecNext, recVars, Open, RestartRecorder, UserDelete, LastClose, Minute, Wake, CheckFill, RoundEnds
<1>3. dir' = Without(Head(cleaner.todo))
  BY <1>1, <1>2 DEF Delete, Unlink
<1>4. DOMAIN dir' = DOMAIN dir \ {Head(cleaner.todo)}
  BY <1>3 DEF Without
<1> QED BY <1>1, <1>2, <1>4

LEMMA RecStep ==
  ASSUME RecInv, [RecNext]_recVars
  PROVE  /\ \A n \in DOMAIN dir : Cleans(n) => \A m \in DOMAIN dir : Older(m, n) => m \in refused
         /\ \A n \in DOMAIN dir : Cleans(n) /\ n = recorder.name => silent >= MinAge
         /\ RoundEnds => Used < HighWater \/ listed \cap DOMAIN dir \subseteq refused
         /\ recorder # Off /\ recorder' \notin {Off, recorder} /\ recorder'.ran = 0
              => recorder'.name \notin DOMAIN dir
<1>0. cleaner.todo \in Seq(0 .. now) /\ Len(cleaner.todo) \in Nat
  <2>1. cleaner \in [step : {"check", "wait", "delete"}, todo : Seq(0 .. now)]
    BY DEF RecInv, RecTyped
  <2> QED BY <2>1
<1>1. ASSUME NEW n \in DOMAIN dir, Cleans(n)
      PROVE  /\ \A m \in DOMAIN dir : Older(m, n) => m \in refused
             /\ n = recorder.name => silent >= MinAge
  <2>1. cleaner.todo # <<>> /\ n = Head(cleaner.todo)
    BY <1>1, CleansIsDelete DEF Delete
  <2>2. 1 \in 1 .. Len(cleaner.todo) /\ cleaner.todo[1] = n
    BY <1>0, <2>1
  <2>3. n = recorder.name => silent >= MinAge
    BY <2>2 DEF RecInv, Paused
  <2>4. \A m \in DOMAIN dir : Older(m, n) => m \in refused
    BY <2>2 DEF RecInv, InOrder
  <2> QED BY <2>3, <2>4
<1>2. RoundEnds => Used < HighWater \/ listed \cap DOMAIN dir \subseteq refused
  <2> SUFFICES ASSUME RoundEnds, ~(Used < HighWater) PROVE listed \cap DOMAIN dir \subseteq refused
    OBVIOUS
  <2>1. cleaner.step = "delete" /\ cleaner.todo = <<>> /\ Len(cleaner.todo) = 0
    BY DEF RoundEnds
  <2> QED BY <2>1 DEF RecInv, Remembered
<1>3. ASSUME recorder # Off, recorder' \notin {Off, recorder}, recorder'.ran = 0
      PROVE  recorder'.name \notin DOMAIN dir
  <2>1. PICK pause \in BOOLEAN : Minute(pause)
    BY <1>3 DEF RecNext, recVars, Open, RestartRecorder, UserDelete, LastClose, Wake, CheckFill, RoundEnds, Delete
  <2>2. ~pause
    BY <1>3, <2>1 DEF Minute
  <2>3. recorder \in [name : Int, ran : Nat] /\ now \in Nat /\ DOMAIN dir \subseteq 0 .. now
    BY DEF RecInv, RecTyped
  <2>4. CASE recorder.ran + 1 < Segment
    <3>1. recorder' = [recorder EXCEPT !.ran = recorder.ran + 1]
      BY <1>3, <2>1, <2>2, <2>4 DEF Minute
    <3> QED BY <1>3, <2>3, <3>1
  <2>5. CASE ~(recorder.ran + 1 < Segment)
    <3>1. recorder' = [name |-> now + 1, ran |-> 0]
      BY <1>3, <2>1, <2>2, <2>5 DEF Minute, NameOf
    <3> QED BY <2>3, <3>1
  <2> QED BY <2>4, <2>5
<1> QED BY <1>1, <1>2, <1>3

\* For any length of a segment, any fill and any pauses, users and restarts: the
\* cleanup deletes the oldest first, spares the open file unless the recorder
\* paused for long, does all of its round, and no segment overwrites another.
THEOREM RecordingsStay == RecSpec => RecordingsAreKept
<1> DEFINE A == \A n \in DOMAIN dir : Cleans(n) => \A m \in DOMAIN dir : Older(m, n) => m \in refused
           B == \A n \in DOMAIN dir : Cleans(n) /\ n = recorder.name => silent >= MinAge
           C == RoundEnds => Used < HighWater \/ listed \cap DOMAIN dir \subseteq refused
           D == recorder # Off /\ recorder' \notin {Off, recorder} /\ recorder'.ran = 0
                  => recorder'.name \notin DOMAIN dir
<1>1. RecInv /\ [RecNext]_recVars => [A]_recVars /\ [B]_recVars /\ [C]_recVars /\ [D]_recVars
  BY RecStep
<1>2. RecSpec => []RecInv
  BY RecInitInv, RecStepInv, PTL DEF RecSpec
<1>3. RecSpec => [][A]_recVars /\ [][B]_recVars /\ [][C]_recVars /\ [][D]_recVars
  BY <1>1, <1>2, PTL DEF RecSpec
<1> QED BY <1>3 DEF RecordingsAreKept, OldestFirst, OpenSegmentIsKept, RoundDoesItsWork, RollsToANewFile
=============================================================================
