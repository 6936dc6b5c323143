---------------------------- MODULE CtrlMailbox ----------------------------
(***************************************************************************)
(* The way of an exposure to the cameras: the tuner's requests, a mailbox  *)
(* per camera of two atomics (k180_bright_tuner.cpp), and trigger_thread,  *)
(* which triggers the cameras, then applies what is in the mailboxes, and  *)
(* paces itself by the longest exposure (gy_two_cam.cpp). Gains take the   *)
(* same way without the pacing.                                            *)
(***************************************************************************)
EXTENDS Integers, FiniteSetsExt

CONSTANTS
  NumCams,    \* cameras, tmmm_nu
  Exposures,  \* the values requested
  Interval,   \* trigger_interval_us
  MaxTime     \* bound of the model

ASSUME MailboxAssumption ==
  /\ Exposures \subseteq Nat /\ Exposures # {} /\ Interval \in Nat \ {0} /\ MaxTime \in Nat
  /\ NumCams \in Nat \ {0}

Cams == 1 .. NumCams
First == Min(Exposures)

VARIABLES
  val, dirty,      \* PendingCtrl of each camera
  rpc, rval, rcam, \* the tuner: at which step of which request
  lastVal,         \* the last value requested of each camera
  tpc, tcam, tval, \* trigger_thread: step, camera, the value it consumed
  applied, lost,   \* what the camera exposes with; the last request was refused by the driver
  used,            \* what it exposed with when last triggered
  longest,         \* next_interval_us
  now, due         \* the time and the next deadline

mailVars == <<val, dirty, rpc, rval, rcam, lastVal, tpc, tcam, tval, applied, lost, used, longest, now, due>>
tunerSide == <<rpc, rval, rcam, lastVal>>
triggerSide == <<tpc, tcam, tval, applied, used, longest, due>>

MailboxInit ==
  /\ val = [c \in Cams |-> 0] /\ dirty = [c \in Cams |-> FALSE]
  /\ rpc = "idle" /\ rval = First /\ rcam = 1 /\ lastVal = [c \in Cams |-> First]
  /\ tpc = "sleep" /\ tcam = 1 /\ tval = First
  /\ applied = [c \in Cams |-> First] /\ lost = [c \in Cams |-> FALSE]
  /\ used = applied
  /\ longest = Interval /\ now = 0 /\ due = Interval

----------------------------------------------------------------------------
(* The tuner: request_exposure for each camera *)

Request(v) ==
  /\ rpc = "idle" /\ rpc' = "value" /\ rval' = v /\ rcam' = 1
  /\ UNCHANGED <<val, dirty, lastVal, triggerSide, lost, now>>

StoreValue ==
  /\ rpc = "value" /\ rpc' = "dirty"
  /\ val' = [val EXCEPT ![rcam] = rval]
  /\ UNCHANGED <<dirty, rval, rcam, lastVal, triggerSide, lost, now>>

StoreDirty ==
  /\ rpc = "dirty"
  /\ dirty' = [dirty EXCEPT ![rcam] = TRUE]
  /\ lastVal' = [lastVal EXCEPT ![rcam] = rval]
  /\ lost' = [lost EXCEPT ![rcam] = FALSE]
  /\ IF rcam < NumCams THEN rpc' = "value" /\ rcam' = rcam + 1 ELSE rpc' = "idle" /\ UNCHANGED rcam
  /\ UNCHANGED <<val, rval, triggerSide, now>>

----------------------------------------------------------------------------
(* trigger_thread *)

Tick ==
  /\ now < MaxTime /\ now' = now + 1
  /\ UNCHANGED <<val, dirty, tunerSide, triggerSide, lost>>

Awake ==
  /\ tpc = "sleep" /\ now >= due
  /\ tpc' = "trigger" /\ tcam' = 1 /\ longest' = Interval
  /\ UNCHANGED <<val, dirty, tunerSide, tval, applied, lost, used, now, due>>

\* cam_do_trigger: the shutter this exposure uses is read before it is changed.
Trigger ==
  /\ tpc = "trigger" /\ tpc' = "consume"
  /\ longest' = Max({longest, IF applied[tcam] > 0 THEN applied[tcam] ELSE Interval})
  /\ used' = [used EXCEPT ![tcam] = applied[tcam]]
  /\ UNCHANGED <<val, dirty, tunerSide, tcam, tval, applied, lost, now, due>>

\* Mutant: one camera too many.
NextCam_PastTheEnd ==
  IF tcam <= NumCams THEN tpc' = "trigger" /\ tcam' = tcam + 1 ELSE tpc' = "pace" /\ UNCHANGED tcam

\* apply_pending and consume_exposure: the flag is taken, ...
NextCam == IF tcam < NumCams THEN tpc' = "trigger" /\ tcam' = tcam + 1 ELSE tpc' = "pace" /\ UNCHANGED tcam

Consume ==
  /\ tpc = "consume"
  /\ IF dirty[tcam] THEN tpc' = "load" /\ UNCHANGED tcam ELSE NextCam
  /\ dirty' = [dirty EXCEPT ![tcam] = FALSE]
  /\ UNCHANGED <<val, tunerSide, tval, applied, lost, used, longest, now, due>>

\* ... then the value is loaded, ...
Load ==
  /\ tpc = "load" /\ tpc' = "apply" /\ tval' = val[tcam]
  /\ UNCHANGED <<val, dirty, tunerSide, tcam, applied, lost, used, longest, now, due>>

\* Mutant: the flag is cleared when the value is applied.
Apply_ClearsLate ==
  /\ tpc = "apply" /\ NextCam
  /\ applied' = [applied EXCEPT ![tcam] = tval]
  /\ dirty' = [dirty EXCEPT ![tcam] = FALSE]
  /\ UNCHANGED <<val, tunerSide, tval, used, lost, longest, now, due>>

\* ... and the camera takes it or the driver refuses.
Apply ==
  /\ tpc = "apply" /\ NextCam
  /\ \/ applied' = [applied EXCEPT ![tcam] = tval] /\ UNCHANGED lost
     \/ /\ UNCHANGED applied
        /\ lost' = [lost EXCEPT ![tcam] = tval = lastVal[tcam]]
  /\ UNCHANGED <<val, dirty, tunerSide, tval, used, longest, now, due>>

\* Mutant: the thread paces itself by the interval alone.
NextDue_Plain(d, interval) == d + Interval

\* The next deadline; those that have gone by already are skipped.
NextDue(d, interval) ==
  LET next == d + interval
  IN IF now > next THEN next + ((now - next) \div interval + 1) * interval ELSE next

Pace ==
  /\ tpc = "pace" /\ tpc' = "sleep"
  /\ due' = NextDue(due, longest)
  /\ UNCHANGED <<val, dirty, tunerSide, tcam, tval, applied, lost, used, longest, now>>

TriggerThread == Awake \/ Trigger \/ Consume \/ Load \/ Apply \/ Pace

MailboxNext ==
  Tick \/ StoreValue \/ StoreDirty \/ TriggerThread \/ \E v \in Exposures : Request(v)

MailboxSpec ==
  MailboxInit /\ [][MailboxNext]_mailVars
  /\ WF_mailVars(StoreValue \/ StoreDirty) /\ WF_mailVars(TriggerThread)

----------------------------------------------------------------------------
(* Properties *)

MailboxTypeOK ==
  /\ val \in [Cams -> Exposures \cup {0}] /\ dirty \in [Cams -> BOOLEAN]
  /\ rpc \in {"idle", "value", "dirty"} /\ rval \in Exposures /\ rcam \in Cams
  /\ lastVal \in [Cams -> Exposures] /\ applied \in [Cams -> Exposures] /\ lost \in [Cams -> BOOLEAN]
  /\ used \in [Cams -> Exposures]
  /\ tpc \in {"sleep", "trigger", "consume", "load", "apply", "pace"} /\ tcam \in Cams
  /\ tval \in Exposures
  /\ longest \in Nat /\ now \in 0 .. MaxTime /\ due \in Nat

\* Whatever the two sides' steps did between each other: when no request for a
\* camera is on its way, it has the value last requested, unless the driver
\* refused just that one (it is not asked again).
LastRequestWins ==
  \A c \in Cams :
    \/ dirty[c] \/ lost[c] \/ applied[c] = lastVal[c]
    \/ rpc = "dirty" /\ rcam = c
    \/ tpc \in {"load", "apply"} /\ tcam = c

\* The mailbox keeps its types and loses no request.
MailboxInv == MailboxTypeOK /\ LastRequestWins

\* Every camera is given all of its exposure between the deadline it was
\* triggered for and the next, whatever was requested meanwhile, and deadlines
\* gone by are skipped, not made up for by a burst.
ExposuresFit ==
  [][due' # due => due' >= now /\ \A c \in Cams : due' - due >= used[c]]_mailVars

\* What trigger_thread takes from the mailbox and when it triggers by it.
MailboxWorks == []MailboxInv /\ ExposuresFit
=============================================================================
