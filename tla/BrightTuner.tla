---------------------------- MODULE BrightTuner ----------------------------
(***************************************************************************)
(* The exposure tuner (k180_bright_tuner.cpp). Ten times a second it looks *)
(* at the newest frame of one camera and moves exposure and gain of all of *)
(* them: first the exposure to its middle (ST_INIT), then the gain (ST_1), *)
(* then the exposure to its limit (ST_2).                                  *)
(***************************************************************************)
EXTENDS Integers, Sequences, FiniteSetsExt

CONSTANTS
  CAM_EXPO_MIN, CAM_EXPO_MID, CAM_EXPO_MAX, CAM_EXPO_TUNE_STEP,
  CAM_GAIN_MIN, CAM_GAIN_MID, CAM_GAIN_MAX, CAM_GAIN_TUNE_STEP,
  MIN_STEP, MaxExpoStep, MaxGainStep,
  Snap,              \* an exposure so close to the middle is requested as the middle
  Edge, EdgeStep,    \* so close to a limit of the exposure steps are smaller
  Cooldown,          \* adjust_cooldown_default
  StableOkRequired,
  ErrorLevels        \* the error levels pictures have, of 0 .. 9

ASSUME TunerAssumption ==
  /\ {CAM_EXPO_MIN, CAM_EXPO_MID, CAM_EXPO_MAX, Snap, Edge, EdgeStep} \subseteq Int
  /\ {CAM_GAIN_MIN, CAM_GAIN_MID, CAM_GAIN_MAX, MIN_STEP, MaxExpoStep, MaxGainStep} \subseteq Int
  /\ CAM_EXPO_TUNE_STEP \in [1 .. 10 -> Nat] /\ CAM_GAIN_TUNE_STEP \in [1 .. 10 -> Nat]
  /\ CAM_EXPO_MIN < CAM_EXPO_MID /\ CAM_EXPO_MID < CAM_EXPO_MAX
  /\ 0 < CAM_GAIN_MIN /\ CAM_GAIN_MIN < CAM_GAIN_MAX
  /\ CAM_GAIN_MID \in CAM_GAIN_MIN .. CAM_GAIN_MAX
  /\ MIN_STEP > 0 /\ MIN_STEP <= EdgeStep /\ MIN_STEP <= MaxExpoStep /\ MIN_STEP <= MaxGainStep
  /\ Cooldown \in Nat /\ StableOkRequired \in Nat \ {0} /\ ErrorLevels \subseteq 0 .. 9

VARIABLES
  exposure_tun_val, gain_tun_val, ts_state, ok_streak, adjust_cooldown_frames,
  k_active,   \* hysteresis of bright_adjust
  requested,  \* the exposure last requested of the cameras
  seen        \* the last picture: a probe and an error level

tunerVars == <<exposure_tun_val, gain_tun_val, ts_state, ok_streak, adjust_cooldown_frames,
               k_active, requested, seen>>

TunerInit ==
  /\ exposure_tun_val = CAM_EXPO_MID /\ gain_tun_val = CAM_GAIN_MID
  /\ ts_state = "ST_INIT" /\ ok_streak = 0 /\ adjust_cooldown_frames = 0
  /\ k_active = FALSE /\ requested = CAM_EXPO_MID /\ seen = [probe |-> "OK", level |-> 0]

Clamp(v, lo, hi) == Max({lo, Min({v, hi})})

\* log2 of how often the least gain fits into the gain, for the tables.
BaseLevel == Max({0} \cup {n \in 1 .. 9 : CAM_GAIN_MIN * 2 ^ n <= gain_tun_val})

\* The factors of an error level, in tenths.
ExpoFactor(level) ==
  CASE level >= 8 -> 30 [] level \in 6 .. 7 -> 20 [] level \in 4 .. 5 -> 16 [] level \in 2 .. 3 -> 11 [] OTHER -> 10
GainFactor(level) ==
  CASE level >= 8 -> 35 [] level \in 6 .. 7 -> 25 [] level \in 4 .. 5 -> 18 [] level \in 2 .. 3 -> 12 [] OTHER -> 10

\* A small error halves the step; an error of level 0 gives no step at all.
StepFromBase(base, factor, level, max) ==
  LET step == (base * factor) \div 10
  IN IF level = 0 THEN 0
     ELSE Clamp(IF level < 3 THEN step \div 2 ELSE step, MIN_STEP, max)

GainStep(level) ==
  StepFromBase(CAM_GAIN_TUNE_STEP[BaseLevel + 1], GainFactor(level), level, MaxGainStep)
ExpoStep(level) ==
  StepFromBase(CAM_EXPO_TUNE_STEP[BaseLevel + 1], ExpoFactor(level), level, MaxExpoStep)

NearEdge == exposure_tun_val <= CAM_EXPO_MIN + Edge \/ exposure_tun_val >= CAM_EXPO_MAX - Edge
AtEdge(step) == IF NearEdge THEN Min({step, EdgeStep}) ELSE step

\* Mutant: the step is not clamped to the limit.
Moved_NoClamp(v, probe, step, lo, hi) ==
  IF probe = "TOO_B" THEN (IF v > lo THEN v - step ELSE v) ELSE IF v < hi THEN v + step ELSE v

\* A step down when too bright, up when too dark, not past the limit.
Moved(v, probe, step, lo, hi) ==
  IF probe = "TOO_B" THEN (IF v > lo THEN Max({v - step, lo}) ELSE v)
  ELSE IF v < hi THEN Min({v + step, hi}) ELSE v

SnapToMid(v) == IF v > CAM_EXPO_MID - Snap /\ v < CAM_EXPO_MID + Snap THEN CAM_EXPO_MID ELSE v

----------------------------------------------------------------------------
(* bright_tunning *)

\* Mutant: one of the two limits is enough.
AtLimit_Either(probe) ==
  \/ probe = "TOO_B" /\ (exposure_tun_val <= CAM_EXPO_MIN \/ gain_tun_val <= CAM_GAIN_MIN)
  \/ probe = "TOO_D" /\ (exposure_tun_val >= CAM_EXPO_MAX \/ gain_tun_val >= CAM_GAIN_MAX)

AtLimit(probe) ==
  \/ probe = "TOO_B" /\ exposure_tun_val <= CAM_EXPO_MIN /\ gain_tun_val <= CAM_GAIN_MIN
  \/ probe = "TOO_D" /\ exposure_tun_val >= CAM_EXPO_MAX /\ gain_tun_val >= CAM_GAIN_MAX

Rest == UNCHANGED <<exposure_tun_val, gain_tun_val, requested>>

Ok ==
  /\ IF ok_streak + 1 >= StableOkRequired
     THEN ts_state' = "ST_INIT" /\ ok_streak' = 0
     ELSE ok_streak' = ok_streak + 1 /\ UNCHANGED ts_state
  /\ Rest

Goto(st) == ts_state' = st /\ adjust_cooldown_frames' = 0 /\ Rest

SetExposure(v) ==
  /\ exposure_tun_val' = v /\ requested' = SnapToMid(v)
  /\ adjust_cooldown_frames' = Cooldown
  /\ UNCHANGED <<gain_tun_val, ts_state>>

SetGain(v) ==
  /\ gain_tun_val' = v /\ adjust_cooldown_frames' = Cooldown
  /\ UNCHANGED <<exposure_tun_val, ts_state, requested>>

\* Mutant: the exposure is put to its middle whichever way it is off.
TuneInit_Recenter(probe, level) ==
  /\ ts_state = "ST_INIT"
  /\ IF exposure_tun_val = CAM_EXPO_MID THEN Goto("ST_1") ELSE SetExposure(CAM_EXPO_MID)

\* The exposure comes to its middle first; if it is there, or beyond in the
\* direction wanted, it is the gain's turn.
TuneInit(probe, level) ==
  LET v == exposure_tun_val
      reached == (probe = "TOO_B" /\ v <= CAM_EXPO_MID) \/ (probe = "TOO_D" /\ v >= CAM_EXPO_MID)
  IN /\ ts_state = "ST_INIT"
     /\ IF reached THEN Goto("ST_1")
        ELSE SetExposure(Moved(v, probe, AtEdge(ExpoStep(level)), CAM_EXPO_MID, CAM_EXPO_MID))

TuneGain(probe, level) ==
  LET v == gain_tun_val
      reached == (probe = "TOO_B" /\ v <= CAM_GAIN_MIN) \/ (probe = "TOO_D" /\ v >= CAM_GAIN_MAX)
  IN /\ ts_state = "ST_1"
     /\ IF reached THEN Goto("ST_2")
        ELSE SetGain(Moved(v, probe, GainStep(level), CAM_GAIN_MIN, CAM_GAIN_MAX))

\* With much gain a bright picture first loses gain. Here every step counts,
\* even at error level 0.
TuneLimit(probe, level) ==
  LET v == exposure_tun_val
      step == AtEdge(Clamp(ExpoStep(level), MIN_STEP, MaxExpoStep))
      gainFirst == probe = "TOO_B" /\ gain_tun_val > CAM_GAIN_MIN + CAM_GAIN_MID /\ v - step <= CAM_EXPO_MID
      reached == (probe = "TOO_B" /\ v <= CAM_EXPO_MIN) \/ (probe = "TOO_D" /\ v >= CAM_EXPO_MAX)
  IN /\ ts_state = "ST_2"
     /\ IF gainFirst THEN Goto("ST_1")
        ELSE IF reached THEN Goto("ST_INIT")
        ELSE SetExposure(Moved(v, probe, step, CAM_EXPO_MIN, CAM_EXPO_MAX))

\* At the limits nothing is left to do; after each step the cameras get time.
Tune(probe, level) ==
  LET cooled == Max({0, adjust_cooldown_frames - 1}) IN
    \/ /\ probe = "OK" \/ AtLimit(probe)
       /\ Ok /\ adjust_cooldown_frames' = cooled
    \/ /\ probe # "OK" /\ ~AtLimit(probe) /\ ok_streak' = 0
       /\ \/ cooled > 0 /\ adjust_cooldown_frames' = cooled /\ Rest /\ UNCHANGED ts_state
          \/ cooled = 0 /\ (TuneInit(probe, level) \/ TuneGain(probe, level) \/ TuneLimit(probe, level))

----------------------------------------------------------------------------
(* bright_adjust: one picture. "hi" and "lo" are many saturated pixels, far *)
(* a mean far from the one wanted, in the direction side; K compares that   *)
(* with the spread.                                                         *)

Picture(probe, level) == seen' = [probe |-> probe, level |-> level]

Saturated(probe, level) == Picture(probe, level) /\ Tune(probe, level) /\ UNCHANGED k_active

Near == Picture("OK", 0) /\ Tune("OK", 0) /\ k_active' = FALSE

Far(side, level, K) ==
  LET active == IF k_active THEN K # "low" ELSE K = "high"
      probe  == IF active THEN side ELSE "OK"
  IN Picture(probe, level) /\ Tune(probe, level) /\ k_active' = active

TunerNext ==
  \/ Near
  \/ \E side \in {"TOO_B", "TOO_D"}, level \in ErrorLevels :
       Saturated(side, level) \/ \E K \in {"low", "between", "high"} : Far(side, level, K)

\* The tuner goes on looking at pictures; what they show is up to the scene.
TunerSpec == TunerInit /\ [][TunerNext]_tunerVars /\ WF_tunerVars(TunerNext)

----------------------------------------------------------------------------
(* Properties *)

TunerTypeOK ==
  /\ exposure_tun_val \in CAM_EXPO_MIN .. CAM_EXPO_MAX
  /\ gain_tun_val \in CAM_GAIN_MIN .. CAM_GAIN_MAX
  /\ ts_state \in {"ST_INIT", "ST_1", "ST_2"}
  /\ ok_streak \in 0 .. StableOkRequired - 1
  /\ adjust_cooldown_frames \in 0 .. Cooldown /\ k_active \in BOOLEAN
  /\ requested \in CAM_EXPO_MIN .. CAM_EXPO_MAX
  /\ seen \in [probe : {"OK", "TOO_B", "TOO_D"}, level : 0 .. 9]

\* A picture too bright never makes the cameras brighter, one too dark never
\* darker, in none of the three states and through the snap to the middle.
NeverTheWrongWay ==
  [][/\ seen'.probe = "TOO_B" => requested' <= requested /\ gain_tun_val' <= gain_tun_val
     /\ seen'.probe = "TOO_D" => requested' >= requested /\ gain_tun_val' >= gain_tun_val]_tunerVars

Persistently(probe) == <>[](seen.probe = probe /\ seen.level > 0)

\* A scene that stays too bright or too dark takes exposure and gain to their
\* limits: the three states never send each other round in a circle. (At
\* error level 0 the first two states make steps of size 0 and stay.)
ReachesTheLimit ==
  /\ Persistently("TOO_B") => <>[](exposure_tun_val = CAM_EXPO_MIN /\ gain_tun_val = CAM_GAIN_MIN)
  /\ Persistently("TOO_D") => <>[](exposure_tun_val = CAM_EXPO_MAX /\ gain_tun_val = CAM_GAIN_MAX)

\* Exposure and gain stay within their limits and never move the wrong way.
TunerIsSafe == [][TunerTypeOK']_tunerVars /\ NeverTheWrongWay

\* They stay within their limits, move towards the picture that is wanted, and
\* arrive.
TunerGetsThere == TunerIsSafe /\ ReachesTheLimit
=============================================================================
