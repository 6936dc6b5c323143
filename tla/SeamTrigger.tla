---------------------------- MODULE SeamTrigger ----------------------------
(***************************************************************************)
(* When camera 0 begins a new epoch of the seam search (gy_two_cam.cpp,    *)
(* the end of thread_cc_prepare_seam_input). A count of frames is compared *)
(* with a base; a picture that changed lowers the base, one that did not   *)
(* raises it.                                                              *)
(***************************************************************************)
EXTENDS Integers

CONSTANTS
  SeamRates, \* values of cfggg.seam_rate, the least base: the server takes any
  BaseCap,   \* the largest base, 60
  MaxEpoch,  \* bounds of the model: epochs, and frames counted while there is
  MaxCount   \* no search because the base is not positive

ASSUME RateAssumption ==
  /\ SeamRates \subseteq Int /\ BaseCap \in Nat \ {0}
  /\ MaxEpoch \in Nat /\ MaxCount \in Nat

VARIABLES
  seam_rate,  \* read from the configuration
  seam_epoch, seam_count, seam_c_base, SEAM_COUNT_RESET,
  prev_valid  \* there is a picture to compare with

leadVars == <<seam_rate, seam_epoch, seam_count, seam_c_base, SEAM_COUNT_RESET, prev_valid>>

TriggerInit ==
  /\ seam_rate \in SeamRates
  /\ seam_epoch = 0 /\ seam_count = 0 /\ seam_c_base = (BaseCap + 1) \div 2
  /\ SEAM_COUNT_RESET = TRUE /\ prev_valid = FALSE

\* Mutant: the base goes one below the rate.
NextBase_Below(changed) ==
  IF changed THEN (IF seam_c_base >= seam_rate THEN seam_c_base - 1 ELSE seam_c_base)
  ELSE IF seam_c_base < BaseCap THEN seam_c_base + 1 ELSE seam_c_base

NextBase(changed) ==
  IF changed THEN (IF seam_c_base > seam_rate THEN seam_c_base - 1 ELSE seam_c_base)
  ELSE IF seam_c_base < BaseCap THEN seam_c_base + 1 ELSE seam_c_base

Overdue(changed, base) == changed /\ base > 0 /\ seam_count > base

\* Mutant: the count has to meet the base.
Due_Equal(count, base) == base > 0 /\ count = base

Due(count, base) == base > 0 /\ count % base = 0

\* One frame: compare with the frame before, adapt the base, decide.
Decide(changed) ==
  LET base    == IF prev_valid THEN NextBase(changed) ELSE seam_c_base
      reset   == SEAM_COUNT_RESET \/ (prev_valid /\ Overdue(changed, base))
      trigger == Due(seam_count + 1, base) \/ reset
  IN /\ prev_valid' = TRUE
     /\ seam_c_base' = base
     /\ seam_count' = IF trigger THEN 0 ELSE seam_count + 1
     /\ SEAM_COUNT_RESET' = IF trigger THEN FALSE ELSE reset
     /\ seam_epoch' = IF trigger THEN seam_epoch + 1 ELSE seam_epoch
     /\ seam_epoch' <= MaxEpoch
     /\ base > 0 \/ seam_count' <= MaxCount
     /\ UNCHANGED seam_rate

TriggerNext == \E changed \in BOOLEAN : Decide(changed)

TriggerSpec == TriggerInit /\ [][TriggerNext]_leadVars

TriggerTypeOK ==
  /\ seam_rate \in SeamRates /\ seam_epoch \in 0 .. MaxEpoch
  /\ seam_count \in Nat /\ seam_c_base \in Int /\ seam_c_base <= BaseCap
  /\ SEAM_COUNT_RESET \in BOOLEAN /\ prev_valid \in BOOLEAN

\* Though the count can jump over a base that falls, the next epoch begins
\* within twice the largest base. Only a rate of 0 or less lets the base fall
\* so far that no frame is due; when it comes up again one is due at once,
\* however many frames were counted meanwhile.
SearchesKeepComing ==
  /\ seam_c_base > 0 =>
       /\ seam_count < 2 * BaseCap
       /\ seam_count > seam_c_base => seam_count = seam_c_base + 1 \/ seam_c_base = BaseCap
  /\ seam_c_base = 1 => seam_count = 0
  /\ seam_rate > 0 => seam_c_base > 0

\* The counters stay in their ranges, and the next search is never far unless
\* the configured rate stops the searches.
LeadInv == TriggerTypeOK /\ SearchesKeepComing
=============================================================================
