-------------------------- MODULE SeamEpochProofs --------------------------
(***************************************************************************)
(* The trigger of the seam search, the search and the apply thread, for    *)
(* any number of cameras and epochs and every base, cap and KeepFor.       *)
(***************************************************************************)
EXTENDS SeamEpoch, TLAPS

USE RateAssumption, SeamAssumption

----------------------------------------------------------------------------
(* The inductive invariant *)

\* A search is counted and its results are not all in front.
Searching == spc \in {"flip_gain", "announce", "find", "flip_mask"}

\* The first frame begins an epoch.
FirstIsDue == ~prev_valid => SEAM_COUNT_RESET

TriggerInv == TriggerTypeOK /\ SearchesKeepComing /\ FirstIsDue

\* Every search is for an epoch of its own.
EpochInv ==
  /\ last_seen_epoch <= seam_epoch /\ e <= seam_epoch
  /\ spc = "feed" \/ Searching => last_seen_epoch < e
  /\ searches <= IF Searching THEN last_seen_epoch + 1 ELSE last_seen_epoch
  /\ Searching => searches >= 1
  /\ gain_epoch = IF spc \in {"flip_gain", "announce"} THEN searches - 1 ELSE searches

\* An image can still be used by the search that has joined, by the one its
\* camera's bit is set for, and by the one its own signal will be for.
Chance(P) == IF P THEN 1 ELSE 0
UsesInv ==
  \A c \in Cams :
    uses[c] + Chance(spc \in {"epoch", "feed"}) + Chance(c \in done_mask) + Chance(pc[c] = "signal") <= 3

\* The counter counts the searches that used the kept seam since it was saved.
KeepInv ==
  /\ re_seam_12 = 0 => restored = 0
  /\ re_seam_12 >= 1 => saved /\ restored = re_seam_12 - 1

\* What is in front, and what a flip is about to bring there.
InFront(buf) == made[buf][front[buf]]
InBack(buf)  == made[buf][1 - front[buf]]
GainsDone    == IF spc = "flip_gain" THEN searches - 1 ELSE searches
MasksDone    == IF Searching THEN searches - 1 ELSE searches

BufInv ==
  /\ InFront("gain") = IF GainsDone = 0 THEN -1 ELSE GainsDone
  /\ InFront("mask") = MasksDone
  /\ spc = "flip_gain" => InBack("gain") = searches
  /\ spc = "flip_mask" => InBack("mask") = searches

\* What the kernels read from a buffer is in front, or a later search is; and
\* it is what they found there, or was filled by a search after the next.
Reads(buf) ==
  \/ buf = "mask" /\ apc \in {"gain", "draw"}
  \/ buf = "gain" /\ apc = "draw"

Holds(buf) ==
  LET r == reading[buf] IN
    /\ r.made <= InFront(buf)
    /\ r.at # front[buf] => r.made + 1 <= InFront(buf)
    /\ made[buf][r.at] = r.made \/ made[buf][r.at] >= r.made + 2

ReadInv ==
  /\ \A buf \in Buffers : Reads(buf) => Holds(buf)
  /\ apc # "warm" => gain_epoch >= 1
  /\ apc = "gain" => reading["mask"].made <= InFront("gain")
  /\ GainsAreThere

IInv == TypeOK /\ TriggerInv /\ EpochInv /\ UsesInv /\ KeepInv /\ BufInv /\ ReadInv

----------------------------------------------------------------------------
(* The trigger *)

LEMMA RestOfMultiple ==
  ASSUME NEW n \in Nat \ {0}
  PROVE  n % n = 0 /\ (2 * n) % n = 0
<1>1. n % n = 0
  OBVIOUS
<1>2. (2 * n) % n = 0
  OBVIOUS
<1> QED BY <1>1, <1>2

LEMMA RestOfOne == \A x \in Nat : x % 1 = 0
OBVIOUS

TwiceTheCap == 2 * BaseCap

LEMMA TwiceTyped == TwiceTheCap \in Nat /\ TwiceTheCap > BaseCap
<1>1. BaseCap \in Nat /\ BaseCap >= 1
  OBVIOUS
<1> QED BY <1>1 DEF TwiceTheCap

\* What the trigger promises of its numbers, for a count n and a base b.
Near(n, b) ==
  /\ n \in Nat /\ b \in Int /\ b <= BaseCap
  /\ b > 0 => n < TwiceTheCap /\ (n > b => n = b + 1 \/ b = BaseCap)
  /\ b = 1 => n = 0
  /\ seam_rate > 0 => b > 0

LEMMA InvParts ==
  TriggerInv <=>
    /\ seam_rate \in SeamRates /\ seam_epoch \in 0 .. MaxEpoch
    /\ Near(seam_count, seam_c_base)
    /\ SEAM_COUNT_RESET \in BOOLEAN /\ prev_valid \in BOOLEAN
    /\ ~prev_valid => SEAM_COUNT_RESET
BY DEF TriggerInv, TriggerTypeOK, SearchesKeepComing, FirstIsDue, TwiceTheCap, Near

LEMMA InvPartsNext ==
  ASSUME seam_rate' = seam_rate
  PROVE  TriggerInv' <=>
           /\ seam_rate \in SeamRates /\ seam_epoch' \in 0 .. MaxEpoch
           /\ Near(seam_count', seam_c_base')
           /\ SEAM_COUNT_RESET' \in BOOLEAN /\ prev_valid' \in BOOLEAN
           /\ ~prev_valid' => SEAM_COUNT_RESET'
BY DEF TriggerInv, TriggerTypeOK, SearchesKeepComing, FirstIsDue, TwiceTheCap, Near

LEMMA TriggerInitInv == TriggerInit => TriggerInv
<1> SUFFICES ASSUME TriggerInit PROVE TriggerInv
  OBVIOUS
<1>1. BaseCap \in Nat /\ BaseCap >= 1 /\ MaxEpoch \in Nat
  OBVIOUS
<1>2. (BaseCap + 1) \div 2 \in 1 .. BaseCap
  BY <1>1
<1>3. /\ seam_rate \in SeamRates /\ seam_epoch = 0 /\ seam_count = 0
      /\ seam_c_base \in 1 .. BaseCap
      /\ SEAM_COUNT_RESET = TRUE /\ prev_valid = FALSE
  BY <1>2 DEF TriggerInit
<1>4. Near(seam_count, seam_c_base) /\ seam_epoch \in 0 .. MaxEpoch
  BY <1>1, <1>3, TwiceTyped DEF Near
<1> QED BY <1>3, <1>4, InvParts

\* One frame of camera 0: the count stays near the base.
LEMMA DecideInv ==
  ASSUME TriggerInv, NEW changed \in BOOLEAN, Decide(changed)
  PROVE  TriggerInv'
<1> DEFINE base  == IF prev_valid THEN NextBase(changed) ELSE seam_c_base
           reset == SEAM_COUNT_RESET \/ (prev_valid /\ Overdue(changed, base))
           trig  == Due(seam_count + 1, base) \/ reset
<1>1. /\ seam_epoch \in 0 .. MaxEpoch /\ Near(seam_count, seam_c_base)
      /\ BaseCap \in Nat \ {0} /\ seam_rate \in Int /\ seam_rate \in SeamRates
      /\ ~prev_valid => SEAM_COUNT_RESET
      /\ SEAM_COUNT_RESET \in BOOLEAN /\ prev_valid \in BOOLEAN
  BY InvParts
<1>2. /\ prev_valid' = TRUE /\ seam_rate' = seam_rate
      /\ seam_c_base' = base
      /\ seam_count' = IF trig THEN 0 ELSE seam_count + 1
      /\ SEAM_COUNT_RESET' = IF trig THEN FALSE ELSE reset
      /\ seam_epoch' = IF trig THEN seam_epoch + 1 ELSE seam_epoch
      /\ seam_epoch' <= MaxEpoch
  BY DEF Decide
<1>3. /\ base \in Int /\ base <= BaseCap /\ (seam_rate > 0 => base > 0)
      /\ seam_c_base \in Int /\ seam_count \in Nat
  BY <1>1 DEF NextBase, Near
<1>4. CASE trig
  <2>1. /\ seam_count' = 0 /\ SEAM_COUNT_RESET' = FALSE /\ seam_epoch' = seam_epoch + 1
        /\ seam_c_base' = base
    BY <1>2, <1>4
  <2> HIDE DEF base, trig, reset
  <2>2. Near(seam_count', seam_c_base') /\ seam_epoch' \in 0 .. MaxEpoch
    BY <1>1, <1>2, <1>3, <2>1, TwiceTyped DEF Near
  <2>3. /\ SEAM_COUNT_RESET' \in BOOLEAN /\ prev_valid' \in BOOLEAN
        /\ ~prev_valid' => SEAM_COUNT_RESET'
    BY <1>2, <2>1
  <2> QED BY <1>1, <1>2, <2>2, <2>3, InvPartsNext
<1>5. CASE ~trig
  <2>1. /\ ~Due(seam_count + 1, base) /\ ~SEAM_COUNT_RESET /\ prev_valid
        /\ ~Overdue(changed, base) /\ base = NextBase(changed)
    BY <1>1, <1>5
  <2>2. /\ seam_count' = seam_count + 1 /\ SEAM_COUNT_RESET' = FALSE
        /\ seam_epoch' = seam_epoch /\ seam_c_base' = base
    BY <1>2, <1>5, <2>1
  <2>3. base > 0 => seam_count + 1 # base /\ seam_count + 1 # 2 * base /\ base # 1
    <3> SUFFICES ASSUME base > 0 PROVE seam_count + 1 # base /\ seam_count + 1 # 2 * base /\ base # 1
      OBVIOUS
    <3> HIDE DEF base
    <3>1. base \in Nat \ {0} /\ seam_count + 1 \in Nat
      BY <1>3
    <3>2. (seam_count + 1) % base # 0
      BY <2>1, <3>1 DEF Due
    <3> QED BY <3>1, <3>2, RestOfMultiple, RestOfOne
  <2> HIDE DEF base, trig, reset
  <2>4. base > 0 => seam_c_base > 0
    BY <1>3, <2>1, <2>3 DEF NextBase
  <2>5. base > 0 /\ seam_count + 1 > base => seam_count + 1 = base + 1 \/ base = BaseCap
    BY <1>1, <1>3, <2>1, <2>4 DEF Overdue, NextBase, Near
  <2>6. base > 0 => seam_count + 1 < TwiceTheCap
    BY <1>1, <1>3, <2>3, <2>4, <2>5, TwiceTyped DEF TwiceTheCap, Near
  <2>7. Near(seam_count', seam_c_base') /\ seam_epoch' \in 0 .. MaxEpoch
    BY <1>1, <1>3, <2>2, <2>3, <2>5, <2>6 DEF Near
  <2>8. /\ SEAM_COUNT_RESET' \in BOOLEAN /\ prev_valid' \in BOOLEAN
        /\ ~prev_valid' => SEAM_COUNT_RESET'
    BY <1>2, <2>2
  <2> QED BY <1>1, <1>2, <2>7, <2>8, InvPartsNext
<1> QED BY <1>4, <1>5

\* While the base is positive the next epoch is never further than twice the
\* largest base, and one begins at once when it becomes positive again: for
\* every configured rate (any integer), cap and sequence of pictures. With a
\* positive rate the base is always positive.
THEOREM TriggerInvariant == TriggerSpec => []LeadInv
<1>1. TriggerInv /\ [TriggerNext]_leadVars => TriggerInv'
  <2> SUFFICES ASSUME TriggerInv, [TriggerNext]_leadVars PROVE TriggerInv'
    OBVIOUS
  <2>1. CASE TriggerNext
    BY <2>1, DecideInv DEF TriggerNext
  <2>2. CASE UNCHANGED leadVars
    BY <2>2 DEF leadVars, TriggerInv, TriggerTypeOK, SearchesKeepComing, FirstIsDue
  <2> QED BY <2>1, <2>2
<1>2. TriggerInv => LeadInv
  BY DEF TriggerInv, LeadInv
<1> QED BY <1>1, <1>2, TriggerInitInv, PTL DEF TriggerSpec

----------------------------------------------------------------------------
(* The search: types *)

LEMMA InitInv == Init => IInv
<1> SUFFICES ASSUME Init PROVE IInv
  OBVIOUS
<1> USE DEF Init
<1>1. TriggerInv
  BY TriggerInitInv
<1>2. seam_epoch = 0
  BY DEF TriggerInit
<1>3. /\ Lead \in Cams /\ KeepFor \in Nat \ {0} /\ MaxEpoch \in Nat
      /\ front \in [Buffers -> {0, 1}] /\ made \in [Buffers -> [{0, 1} -> -1 .. MaxEpoch]]
      /\ reading \in [Buffers -> [at : {0, 1}, made : -1 .. MaxEpoch]]
  BY DEF Nothing
<1>4. TypeOK
  <2>1. TriggerTypeOK
    BY <1>1 DEF TriggerInv
  <2>2. /\ pc \in [Cams -> {"snapshot", "pop", "signal", "decide"}]
        /\ snapshot \in [Cams -> 0 .. MaxEpoch] /\ last_done_epoch \in [Cams -> 0 .. MaxEpoch]
        /\ uses \in [Cams -> Nat] /\ done_mask \subseteq Cams
    BY <1>3
  <2>3. /\ e \in 0 .. MaxEpoch /\ last_seen_epoch \in 0 .. MaxEpoch
        /\ searches \in 0 .. MaxEpoch /\ gain_epoch \in 0 .. MaxEpoch
        /\ re_seam_12 \in 0 .. KeepFor /\ restored \in Nat
    BY <1>3
  <2>4. saved \in BOOLEAN
    OBVIOUS
  <2>5. /\ spc \in {"wait", "epoch", "feed", "flip_gain", "announce", "find", "flip_mask"}
        /\ apc \in {"warm", "mask", "gain", "draw"}
    OBVIOUS
  <2> HIDE DEF Init
  <2> QED BY <1>3, <2>1, <2>2, <2>3, <2>4, <2>5 DEF TypeOK
<1>5. EpochInv /\ KeepInv
  BY <1>2 DEF EpochInv, KeepInv, Searching
<1>6. UsesInv
  BY DEF UsesInv, Chance
<1>7. BufInv
  BY DEF BufInv, InFront, InBack, GainsDone, MasksDone, Searching, Buffers
<1>8. ReadInv
  BY DEF ReadInv, Reads, GainsAreThere
<1> QED BY <1>1, <1>4, <1>5, <1>6, <1>7, <1>8 DEF IInv

LEMMA FillTyped ==
  ASSUME TypeOK, NEW buf \in Buffers, NEW n \in -1 .. MaxEpoch, Fill(buf, n)
  PROVE  /\ made' \in [Buffers -> [{0, 1} -> -1 .. MaxEpoch]]
         /\ made'[buf][1 - front[buf]] = n /\ made'[buf][front[buf]] = made[buf][front[buf]]
         /\ \A other \in Buffers : other # buf => made'[other] = made[other]
<1>1. front[buf] \in {0, 1} /\ 1 - front[buf] \in {0, 1} /\ 1 - front[buf] # front[buf]
  BY DEF TypeOK
<1>2. made \in [Buffers -> [{0, 1} -> -1 .. MaxEpoch]] /\ made[buf] \in [{0, 1} -> -1 .. MaxEpoch]
  BY DEF TypeOK
<1>3. made' = [made EXCEPT ![buf] = [made[buf] EXCEPT ![1 - front[buf]] = n]]
  BY DEF Fill
<1>4. [made[buf] EXCEPT ![1 - front[buf]] = n] \in [{0, 1} -> -1 .. MaxEpoch]
  BY <1>1, <1>2
<1>5. made' \in [Buffers -> [{0, 1} -> -1 .. MaxEpoch]]
  BY <1>2, <1>3, <1>4
<1>6. made'[buf] = [made[buf] EXCEPT ![1 - front[buf]] = n]
  BY <1>2, <1>3
<1>7. made'[buf][1 - front[buf]] = n /\ made'[buf][front[buf]] = made[buf][front[buf]]
  BY <1>1, <1>2, <1>6
<1>8. \A other \in Buffers : other # buf => made'[other] = made[other]
  BY <1>2, <1>3
<1> QED BY <1>5, <1>7, <1>8

LEMMA FlipTyped ==
  ASSUME TypeOK, NEW buf \in Buffers, Flip(buf)
  PROVE  /\ front' \in [Buffers -> {0, 1}] /\ front'[buf] = 1 - front[buf]
         /\ \A other \in Buffers : other # buf => front'[other] = front[other]
BY DEF TypeOK, Flip

LEMMA SearchFits ==
  ASSUME TypeOK, EpochInv, spc = "feed"
  PROVE  searches + 1 \in 1 .. MaxEpoch /\ seam_epoch \in Nat
BY DEF TypeOK, TriggerTypeOK, EpochInv, Searching

LEMMA PrepareTyped ==
  ASSUME IInv, NEW c \in Cams, Prepare(c)
  PROVE  TypeOK'
<1> USE DEF leadVars, prepVars, keepVars, bufVars, searchVars, applyVars
<1>0. TypeOK /\ TriggerTypeOK /\ seam_epoch \in 0 .. MaxEpoch
  BY DEF IInv, TypeOK, TriggerTypeOK
<1>1. CASE Snapshot(c)
  <2>1. UNCHANGED leadVars /\ TriggerTypeOK'
    BY <1>0, <1>1 DEF Snapshot, TriggerTypeOK
  <2>2. snapshot' \in [Cams -> 0 .. MaxEpoch] /\ pc' \in [Cams -> {"snapshot", "pop", "signal", "decide"}]
    BY <1>0, <1>1 DEF Snapshot, Move, TypeOK
  <2> QED BY <1>0, <1>1, <2>1, <2>2 DEF Snapshot, TypeOK
<1>2. CASE Pop(c)
  <2>1. UNCHANGED leadVars /\ TriggerTypeOK'
    BY <1>0, <1>2 DEF Pop, TriggerTypeOK
  <2>2. uses' \in [Cams -> Nat] /\ pc' \in [Cams -> {"snapshot", "pop", "signal", "decide"}]
    BY <1>0, <1>2 DEF Pop, Move, AfterImage, TypeOK
  <2> QED BY <1>0, <1>2, <2>1, <2>2 DEF Pop, TypeOK
<1>3. CASE SignalId(c)
  <2>1. UNCHANGED leadVars /\ TriggerTypeOK'
    BY <1>0, <1>3 DEF SignalId, TriggerTypeOK
  <2>2. /\ last_done_epoch' \in [Cams -> 0 .. MaxEpoch] /\ done_mask' \subseteq Cams
        /\ pc' \in [Cams -> {"snapshot", "pop", "signal", "decide"}]
    BY <1>0, <1>3 DEF SignalId, Move, AfterImage, TypeOK
  <2> QED BY <1>0, <1>3, <2>1, <2>2 DEF SignalId, TypeOK
<1>4. CASE LeadDecides
  <2>1. TriggerTypeOK'
    BY <1>4, DecideInv DEF LeadDecides, TriggerInv, IInv
  <2>2. pc' \in [Cams -> {"snapshot", "pop", "signal", "decide"}]
    BY <1>0, <1>4 DEF LeadDecides, Move, TypeOK
  <2> QED BY <1>0, <1>4, <2>1, <2>2 DEF LeadDecides, TypeOK
<1> QED BY <1>1, <1>2, <1>3, <1>4 DEF Prepare

LEMMA SearchTyped ==
  ASSUME IInv, SeamFind
  PROVE  TypeOK'
<1> USE DEF leadVars, prepVars, keepVars, bufVars, searchVars, applyVars
<1>0. TypeOK /\ EpochInv /\ TriggerTypeOK /\ seam_epoch \in 0 .. MaxEpoch
  BY DEF IInv, TypeOK, TriggerTypeOK
<1>1. UNCHANGED <<leadVars, prepVars, applyVars>> /\ TriggerTypeOK'
  BY <1>0 DEF SeamFind, WaitAll, ReadEpoch, Feed, FlipGains, AnnounceGains, Find, FlipMasks, TriggerTypeOK
<1>2. CASE WaitAll
  BY <1>0, <1>1, <1>2 DEF WaitAll, Step, TypeOK
<1>3. CASE ReadEpoch
  BY <1>0, <1>1, <1>3 DEF ReadEpoch, TypeOK
<1>4. CASE Feed
  <2>1. searches + 1 \in 1 .. MaxEpoch
    BY <1>0, <1>4, SearchFits DEF Feed, Step
  <2>2. made' \in [Buffers -> [{0, 1} -> -1 .. MaxEpoch]]
    BY <1>0, <1>4, <2>1, FillTyped DEF Feed, Buffers
  <2>3. uses' \in [Cams -> Nat] /\ searches' \in 0 .. MaxEpoch
    BY <1>0, <1>4, <2>1 DEF Feed, TypeOK
  <2> QED BY <1>0, <1>1, <1>4, <2>2, <2>3 DEF Feed, Step, TypeOK
<1>5. CASE FlipGains
  <2>1. front' \in [Buffers -> {0, 1}]
    BY <1>0, <1>5, FlipTyped DEF FlipGains, Buffers
  <2> QED BY <1>0, <1>1, <1>5, <2>1 DEF FlipGains, Step, TypeOK
<1>6. CASE AnnounceGains
  <2>1. gain_epoch' \in 0 .. MaxEpoch
    BY <1>0, <1>6 DEF AnnounceGains, Step, EpochInv, Searching, TypeOK
  <2> QED BY <1>0, <1>1, <1>6, <2>1 DEF AnnounceGains, Step, TypeOK
<1>7. CASE Find
  <2>1. searches \in -1 .. MaxEpoch
    BY <1>0 DEF TypeOK
  <2>2. made' \in [Buffers -> [{0, 1} -> -1 .. MaxEpoch]]
    BY <1>0, <1>7, <2>1, FillTyped DEF Find, Buffers
  <2>3. re_seam_12' \in 0 .. KeepFor /\ saved' \in BOOLEAN /\ restored' \in Nat
    <3>1. re_seam_12 \in 0 .. KeepFor /\ restored \in Nat /\ saved \in BOOLEAN /\ KeepFor \in Nat \ {0}
      BY <1>0 DEF TypeOK
    <3>2. SaveDue \/ re_seam_12 # KeepFor
      BY <3>1, RestOfMultiple DEF SaveDue
    <3>3. re_seam_12' \in 0 .. KeepFor /\ restored' \in Nat
      BY <1>7, <3>1, <3>2 DEF Find
    <3>4. saved' \in BOOLEAN
      BY <1>7, <3>1 DEF Find
    <3> QED BY <3>3, <3>4
  <2> QED BY <1>0, <1>1, <1>7, <2>2, <2>3 DEF Find, Step, TypeOK
<1>8. CASE FlipMasks
  <2>1. front' \in [Buffers -> {0, 1}]
    BY <1>0, <1>8, FlipTyped DEF FlipMasks, Buffers
  <2> QED BY <1>0, <1>1, <1>8, <2>1 DEF FlipMasks, Step, TypeOK
<1> QED BY <1>2, <1>3, <1>4, <1>5, <1>6, <1>7, <1>8 DEF SeamFind

LEMMA FrontTyped ==
  ASSUME TypeOK, NEW buf \in Buffers
  PROVE  Front(buf) \in [at : {0, 1}, made : -1 .. MaxEpoch] /\ Front(buf).made = InFront(buf)
BY DEF TypeOK, Front, InFront

LEMMA ApplyTyped ==
  ASSUME IInv, Apply
  PROVE  TypeOK'
<1> USE DEF leadVars, prepVars, keepVars, bufVars, searchVars, applyVars
<1>0. TypeOK /\ TriggerTypeOK
  BY DEF IInv, TypeOK
<1>1. UNCHANGED <<leadVars, prepVars, done_mask, searchVars, uses, bufVars, keepVars>> /\ TriggerTypeOK'
  BY <1>0 DEF Apply, Warm, TakeMasks, TakeGains, TakeFront, Drawn, TriggerTypeOK
<1>2. apc' \in {"warm", "mask", "gain", "draw"}
  BY DEF Apply, Warm, TakeMasks, TakeGains, TakeFront, Drawn
<1>3. reading' \in [Buffers -> [at : {0, 1}, made : -1 .. MaxEpoch]]
  <2>1. reading \in [Buffers -> [at : {0, 1}, made : -1 .. MaxEpoch]]
    BY <1>0 DEF TypeOK
  <2>2. ASSUME NEW buf \in Buffers, reading' = [reading EXCEPT ![buf] = Front(buf)]
        PROVE  reading' \in [Buffers -> [at : {0, 1}, made : -1 .. MaxEpoch]]
    <3>1. Front(buf) \in [at : {0, 1}, made : -1 .. MaxEpoch]
      BY <1>0, FrontTyped
    <3> HIDE DEF Front
    <3> QED BY <2>1, <2>2, <3>1
  <2>3. Nothing \in [Buffers -> [at : {0, 1}, made : -1 .. MaxEpoch]]
    BY DEF Nothing
  <2> QED BY <2>1, <2>2, <2>3 DEF Apply, Warm, TakeMasks, TakeGains, TakeFront, Drawn, Buffers
<1> QED BY <1>0, <1>1, <1>2, <1>3 DEF TypeOK

----------------------------------------------------------------------------
(* The search: each part of the invariant *)

LEMMA EpochStep ==
  ASSUME IInv, [Next]_vars
  PROVE  EpochInv'
<1> USE DEF leadVars, prepVars, keepVars, bufVars, searchVars, applyVars, vars
<1>0. /\ EpochInv /\ seam_epoch \in Nat /\ e \in Nat /\ last_seen_epoch \in Nat
      /\ searches \in Nat /\ gain_epoch \in Nat
  BY DEF IInv, TypeOK, TriggerTypeOK
<1>1. ASSUME UNCHANGED <<searchVars, gain_epoch>>, seam_epoch' \in {seam_epoch, seam_epoch + 1}
      PROVE  EpochInv'
  BY <1>0, <1>1 DEF EpochInv, Searching
<1>2. ASSUME NEW c \in Cams, Prepare(c) PROVE EpochInv'
  <2>1. UNCHANGED <<searchVars, gain_epoch>>
    BY <1>2 DEF Prepare, Snapshot, Pop, SignalId, LeadDecides
  <2>2. seam_epoch' \in {seam_epoch, seam_epoch + 1}
    BY <1>2 DEF Prepare, Snapshot, Pop, SignalId, LeadDecides, Decide
  <2> QED BY <1>1, <2>1, <2>2
<1>3. CASE Apply \/ UNCHANGED vars
  <2>1. UNCHANGED <<searchVars, gain_epoch, seam_epoch>>
    BY <1>3 DEF Apply, Warm, TakeMasks, TakeGains, TakeFront, Drawn
  <2> QED BY <1>1, <2>1
<1>4. CASE WaitAll
  BY <1>0, <1>4 DEF WaitAll, Step, EpochInv, Searching
<1>5. CASE ReadEpoch
  BY <1>0, <1>5 DEF ReadEpoch, EpochInv, Searching
<1>6. CASE Feed
  BY <1>0, <1>6 DEF Feed, Step, EpochInv, Searching
<1>7. CASE FlipGains
  BY <1>0, <1>7 DEF FlipGains, Step, EpochInv, Searching
<1>8. CASE AnnounceGains
  BY <1>0, <1>8 DEF AnnounceGains, Step, EpochInv, Searching
<1>9. CASE Find
  BY <1>0, <1>9 DEF Find, Step, EpochInv, Searching
<1>10. CASE FlipMasks
  BY <1>0, <1>10 DEF FlipMasks, Step, EpochInv, Searching
<1> QED BY <1>2, <1>3, <1>4, <1>5, <1>6, <1>7, <1>8, <1>9, <1>10 DEF Next, SeamFind

LEMMA UsesStep ==
  ASSUME IInv, [Next]_vars
  PROVE  UsesInv'
<1> USE DEF leadVars, prepVars, keepVars, bufVars, searchVars, applyVars, vars
<1>0. /\ UsesInv /\ done_mask \subseteq Cams /\ uses \in [Cams -> Nat]
      /\ pc \in [Cams -> {"snapshot", "pop", "signal", "decide"}]
  BY DEF IInv, TypeOK
<1>1. CASE UNCHANGED <<spc, uses, done_mask, pc>>
  BY <1>0, <1>1 DEF UsesInv, Chance
<1>2. ASSUME NEW c \in Cams, Prepare(c) PROVE UsesInv'
  <2> SUFFICES ASSUME NEW x \in Cams
               PROVE  uses'[x] + Chance(spc' \in {"epoch", "feed"}) + Chance(x \in done_mask')
                        + Chance(pc'[x] = "signal") <= 3
    BY DEF UsesInv, Chance
  <2>0. /\ uses[x] \in Nat /\ spc' = spc
        /\ uses[x] + Chance(spc \in {"epoch", "feed"}) + Chance(x \in done_mask)
             + Chance(pc[x] = "signal") <= 3
    BY <1>0, <1>2 DEF UsesInv, Prepare, Snapshot, Pop, SignalId, LeadDecides
  <2>1. CASE Snapshot(c) \/ LeadDecides
    BY <1>0, <2>0, <2>1 DEF Snapshot, LeadDecides, Move, Chance
  <2>2. CASE Pop(c)
    <3>1. CASE x = c /\ NeedsImage(c)
      BY <1>0, <2>0, <2>2, <3>1 DEF Pop, Move, Chance
    <3>2. CASE x # c \/ ~NeedsImage(c)
      BY <1>0, <2>0, <2>2, <3>2 DEF Pop, Move, AfterImage, Chance
    <3> QED BY <3>1, <3>2
  <2>3. CASE SignalId(c)
    BY <1>0, <2>0, <2>3 DEF SignalId, Move, AfterImage, Chance
  <2> QED BY <1>2, <2>1, <2>2, <2>3 DEF Prepare
<1>3. CASE Apply
  BY <1>1, <1>3 DEF Apply, Warm, TakeMasks, TakeGains, TakeFront, Drawn
<1>4. CASE SeamFind
  <2> SUFFICES ASSUME NEW x \in Cams
               PROVE  uses'[x] + Chance(spc' \in {"epoch", "feed"}) + Chance(x \in done_mask')
                        + Chance(pc'[x] = "signal") <= 3
    BY DEF UsesInv, Chance
  <2>0. /\ uses[x] \in Nat /\ pc' = pc
        /\ uses[x] + Chance(spc \in {"epoch", "feed"}) + Chance(x \in done_mask)
             + Chance(pc[x] = "signal") <= 3
    BY <1>0, <1>4 DEF UsesInv, SeamFind, WaitAll, ReadEpoch, Feed, FlipGains, AnnounceGains, Find, FlipMasks
  <2>1. CASE WaitAll
    BY <1>0, <2>0, <2>1 DEF WaitAll, Step, Chance
  <2>2. CASE ReadEpoch
    BY <1>0, <2>0, <2>2 DEF ReadEpoch, Chance
  <2>3. CASE Feed
    BY <1>0, <2>0, <2>3 DEF Feed, Step, Chance
  <2>4. CASE FlipGains \/ AnnounceGains \/ FlipMasks
    BY <1>0, <2>0, <2>4 DEF FlipGains, AnnounceGains, FlipMasks, Step, Chance
  <2>5. CASE Find
    BY <1>0, <2>0, <2>5 DEF Find, Step, Chance
  <2> QED BY <1>4, <2>1, <2>2, <2>3, <2>4, <2>5 DEF SeamFind
<1> QED BY <1>1, <1>2, <1>3, <1>4 DEF Next

LEMMA KeepStep ==
  ASSUME IInv, [Next]_vars
  PROVE  KeepInv'
<1> USE DEF leadVars, prepVars, keepVars, bufVars, searchVars, applyVars, vars
<1>0. KeepInv /\ re_seam_12 \in 0 .. KeepFor /\ restored \in Nat /\ KeepFor \in Nat \ {0}
  BY DEF IInv, TypeOK
<1>1. ASSUME UNCHANGED keepVars PROVE KeepInv'
  BY <1>0, <1>1 DEF KeepInv
<1>2. ASSUME NEW c \in Cams, Prepare(c) PROVE KeepInv'
  BY <1>1, <1>2 DEF Prepare, Snapshot, Pop, SignalId, LeadDecides
<1>3. CASE Apply \/ UNCHANGED vars
  BY <1>1, <1>3 DEF Apply, Warm, TakeMasks, TakeGains, TakeFront, Drawn
<1>4. CASE WaitAll \/ ReadEpoch \/ Feed \/ FlipGains \/ AnnounceGains \/ FlipMasks
  BY <1>1, <1>4 DEF WaitAll, ReadEpoch, Feed, FlipGains, AnnounceGains, FlipMasks
<1>5. CASE Find
  <2>1. CASE SaveDue /\ ~UNCHANGED keepVars
    <3>1. saved' = TRUE
      BY <1>5, <2>1 DEF Find
    <3>2. restored' = 0 /\ re_seam_12' = 1
      BY <1>5, <2>1 DEF Find
    <3> QED BY <3>1, <3>2 DEF KeepInv
  <2>2. CASE ~SaveDue /\ ~UNCHANGED keepVars
    <3>1. saved' = saved
      BY <1>5, <2>2 DEF Find
    <3>2. restored' = restored + 1 /\ re_seam_12' = re_seam_12 + 1
      BY <1>5, <2>2 DEF Find
    <3>3. re_seam_12 # 0
      BY <1>0, <2>2, RestOfMultiple DEF SaveDue
    <3>4. saved /\ restored = re_seam_12 - 1
      BY <1>0, <3>3 DEF KeepInv
    <3>5. saved'
      BY <3>1, <3>4
    <3>6. restored' = re_seam_12' - 1 /\ re_seam_12' # 0
      BY <1>0, <3>2, <3>4
    <3> QED BY <3>5, <3>6 DEF KeepInv
  <2> QED BY <1>1, <2>1, <2>2
<1> QED BY <1>2, <1>3, <1>4, <1>5 DEF Next, SeamFind

LEMMA BufStep ==
  ASSUME IInv, [Next]_vars
  PROVE  BufInv'
<1> USE DEF leadVars, prepVars, keepVars, bufVars, searchVars, applyVars, vars
<1>0. /\ BufInv /\ TypeOK /\ EpochInv /\ searches \in Nat
      /\ front \in [Buffers -> {0, 1}] /\ front["gain"] \in {0, 1} /\ front["mask"] \in {0, 1}
      /\ made \in [Buffers -> [{0, 1} -> -1 .. MaxEpoch]]
      /\ "gain" \in Buffers /\ "mask" \in Buffers
  BY DEF IInv, TypeOK, Buffers
<1>1. CASE UNCHANGED <<spc, searches, front, made>>
  BY <1>0, <1>1 DEF BufInv, InFront, InBack, GainsDone, MasksDone, Searching
<1>2. ASSUME NEW c \in Cams, Prepare(c) PROVE BufInv'
  BY <1>1, <1>2 DEF Prepare, Snapshot, Pop, SignalId, LeadDecides
<1>3. CASE Apply
  BY <1>1, <1>3 DEF Apply, Warm, TakeMasks, TakeGains, TakeFront, Drawn
<1>4. CASE WaitAll \/ ReadEpoch \/ AnnounceGains
  <2>1. /\ UNCHANGED <<searches, front, made>>
        /\ spc' \notin {"flip_gain", "flip_mask"} /\ spc \notin {"flip_gain", "flip_mask"}
        /\ Searching' = Searching
    BY <1>4 DEF WaitAll, ReadEpoch, AnnounceGains, Step, Searching
  <2> QED BY <1>0, <2>1 DEF BufInv, InFront, InBack, GainsDone, MasksDone
<1>5. CASE Feed
  <2>1. /\ spc = "feed" /\ spc' = "flip_gain" /\ searches' = searches + 1 /\ UNCHANGED front
        /\ Fill("gain", searches + 1)
    BY <1>5 DEF Feed, Step
  <2>2. searches + 1 \in -1 .. MaxEpoch
    BY <1>0, <2>1, SearchFits
  <2>3. /\ made'["gain"][1 - front["gain"]] = searches + 1
        /\ made'["gain"][front["gain"]] = made["gain"][front["gain"]]
        /\ made'["mask"] = made["mask"]
    BY <1>0, <2>1, <2>2, FillTyped
  <2>4. /\ InFront("gain")' = InFront("gain") /\ InFront("mask")' = InFront("mask")
        /\ InBack("gain")' = searches + 1
    BY <2>1, <2>3 DEF InFront, InBack
  <2>5. GainsDone = searches /\ MasksDone = searches /\ GainsDone' = searches /\ MasksDone' = searches
    BY <1>0, <2>1 DEF GainsDone, MasksDone, Searching
  <2> QED BY <1>0, <2>1, <2>4, <2>5 DEF BufInv
<1>6. CASE FlipGains
  <2>1. /\ spc = "flip_gain" /\ spc' = "announce" /\ UNCHANGED <<searches, made>> /\ Flip("gain")
    BY <1>6 DEF FlipGains, Step
  <2>2. front'["gain"] = 1 - front["gain"] /\ front'["mask"] = front["mask"]
    BY <1>0, <2>1, FlipTyped
  <2>3. InFront("gain")' = InBack("gain") /\ InFront("mask")' = InFront("mask")
    BY <2>1, <2>2 DEF InFront, InBack
  <2>4. /\ GainsDone' = searches /\ MasksDone' = MasksDone /\ searches >= 1
    BY <1>0, <2>1 DEF GainsDone, MasksDone, Searching, EpochInv
  <2> QED BY <1>0, <2>1, <2>3, <2>4 DEF BufInv
<1>7. CASE Find
  <2>1. /\ spc = "find" /\ spc' = "flip_mask" /\ UNCHANGED <<searches, front>> /\ Fill("mask", searches)
    BY <1>7 DEF Find, Step
  <2>2. searches \in -1 .. MaxEpoch
    BY <1>0 DEF TypeOK
  <2>3. /\ made'["mask"][1 - front["mask"]] = searches
        /\ made'["mask"][front["mask"]] = made["mask"][front["mask"]]
        /\ made'["gain"] = made["gain"]
    BY <1>0, <2>1, <2>2, FillTyped
  <2>4. /\ InFront("gain")' = InFront("gain") /\ InFront("mask")' = InFront("mask")
        /\ InBack("mask")' = searches
    BY <2>1, <2>3 DEF InFront, InBack
  <2>5. GainsDone' = GainsDone /\ MasksDone' = MasksDone
    BY <1>0, <2>1 DEF GainsDone, MasksDone, Searching
  <2> QED BY <1>0, <2>1, <2>4, <2>5 DEF BufInv
<1>8. CASE FlipMasks
  <2>1. /\ spc = "flip_mask" /\ spc' = "wait" /\ UNCHANGED <<searches, made>> /\ Flip("mask")
    BY <1>8 DEF FlipMasks, Step
  <2>2. front'["mask"] = 1 - front["mask"] /\ front'["gain"] = front["gain"]
    BY <1>0, <2>1, FlipTyped
  <2>3. InFront("mask")' = InBack("mask") /\ InFront("gain")' = InFront("gain")
    BY <2>1, <2>2 DEF InFront, InBack
  <2>4. GainsDone' = GainsDone /\ MasksDone' = searches
    BY <1>0, <2>1 DEF GainsDone, MasksDone, Searching
  <2> QED BY <1>0, <2>1, <2>3, <2>4 DEF BufInv
<1> QED BY <1>1, <1>2, <1>3, <1>4, <1>5, <1>6, <1>7, <1>8 DEF Next, SeamFind

\* What is in front only gets newer; a search fills the buffer behind it
\* with something newer still.
LEMMA BuffersAge ==
  ASSUME IInv, SeamFind, NEW buf \in Buffers
  PROVE  \/ UNCHANGED <<front[buf], made[buf]>>
         \/ /\ front'[buf] = front[buf] /\ made'[buf][front[buf]] = made[buf][front[buf]]
            /\ made'[buf][1 - front[buf]] >= made[buf][front[buf]] + 1
         \/ /\ made'[buf] = made[buf] /\ front'[buf] = 1 - front[buf]
            /\ made[buf][1 - front[buf]] >= made[buf][front[buf]] + 1
<1> USE DEF leadVars, prepVars, keepVars, bufVars, searchVars, applyVars
<1>0. /\ BufInv /\ TypeOK /\ EpochInv /\ searches \in Nat
      /\ "gain" \in Buffers /\ "mask" \in Buffers /\ buf \in {"gain", "mask"}
  BY DEF IInv, TypeOK, Buffers
<1>1. CASE WaitAll \/ ReadEpoch \/ AnnounceGains
  BY <1>1 DEF WaitAll, ReadEpoch, AnnounceGains
<1>2. CASE Feed
  <2>1. spc = "feed" /\ UNCHANGED front /\ Fill("gain", searches + 1)
    BY <1>2 DEF Feed, Step
  <2>2. searches + 1 \in -1 .. MaxEpoch
    BY <1>0, <2>1, SearchFits
  <2>3. made["gain"][front["gain"]] <= searches
    BY <1>0, <2>1 DEF BufInv, InFront, GainsDone
  <2>4. made["gain"][front["gain"]] \in Int
    BY <1>0 DEF TypeOK
  <2>5. /\ made'["gain"][1 - front["gain"]] = searches + 1
        /\ made'["gain"][front["gain"]] = made["gain"][front["gain"]]
        /\ made'["mask"] = made["mask"]
    BY <1>0, <2>1, <2>2, FillTyped
  <2> QED BY <1>0, <2>1, <2>3, <2>4, <2>5
<1>3. CASE FlipGains
  <2>1. spc = "flip_gain" /\ UNCHANGED made /\ Flip("gain")
    BY <1>3 DEF FlipGains, Step
  <2>2. front'["gain"] = 1 - front["gain"] /\ front'["mask"] = front["mask"]
    BY <1>0, <2>1, FlipTyped
  <2>3. /\ made["gain"][1 - front["gain"]] = searches /\ searches >= 1
        /\ made["gain"][front["gain"]] <= searches - 1 /\ made["gain"][front["gain"]] \in Int
    BY <1>0, <2>1 DEF BufInv, InFront, InBack, GainsDone, EpochInv, Searching, TypeOK
  <2> QED BY <1>0, <2>1, <2>2, <2>3
<1>4. CASE Find
  <2>1. spc = "find" /\ UNCHANGED front /\ Fill("mask", searches)
    BY <1>4 DEF Find, Step
  <2>2. searches \in -1 .. MaxEpoch
    BY <1>0 DEF TypeOK
  <2>3. made["mask"][front["mask"]] = searches - 1
    BY <1>0, <2>1 DEF BufInv, InFront, MasksDone, Searching
  <2>4. /\ made'["mask"][1 - front["mask"]] = searches
        /\ made'["mask"][front["mask"]] = made["mask"][front["mask"]]
        /\ made'["gain"] = made["gain"]
    BY <1>0, <2>1, <2>2, FillTyped
  <2> QED BY <1>0, <2>1, <2>3, <2>4
<1>5. CASE FlipMasks
  <2>1. spc = "flip_mask" /\ UNCHANGED made /\ Flip("mask")
    BY <1>5 DEF FlipMasks, Step
  <2>2. front'["mask"] = 1 - front["mask"] /\ front'["gain"] = front["gain"]
    BY <1>0, <2>1, FlipTyped
  <2>3. made["mask"][1 - front["mask"]] = searches /\ made["mask"][front["mask"]] = searches - 1
    BY <1>0, <2>1 DEF BufInv, InFront, InBack, MasksDone, Searching
  <2> QED BY <1>0, <2>1, <2>2, <2>3
<1> QED BY <1>1, <1>2, <1>3, <1>4, <1>5 DEF SeamFind

\* What the kernels read keeps its promise while a search goes on ...
LEMMA HoldsOn ==
  ASSUME IInv, SeamFind, NEW buf \in Buffers, Holds(buf)
  PROVE  Holds(buf)' /\ InFront(buf) <= InFront(buf)'
<1> DEFINE r == reading[buf]
           f == front[buf]
<1>1. /\ f \in {0, 1} /\ r.at \in {0, 1} /\ r.made \in Int
      /\ made[buf][0] \in Int /\ made[buf][1] \in Int
      /\ made'[buf][0] \in Int /\ made'[buf][1] \in Int
  <2>1. TypeOK /\ TypeOK'
    BY SearchTyped DEF IInv
  <2> QED BY <2>1 DEF TypeOK
<1>2. UNCHANGED reading
  BY DEF SeamFind, WaitAll, ReadEpoch, Feed, FlipGains, AnnounceGains, Find, FlipMasks, applyVars
<1>3. /\ r.made <= made[buf][f]
      /\ r.at # f => r.made + 1 <= made[buf][f]
      /\ made[buf][r.at] = r.made \/ made[buf][r.at] >= r.made + 2
  BY DEF Holds, InFront
<1> DEFINE g == front'[buf]
<1>4. /\ r.made <= made'[buf][g]
      /\ r.at # g => r.made + 1 <= made'[buf][g]
      /\ made'[buf][r.at] = r.made \/ made'[buf][r.at] >= r.made + 2
      /\ made[buf][f] <= made'[buf][g]
  <2>1. CASE g = f /\ made'[buf] = made[buf]
    BY <1>1, <1>3, <2>1
  <2>2. CASE /\ g = f /\ made'[buf][f] = made[buf][f]
             /\ made'[buf][1 - f] >= made[buf][f] + 1
    BY <1>1, <1>3, <2>2
  <2>3. CASE /\ made'[buf] = made[buf] /\ g = 1 - f
             /\ made[buf][1 - f] >= made[buf][f] + 1
    BY <1>1, <1>3, <2>3
  <2> QED BY <2>1, <2>2, <2>3, BuffersAge
<1> QED BY <1>2, <1>4 DEF Holds, InFront

\* ... and holds when they begin to read.
LEMMA HoldsAtFirst ==
  ASSUME IInv, NEW buf \in Buffers, reading' = [reading EXCEPT ![buf] = Front(buf)],
         UNCHANGED <<front, made>>
  PROVE  Holds(buf)' /\ reading'[buf].made = InFront(buf)
<1>1. reading \in [Buffers -> [at : {0, 1}, made : -1 .. MaxEpoch]]
  BY DEF IInv, TypeOK
<1>2. reading'[buf].at = front[buf] /\ reading'[buf].made = made[buf][front[buf]]
  BY <1>1 DEF Front
<1>3. made[buf][front[buf]] \in Int
  BY DEF IInv, TypeOK
<1> QED BY <1>2, <1>3 DEF Holds, InFront

LEMMA FrontAges ==
  ASSUME IInv, SeamFind, NEW buf \in Buffers
  PROVE  InFront(buf) <= InFront(buf)'
<1>1. /\ front[buf] \in {0, 1} /\ front'[buf] \in {0, 1}
      /\ made[buf][0] \in Int /\ made[buf][1] \in Int
      /\ made'[buf][0] \in Int /\ made'[buf][1] \in Int
  <2>1. TypeOK /\ TypeOK'
    BY SearchTyped DEF IInv
  <2> QED BY <2>1 DEF TypeOK
<1> QED BY <1>1, BuffersAge DEF InFront

\* Once gains were announced those in front are some search's, and the masks
\* in front are not of a later one.
LEMMA GainsLead ==
  ASSUME IInv, gain_epoch >= 1
  PROVE  InFront("gain") >= 1 /\ InFront("mask") <= InFront("gain")
<1>1. searches \in Nat /\ BufInv /\ EpochInv
  BY DEF IInv, TypeOK
<1>2. GainsDone >= 1 /\ GainsDone \in Nat /\ MasksDone <= GainsDone
  BY <1>1 DEF EpochInv, GainsDone, MasksDone, Searching
<1> QED BY <1>1, <1>2 DEF BufInv

LEMMA ReadStep ==
  ASSUME IInv, [Next]_vars
  PROVE  ReadInv'
<1> USE DEF leadVars, prepVars, keepVars, bufVars, searchVars, applyVars, vars
<1>0. /\ ReadInv /\ gain_epoch \in Nat /\ "gain" \in Buffers /\ "mask" \in Buffers
      /\ reading \in [Buffers -> [at : {0, 1}, made : -1 .. MaxEpoch]]
  BY DEF IInv, TypeOK, Buffers
<1>1. ASSUME UNCHANGED <<apc, reading, front, made, gain_epoch>> PROVE ReadInv'
  BY <1>0, <1>1 DEF ReadInv, Reads, Holds, InFront, GainsAreThere
<1>2. ASSUME NEW c \in Cams, Prepare(c) PROVE ReadInv'
  BY <1>1, <1>2 DEF Prepare, Snapshot, Pop, SignalId, LeadDecides
<1>3. CASE UNCHANGED vars
  BY <1>1, <1>3
<1>4. CASE SeamFind
  <2>1. UNCHANGED <<apc, reading>> /\ gain_epoch' >= gain_epoch /\ gain_epoch' \in Nat
    BY <1>0, <1>4 DEF SeamFind, WaitAll, ReadEpoch, Feed, FlipGains, AnnounceGains, Find, FlipMasks
  <2>2. \A buf \in Buffers : Reads(buf)' => Holds(buf)'
    BY <1>0, <1>4, <2>1, HoldsOn DEF ReadInv, Reads
  <2>3. InFront("gain") <= InFront("gain")' /\ InFront("gain") \in Int /\ InFront("gain")' \in Int
    <3>1. TypeOK /\ TypeOK'
      BY <1>4, SearchTyped DEF IInv
    <3>2. InFront("gain") \in Int
      BY <1>0, <3>1 DEF TypeOK, InFront
    <3>3. InFront("gain")' \in Int
      BY <1>0, <3>1 DEF TypeOK, InFront
    <3> QED BY <1>0, <1>4, <3>2, <3>3, FrontAges
  <2>4. apc' = "gain" => reading'["mask"].made <= InFront("gain")'
    BY <1>0, <2>1, <2>3 DEF ReadInv
  <2>5. GainsAreThere' /\ (apc' # "warm" => gain_epoch' >= 1)
    BY <1>0, <2>1 DEF ReadInv, GainsAreThere
  <2> QED BY <2>2, <2>4, <2>5 DEF ReadInv
<1>5. CASE Warm
  <2>1. apc' = "mask" /\ gain_epoch' >= 1
    BY <1>0, <1>5 DEF Warm
  <2> QED BY <2>1 DEF ReadInv, Reads, GainsAreThere
<1>6. CASE TakeMasks
  <2>1. /\ apc = "mask" /\ apc' = "gain" /\ UNCHANGED <<front, made, gain_epoch>>
        /\ reading' = [reading EXCEPT !["mask"] = Front("mask")]
    BY <1>6 DEF TakeMasks, TakeFront
  <2>2. Holds("mask")' /\ reading'["mask"].made = InFront("mask")
    BY <1>0, <2>1, HoldsAtFirst
  <2>3. gain_epoch >= 1 /\ InFront("mask") <= InFront("gain") /\ InFront("gain")' = InFront("gain")
    BY <1>0, <2>1, GainsLead DEF ReadInv, InFront
  <2> QED BY <2>1, <2>2, <2>3 DEF ReadInv, Reads, GainsAreThere
<1>7. CASE TakeGains
  <2>1. /\ apc = "gain" /\ apc' = "draw" /\ UNCHANGED <<front, made, gain_epoch>>
        /\ reading' = [reading EXCEPT !["gain"] = Front("gain")]
    BY <1>7 DEF TakeGains, TakeFront
  <2>2. Holds("gain")' /\ reading'["gain"].made = InFront("gain")
    BY <1>0, <2>1, HoldsAtFirst
  <2>3. gain_epoch >= 1 /\ InFront("gain") >= 1
    BY <1>0, <2>1, GainsLead DEF ReadInv
  <2>4. reading'["mask"] = reading["mask"]
    BY <1>0, <2>1
  <2>5. Holds("mask")'
    BY <1>0, <2>1, <2>4 DEF ReadInv, Reads, Holds, InFront
  <2>6. reading["mask"].made <= InFront("gain")
    BY <1>0, <2>1 DEF ReadInv
  <2>7. \A buf \in Buffers : Holds(buf)'
    BY <2>2, <2>5 DEF Buffers
  <2> QED BY <2>1, <2>2, <2>3, <2>4, <2>6, <2>7 DEF ReadInv, GainsAreThere
<1>8. CASE Drawn
  <2>1. apc' = "mask" /\ gain_epoch' >= 1
    BY <1>0, <1>8 DEF Drawn, ReadInv
  <2> QED BY <2>1 DEF ReadInv, Reads, GainsAreThere
<1> QED BY <1>2, <1>3, <1>4, <1>5, <1>6, <1>7, <1>8 DEF Next, Apply

----------------------------------------------------------------------------
(* The theorems *)

LEMMA StepInv == IInv /\ [Next]_vars => IInv'
<1> SUFFICES ASSUME IInv, [Next]_vars PROVE IInv'
  OBVIOUS
<1> USE DEF leadVars, prepVars, keepVars, bufVars, searchVars, applyVars, vars
<1>1. TypeOK'
  <2>1. CASE UNCHANGED vars
    BY <2>1 DEF IInv, TypeOK, TriggerTypeOK
  <2> QED BY <2>1, SearchTyped, PrepareTyped, ApplyTyped DEF Next
<1>2. TriggerInv'
  <2>1. CASE UNCHANGED leadVars
    BY <2>1 DEF IInv, TriggerInv, TriggerTypeOK, SearchesKeepComing, FirstIsDue
  <2>2. CASE LeadDecides
    BY <2>2, DecideInv DEF LeadDecides, IInv
  <2>3. UNCHANGED leadVars \/ LeadDecides
    BY DEF Next, SeamFind, WaitAll, ReadEpoch, Feed, FlipGains, AnnounceGains, Find, FlipMasks,
           Apply, Warm, TakeMasks, TakeGains, TakeFront, Drawn, Prepare, Snapshot, Pop, SignalId
  <2> QED BY <2>1, <2>2, <2>3
<1> QED BY <1>1, <1>2, EpochStep, UsesStep, KeepStep, BufStep, ReadStep DEF IInv

LEMMA InvAlways == Spec => []IInv
BY InitInv, StepInv, PTL DEF Spec

\* For any number of cameras and epochs: no image is used by more than three
\* searches, and the kept seam was saved and is replaced in time.
THEOREM SearchIsOfItsTime == Spec => []SeamInv
<1>1. IInv => SeamInv
  <2> SUFFICES ASSUME IInv PROVE SeamInv
    OBVIOUS
  <2>1. ImagesAreReplaced
    BY DEF IInv, UsesInv, Chance, TypeOK, ImagesAreReplaced
  <2>2. KeptSeamIsReplaced
    BY DEF IInv, KeepInv, TypeOK, KeptSeamIsReplaced
  <2> QED BY <2>1, <2>2 DEF IInv, SeamInv
<1> QED BY <1>1, InvAlways, PTL

\* However slow the apply thread is and whenever the search flips: what it
\* draws with is there, belongs together, and stays for a whole search.
THEOREM ReaderIsAlwaysSafe == Spec => []ReaderIsSafe
<1>1. IInv => ReaderIsSafe
  <2> SUFFICES ASSUME IInv PROVE ReaderIsSafe
    OBVIOUS
  <2>1. GainsAreThere
    BY DEF IInv, ReadInv
  <2>2. FrontIsStable
    BY DEF IInv, ReadInv, Reads, Holds, FrontIsStable, Buffers
  <2> QED BY <2>1, <2>2 DEF ReaderIsSafe
<1> QED BY <1>1, InvAlways, PTL
=============================================================================
