-------------------------- MODULE ApplyJoinProofs --------------------------
(***************************************************************************)
(* Theorems of ApplyJoin for any number of cameras, blenders and samples.  *)
(* They rest on three invariants: what is typed (TypeOK), where the        *)
(* blenders are (BlendersConserved, BlendsOnClean) and, camera by camera,  *)
(* how the numbers of its sample, its queued frame, its frame in this      *)
(* round and in the last panorama are ordered (CamOrder) and how many      *)
(* signals without a frame it can still have (CamMisses).                  *)
(***************************************************************************)
EXTENDS ApplyJoin, SequenceTheorems, TLAPS

(* Sequences without duplicates *)

LEMMA AppendElems ==
  ASSUME NEW S, NEW s \in Seq(S), NEW e \in S
  PROVE  /\ Append(s, e) \in Seq(S)
         /\ Elems(Append(s, e)) = Elems(s) \cup {e}
         /\ NoDuplicates(s) /\ e \notin Elems(s) => NoDuplicates(Append(s, e))
<1>1. /\ Append(s, e) \in Seq(S)
      /\ Len(s) \in Nat /\ Len(Append(s, e)) = Len(s) + 1
      /\ \A i \in 1 .. Len(s) : Append(s, e)[i] = s[i]
      /\ Append(s, e)[Len(s) + 1] = e
  BY AppendProperties, LenProperties
<1>2. Elems(Append(s, e)) = Elems(s) \cup {e}
  <2>1. 1 .. Len(s) + 1 = (1 .. Len(s)) \cup {Len(s) + 1}
    BY <1>1
  <2> QED BY <1>1, <2>1 DEF Elems
<1>3. ASSUME NoDuplicates(s), e \notin Elems(s) PROVE NoDuplicates(Append(s, e))
  BY <1>1, <1>3 DEF NoDuplicates, Elems
<1> QED BY <1>1, <1>2, <1>3

LEMMA TailElems ==
  ASSUME NEW S, NEW s \in Seq(S), s # <<>>, NoDuplicates(s)
  PROVE  /\ Tail(s) \in Seq(S)
         /\ Head(s) \in S /\ Head(s) \in Elems(s)
         /\ Elems(Tail(s)) = Elems(s) \ {Head(s)}
         /\ NoDuplicates(Tail(s))
<1>1. /\ Tail(s) \in Seq(S) /\ Head(s) \in S
      /\ Len(s) \in Nat \ {0}
      /\ Len(Tail(s)) = Len(s) - 1
      /\ \A i \in 1 .. Len(Tail(s)) : Tail(s)[i] = s[i + 1]
      /\ Head(s) = s[1]
  BY HeadTailProperties, EmptySeq
<1>2. NoDuplicates(Tail(s))
  BY <1>1 DEF NoDuplicates
<1>3. Elems(Tail(s)) \subseteq Elems(s) \ {Head(s)}
  BY <1>1 DEF Elems, NoDuplicates
<1>4. Elems(s) \ {Head(s)} \subseteq Elems(Tail(s))
  <2> SUFFICES ASSUME NEW i \in 1 .. Len(s), s[i] # Head(s) PROVE s[i] \in Elems(Tail(s))
    BY DEF Elems
  <2>1. i - 1 \in 1 .. Len(Tail(s)) /\ Tail(s)[i - 1] = s[i]
    BY <1>1
  <2> QED BY <2>1 DEF Elems
<1>5. Head(s) \in Elems(s)
  BY <1>1 DEF Elems
<1> QED BY <1>1, <1>2, <1>3, <1>4, <1>5

----------------------------------------------------------------------------
(* Type correctness *)

LEMMA InitPool == Init => pool \in [1 .. BLENDER_POOL_SIZE -> Blenders] /\ pool \in Seq(Blenders)
<1> SUFFICES ASSUME Init
             PROVE  pool \in [1 .. BLENDER_POOL_SIZE -> Blenders] /\ pool \in Seq(Blenders)
  OBVIOUS
<1>1. pool \in [1 .. BLENDER_POOL_SIZE -> Blenders]
  BY DEF Init, Blenders
<1>2. Seq(Blenders) = UNION {[1 .. n -> Blenders] : n \in Nat}
  BY SeqDef
<1>3. [1 .. BLENDER_POOL_SIZE -> Blenders] \in {[1 .. n -> Blenders] : n \in Nat}
  BY PoolAssumption
<1>4. ASSUME NEW P, NEW p, p \in P, P \in {[1 .. n -> Blenders] : n \in Nat}
      PROVE  p \in UNION {[1 .. n -> Blenders] : n \in Nat}
  BY <1>4
<1> QED BY <1>1, <1>2, <1>3, <1>4

LEMMA InitTyped == Init => TypeOK
<1> SUFFICES ASSUME Init PROVE TypeOK
  OBVIOUS
<1>1. None \in FrameSeq
  BY MaxSeqAssumption DEF None, FrameSeq
<1>2. <<>> \in Seq(Blenders)
  BY EmptySeq
<1>3. pool \in Seq(Blenders)
  BY InitPool
<1>4. 0 \in 0 .. NumCams
  BY NumCamsAssumption
<1>5. /\ seq \in [Cams -> FrameSeq] /\ q_blend \in [Cams -> FrameSeq]
      /\ cur \in [Cams -> FrameSeq] /\ pano \in [Cams -> FrameSeq]
      /\ signalled \in [Cams -> FrameSeq] /\ joined \in [Cams -> FrameSeq]
  BY <1>1 DEF Init, None
<1>6. misses \in [Cams -> 0 .. 3] /\ capture \in [Cams -> {"pull", "push", "signal"}]
  BY DEF Init
<1> QED BY <1>2, <1>3, <1>4, <1>5, <1>6 DEF Init, TypeOK

LEMMA CaptureTyped == TypeOK /\ CaptureNext => TypeOK'
<1> SUFFICES ASSUME TypeOK, NEW c \in Cams, Pull(c) \/ Push(c) \/ SignalId(c)
             PROVE  TypeOK'
  BY DEF CaptureNext
<1>1. CASE Pull(c)
  <2>1. seq' \in [Cams -> FrameSeq]
    BY <1>1, MaxSeqAssumption DEF Pull, TypeOK, FrameSeq, None
  <2>2. capture' \in [Cams -> {"pull", "push", "signal"}]
    BY <1>1 DEF Pull, Advance, Following, TypeOK
  <2> QED BY <1>1, <2>1, <2>2 DEF Pull, TypeOK, blenders, history
<1>2. CASE Push(c)
  <2>1. q_blend' \in [Cams -> FrameSeq]
    BY <1>2 DEF Push, TypeOK
  <2>2. capture' \in [Cams -> {"pull", "push", "signal"}]
    BY <1>2 DEF Push, Advance, Following, TypeOK
  <2> QED BY <1>2, <2>1, <2>2 DEF Push, TypeOK, blenders, history
<1>3. CASE SignalId(c)
  <2>1. signalled' \in [Cams -> FrameSeq] /\ done_mask' \in SUBSET Cams
    BY <1>3 DEF SignalId, TypeOK
  <2>2. capture' \in [Cams -> {"pull", "push", "signal"}]
    BY <1>3 DEF SignalId, Advance, Following, TypeOK
  <2> QED BY <1>3, <2>1, <2>2 DEF SignalId, TypeOK, blenders, history
<1> QED BY <1>1, <1>2, <1>3

LEMMA ApplyTyped == TypeOK /\ ApplyNext => TypeOK'
<1> SUFFICES ASSUME TypeOK, ApplyNext PROVE TypeOK'
  OBVIOUS
<1>0. None \in FrameSeq /\ 0 \in 0 .. NumCams
  BY MaxSeqAssumption, NumCamsAssumption DEF None, FrameSeq
<1>1. CASE WaitGain \/ ApplyExit
  BY <1>1 DEF WaitGain, ApplyExit, TypeOK, cameras, blenders, history
<1>2. CASE WaitAll
  BY <1>0, <1>2 DEF WaitAll, TypeOK, cameras, blenders
<1>3. CASE TryPopLatest
  <2>1. tried' \in 0 .. NumCams /\ tried \in Cams
    BY <1>3, NumCamsAssumption DEF TryPopLatest, TypeOK, Cams
  <2>2. cur' \in [Cams -> FrameSeq] /\ q_blend' \in [Cams -> FrameSeq]
    BY <1>0, <1>3, <2>1 DEF TryPopLatest, TypeOK
  <2> QED BY <1>3, <2>1, <2>2 DEF TryPopLatest, TypeOK, cameras, blenders, history
<1>4. CountMisses => misses' \in [Cams -> 0 .. 3]
  BY DEF CountMisses, TypeOK
<1>5. CASE DropRound
  BY <1>0, <1>4, <1>5 DEF DropRound, TypeOK, cameras, blenders
<1>6. CASE TakeBlender
  <2>1. ptr' \in SUBSET Blenders /\ pool' \in Seq(Blenders)
    BY <1>6, HeadTailProperties DEF TakeBlender, TypeOK
  <2> QED BY <1>4, <1>6, <2>1 DEF TakeBlender, TypeOK, cameras
<1>7. CASE Blend
  BY <1>0, <1>7 DEF Blend, TypeOK, cameras, history
<1>8. CASE Recycle
  <2>1. dirty' \in Seq(Blenders)
    BY <1>8, AppendProperties DEF Recycle, TypeOK
  <2> QED BY <1>8, <2>1 DEF Recycle, TypeOK, cameras, history
<1> QED BY <1>1, <1>2, <1>3, <1>5, <1>6, <1>7, <1>8 DEF ApplyNext

LEMMA OthersTyped == TypeOK /\ (GainReady \/ PrepareNext \/ RequestStop) => TypeOK'
<1> SUFFICES ASSUME TypeOK, GainReady \/ PrepareNext \/ RequestStop PROVE TypeOK'
  OBVIOUS
<1>1. CASE GainReady
  BY <1>1 DEF GainReady, TypeOK, cameras, blenders, history
<1>2. CASE PrepareTake
  <2>1. preparing' \in SUBSET Blenders /\ dirty' \in Seq(Blenders)
    BY <1>2, HeadTailProperties DEF PrepareTake, TypeOK
  <2> QED BY <1>2, <2>1 DEF PrepareTake, TypeOK, cameras, history
<1>3. CASE Prepare
  <2>1. pool' \in Seq(Blenders) /\ clean' \in SUBSET Blenders
    BY <1>3, AppendProperties DEF Prepare, TypeOK
  <2> QED BY <1>3, <2>1 DEF Prepare, TypeOK, cameras, history
<1>4. CASE RequestStop
  BY <1>4 DEF RequestStop, TypeOK, cameras, blenders, history
<1> QED BY <1>1, <1>2, <1>3, <1>4 DEF PrepareNext

LEMMA StepTyped == TypeOK /\ [Next]_vars => TypeOK'
<1> SUFFICES ASSUME TypeOK, [Next]_vars PROVE TypeOK'
  OBVIOUS
<1>1. CASE UNCHANGED vars
  BY <1>1 DEF vars, TypeOK
<1> QED BY <1>1, CaptureTyped, ApplyTyped, OthersTyped DEF Next

\* Every state is well typed.
THEOREM TypeCorrect == Spec => []TypeOK
BY InitTyped, StepTyped, PTL DEF Spec

----------------------------------------------------------------------------
(* The blenders *)

\* At most one blender is in each pair of hands, when its program counter says
\* so; those offered for the next round are clean.
Hands ==
  /\ ptr # {} <=> apply \in {"blend", "recycle"}
  /\ \A a, b \in ptr : a = b
  /\ \A a, b \in preparing : a = b
  /\ Elems(pool) \subseteq clean
  /\ BlendsOnClean

BlenderInv == BlendersConserved /\ Hands

LEMMA SameInterval == \A a \in Nat, b \in Nat \ {0} : 1 .. a = 1 .. b => a = b
<1> SUFFICES ASSUME NEW a \in Nat, NEW b \in Nat, b # 0, 1 .. a = 1 .. b PROVE a = b
  OBVIOUS
<1>1. b \in 1 .. b
  OBVIOUS
<1>2. b <= a
  BY <1>1
<1>3. a \in 1 .. a
  BY <1>2
<1>4. a <= b
  BY <1>3
<1> QED BY <1>2, <1>4

LEMMA InitBlenders == Init => BlenderInv
<1> SUFFICES ASSUME Init PROVE BlenderInv
  OBVIOUS
<1>1. Len(pool) = BLENDER_POOL_SIZE /\ \A i \in 1 .. BLENDER_POOL_SIZE : pool[i] = i
  <2>1. pool \in [1 .. BLENDER_POOL_SIZE -> Blenders]
    BY InitPool
  <2>2. pool \in Seq(Blenders)
    BY InitPool
  <2>3. Len(pool) \in Nat /\ DOMAIN pool = 1 .. Len(pool)
    BY <2>2, LenProperties
  <2>4. 1 .. Len(pool) = 1 .. BLENDER_POOL_SIZE
    BY <2>1, <2>3
  <2>5. Len(pool) = BLENDER_POOL_SIZE
    BY <2>3, <2>4, PoolAssumption, SameInterval
  <2> QED BY <2>5 DEF Init, Blenders
<1>2. Elems(pool) = Blenders /\ NoDuplicates(pool)
  BY <1>1 DEF Elems, NoDuplicates, Blenders
<1>3. Elems(<<>>) = {} /\ NoDuplicates(<<>>)
  BY EmptySeq DEF Elems, NoDuplicates
<1>4. dirty = <<>> /\ ptr = {} /\ preparing = {} /\ clean = Blenders /\ apply = "gain"
  BY DEF Init
<1>5. BlendersConserved
  BY <1>2, <1>3, <1>4 DEF BlendersConserved
<1> QED BY <1>2, <1>4, <1>5 DEF BlenderInv, Hands, BlendsOnClean

LEMMA StepBlenders == TypeOK /\ BlenderInv /\ [Next]_vars => BlenderInv'
<1> SUFFICES ASSUME TypeOK, BlenderInv, [Next]_vars PROVE BlenderInv'
  OBVIOUS
<1>0. pool \in Seq(Blenders) /\ dirty \in Seq(Blenders)
      /\ ptr \subseteq Blenders /\ preparing \subseteq Blenders
      /\ NoDuplicates(pool) /\ NoDuplicates(dirty)
  BY DEF TypeOK, BlenderInv, BlendersConserved
<1>1. CASE UNCHANGED <<ptr, blenders, apply>>
  BY <1>1 DEF blenders, BlenderInv, BlendersConserved, Hands, BlendsOnClean, Elems, NoDuplicates
<1>2. CASE /\ UNCHANGED <<ptr, blenders>>
           /\ apply \notin {"blend", "recycle"} /\ apply' \notin {"blend", "recycle"}
  <2>1. UNCHANGED <<ptr, pool, dirty, preparing, clean>>
    BY <1>2 DEF blenders
  <2>2. BlendersConserved'
    <3>1. Elems(pool)' = Elems(pool) /\ Elems(dirty)' = Elems(dirty)
      BY <2>1 DEF Elems
    <3>2. (NoDuplicates(pool)' <=> NoDuplicates(pool)) /\ (NoDuplicates(dirty)' <=> NoDuplicates(dirty))
      BY <2>1 DEF NoDuplicates
    <3> QED BY <2>1, <3>1, <3>2 DEF BlenderInv, BlendersConserved
  <2>3. BlendsOnClean' /\ (ptr' # {} <=> apply' \in {"blend", "recycle"})
    BY <1>2, <2>1 DEF BlenderInv, Hands, BlendsOnClean
  <2>4. /\ \A a, b \in ptr' : a = b
        /\ \A a, b \in preparing' : a = b
        /\ Elems(pool)' \subseteq clean'
    BY <2>1 DEF BlenderInv, Hands, Elems
  <2> QED BY <2>2, <2>3, <2>4 DEF BlenderInv, Hands
<1>3. CASE TakeBlender
  <2>1. /\ pool # <<>> /\ pool' = Tail(pool) /\ ptr' = {Head(pool)} /\ apply' = "blend"
        /\ ptr = {} /\ UNCHANGED <<dirty, preparing, clean>>
    BY <1>3 DEF TakeBlender, BlenderInv, Hands
  <2>2. /\ Head(pool) \in Elems(pool) /\ NoDuplicates(Tail(pool))
        /\ Elems(Tail(pool)) = Elems(pool) \ {Head(pool)}
    BY <1>0, <2>1, TailElems
  <2>3. Elems(pool)' = Elems(pool) \ {Head(pool)} /\ NoDuplicates(pool)'
        /\ Elems(dirty)' = Elems(dirty) /\ NoDuplicates(dirty)'
    <3>1. Elems(pool)' = Elems(Tail(pool)) /\ (NoDuplicates(pool)' <=> NoDuplicates(Tail(pool)))
      BY <2>1 DEF Elems, NoDuplicates
    <3>2. Elems(dirty)' = Elems(dirty) /\ (NoDuplicates(dirty)' <=> NoDuplicates(dirty))
      BY <2>1 DEF Elems, NoDuplicates
    <3> QED BY <1>0, <2>2, <3>1, <3>2
  <2>4. BlendersConserved'
    BY <2>1, <2>2, <2>3 DEF BlenderInv, BlendersConserved
  <2> QED BY <2>1, <2>2, <2>3, <2>4 DEF BlenderInv, Hands, BlendsOnClean
<1>4. CASE Blend
  <2>1. /\ UNCHANGED <<ptr, pool, dirty, preparing>> /\ clean' = clean \ ptr
        /\ apply = "blend" /\ apply' = "recycle"
    BY <1>4 DEF Blend
  <2> QED BY <2>1 DEF BlenderInv, BlendersConserved, Hands, BlendsOnClean, Elems, NoDuplicates
<1>5. CASE Recycle
  <2>1. PICK b \in ptr : dirty' = Append(dirty, b)
    BY <1>5 DEF Recycle
  <2>2. ptr = {b} /\ ptr' = {} /\ apply' = "wait" /\ UNCHANGED <<pool, preparing, clean>>
    BY <1>5, <2>1 DEF Recycle, BlenderInv, Hands
  <2>3. b \in Blenders /\ b \notin Elems(dirty)
    BY <1>0, <2>1 DEF BlenderInv, BlendersConserved
  <2>4. Elems(Append(dirty, b)) = Elems(dirty) \cup {b} /\ NoDuplicates(Append(dirty, b))
    BY <1>0, <2>3, AppendElems
  <2>5. Elems(dirty)' = Elems(dirty) \cup {b} /\ NoDuplicates(dirty)'
        /\ Elems(pool)' = Elems(pool) /\ NoDuplicates(pool)'
    BY <1>0, <2>1, <2>2, <2>4 DEF Elems, NoDuplicates
  <2>6. BlendersConserved'
    BY <2>1, <2>2, <2>3, <2>5 DEF BlenderInv, BlendersConserved
  <2> QED BY <2>2, <2>5, <2>6 DEF BlenderInv, Hands, BlendsOnClean
<1>6. CASE PrepareTake
  <2>1. /\ dirty # <<>> /\ dirty' = Tail(dirty) /\ preparing' = {Head(dirty)}
        /\ preparing = {} /\ UNCHANGED <<pool, ptr, clean, apply>>
    BY <1>6 DEF PrepareTake
  <2>2. /\ Head(dirty) \in Elems(dirty) /\ NoDuplicates(Tail(dirty))
        /\ Elems(Tail(dirty)) = Elems(dirty) \ {Head(dirty)}
    BY <1>0, <2>1, TailElems
  <2>3. Elems(dirty)' = Elems(dirty) \ {Head(dirty)} /\ NoDuplicates(dirty)'
        /\ Elems(pool)' = Elems(pool) /\ NoDuplicates(pool)'
    <3>1. Elems(dirty)' = Elems(Tail(dirty)) /\ (NoDuplicates(dirty)' <=> NoDuplicates(Tail(dirty)))
      BY <2>1 DEF Elems, NoDuplicates
    <3>2. Elems(pool)' = Elems(pool) /\ (NoDuplicates(pool)' <=> NoDuplicates(pool))
      BY <2>1 DEF Elems, NoDuplicates
    <3> QED BY <1>0, <2>2, <3>1, <3>2
  <2>4. BlendersConserved'
    BY <2>1, <2>2, <2>3 DEF BlenderInv, BlendersConserved
  <2> QED BY <2>1, <2>3, <2>4 DEF BlenderInv, Hands, BlendsOnClean
<1>7. CASE Prepare
  <2>1. PICK b \in preparing : clean' = clean \cup {b} /\ pool' = Append(pool, b)
    BY <1>7 DEF Prepare
  <2>2. preparing = {b} /\ preparing' = {} /\ UNCHANGED <<dirty, ptr, apply>>
    BY <1>7, <2>1 DEF Prepare, BlenderInv, Hands
  <2>3. b \in Blenders /\ b \notin Elems(pool)
    BY <1>0, <2>1 DEF BlenderInv, BlendersConserved
  <2>4. Elems(Append(pool, b)) = Elems(pool) \cup {b} /\ NoDuplicates(Append(pool, b))
    BY <1>0, <2>3, AppendElems
  <2>5. Elems(pool)' = Elems(pool) \cup {b} /\ NoDuplicates(pool)'
        /\ Elems(dirty)' = Elems(dirty) /\ NoDuplicates(dirty)'
    BY <1>0, <2>1, <2>2, <2>4 DEF Elems, NoDuplicates
  <2>6. BlendersConserved'
    BY <2>1, <2>2, <2>3, <2>5 DEF BlenderInv, BlendersConserved
  <2> QED BY <2>1, <2>2, <2>5, <2>6 DEF BlenderInv, Hands, BlendsOnClean
<1>8. CASE GainReady \/ RequestStop \/ CaptureNext \/ TryPopLatest
  <2>1. UNCHANGED <<ptr, blenders, apply>>
    BY <1>8 DEF GainReady, RequestStop, CaptureNext, Pull, Push, SignalId, TryPopLatest
  <2> QED BY <1>1, <2>1
<1>9. CASE WaitGain \/ WaitAll \/ ApplyExit \/ DropRound
  <2>1. /\ UNCHANGED <<ptr, blenders>>
        /\ apply \notin {"blend", "recycle"} /\ apply' \notin {"blend", "recycle"}
    BY <1>9 DEF WaitGain, WaitAll, ApplyExit, DropRound
  <2> QED BY <1>2, <2>1
<1>10. CASE UNCHANGED vars
  BY <1>1, <1>10 DEF vars, blenders
<1> QED BY <1>3, <1>4, <1>5, <1>6, <1>7, <1>8, <1>9, <1>10
        DEF Next, ApplyNext, PrepareNext

\* Whatever the interleaving, a blender is never in two places and never lost.
THEOREM BlendersNeverLost == Spec => []BlendersConserved
<1>1. Init => TypeOK /\ BlenderInv
  BY InitTyped, InitBlenders
<1>2. TypeOK /\ BlenderInv /\ [Next]_vars => (TypeOK /\ BlenderInv)'
  BY StepTyped, StepBlenders
<1>3. BlenderInv => BlendersConserved
  BY DEF BlenderInv
<1> QED BY <1>1, <1>2, <1>3, PTL DEF Spec

\* Every panorama is blended into a cleared destination.
THEOREM DestinationsAreClean == Spec => []BlendsOnClean
<1>1. Init => TypeOK /\ BlenderInv
  BY InitTyped, InitBlenders
<1>2. TypeOK /\ BlenderInv /\ [Next]_vars => (TypeOK /\ BlenderInv)'
  BY StepTyped, StepBlenders
<1>3. BlenderInv => BlendsOnClean
  BY DEF BlenderInv, Hands
<1> QED BY <1>1, <1>2, <1>3, PTL DEF Spec

----------------------------------------------------------------------------
(* The cameras *)

\* How far the frames of camera c are: shown, in this round, queued, newest.
CamOrder(c) ==
  /\ pano[c] <= seq[c] /\ cur[c] <= seq[c] /\ q_blend[c] <= seq[c]
  /\ joined[c] <= signalled[c] /\ signalled[c] <= seq[c]
  /\ capture[c] = "push" => pano[c] < seq[c] /\ cur[c] < seq[c] /\ q_blend[c] < seq[c]
  /\ q_blend[c] # None => q_blend[c] > cur[c] /\ q_blend[c] > pano[c]
  /\ cur[c] # None => cur[c] > pano[c]
  /\ apply \notin {"pop", "blend"} => cur[c] = None
  /\ apply = "pop" /\ c >= tried => cur[c] = None
  /\ apply = "blend" => cur[c] # None

\* While the program runs, the queue is not behind the signals.
CamFresh(c) ==
  /\ ~stopping /\ capture[c] = "signal" => q_blend[c] \in {None, seq[c]}
  /\ ~stopping /\ q_blend[c] # None => q_blend[c] >= signalled[c]
  /\ apply = "pop" /\ c >= tried => q_blend[c] = None \/ q_blend[c] >= joined[c]
  /\ apply = "pop" /\ c < tried => cur[c] = None \/ cur[c] >= joined[c]
  /\ apply = "blend" => cur[c] >= joined[c]

\* Signals camera c has given, or is about to give, for frames already taken.
Credit(c) == (IF c \in done_mask THEN 1 ELSE 0) + (IF capture[c] = "signal" THEN 1 ELSE 0)

\* The round in progress has no frame of camera c so far.
Missing(c) == apply = "pop" /\ (c < tried => cur[c] = None)

CamMisses(c) ==
  /\ misses[c] <= 2
  /\ Missing(c) /\ (c < tried \/ q_blend[c] = None) => misses[c] <= 1
  /\ ~stopping /\ q_blend[c] = None /\ Missing(c) => misses[c] + 1 + Credit(c) <= 2
  /\ ~stopping /\ q_blend[c] = None /\ apply # "pop" => misses[c] + Credit(c) <= 2

CamInv == \A c \in Cams : CamOrder(c) /\ CamFresh(c) /\ CamMisses(c)

LEMMA InitCams == Init => CamInv
<1> SUFFICES ASSUME Init, NEW c \in Cams PROVE CamOrder(c) /\ CamFresh(c) /\ CamMisses(c)
  BY DEF CamInv
<1>1. /\ seq[c] = 0 /\ capture[c] = "pull" /\ q_blend[c] = 0 /\ cur[c] = 0 /\ pano[c] = 0
      /\ signalled[c] = 0 /\ joined[c] = 0 /\ misses[c] = 0
      /\ done_mask = {} /\ apply = "gain"
  BY DEF Init, None
<1> QED BY <1>1 DEF CamOrder, CamFresh, CamMisses, Credit, Missing, None

\* What is typed of one camera.
LEMMA CamTyped ==
  ASSUME TypeOK, NEW c \in Cams
  PROVE  /\ c \in Int /\ tried \in Int /\ NumCams \in Int
         /\ seq[c] \in Nat /\ q_blend[c] \in Nat /\ cur[c] \in Nat /\ pano[c] \in Nat
         /\ signalled[c] \in Nat /\ joined[c] \in Nat /\ misses[c] \in 0 .. 3
         /\ capture[c] \in {"pull", "push", "signal"}
<1>1. FrameSeq \subseteq Nat /\ Cams \subseteq Int
  BY NumCamsAssumption, MaxSeqAssumption DEF FrameSeq, None, Cams
<1>2. /\ seq[c] \in FrameSeq /\ q_blend[c] \in FrameSeq /\ cur[c] \in FrameSeq
      /\ pano[c] \in FrameSeq /\ signalled[c] \in FrameSeq /\ joined[c] \in FrameSeq
  BY DEF TypeOK
<1>3. tried \in Int /\ NumCams \in Int
  BY NumCamsAssumption DEF TypeOK
<1>4. misses[c] \in 0 .. 3 /\ capture[c] \in {"pull", "push", "signal"}
  BY DEF TypeOK
<1> QED BY <1>1, <1>2, <1>3, <1>4

LEMMA PullCams == TypeOK /\ CamInv /\ (\E c \in Cams : Pull(c)) => CamInv'
<1> SUFFICES ASSUME TypeOK, CamInv, NEW c \in Cams, Pull(c), NEW d \in Cams
             PROVE  (CamOrder(d) /\ CamFresh(d) /\ CamMisses(d))'
  BY DEF CamInv
<1>1. CamOrder(d) /\ CamFresh(d) /\ CamMisses(d)
  BY DEF CamInv
<1>2. /\ UNCHANGED <<q_blend, done_mask, apply, tried, cur, stopping, pano, signalled, joined, misses>>
      /\ seq' = [seq EXCEPT ![c] = @ + 1]
      /\ capture[c] = "pull"
      /\ capture' = capture \/ capture' = [capture EXCEPT ![c] = "push"]
  BY DEF Pull, Advance, Following, history
<1>3. seq \in [Cams -> FrameSeq] /\ capture \in [Cams -> {"pull", "push", "signal"}]
  BY DEF TypeOK
<1>4. seq'[d] = (IF d = c THEN seq[d] + 1 ELSE seq[d])
  BY <1>2, <1>3
<1>5. \/ capture'[d] = capture[d]
      \/ d = c /\ capture[d] = "pull" /\ capture'[d] = "push"
  BY <1>2, <1>3
<1>6. d = c => capture'[d] # "signal"
  BY <1>2, <1>3
<1>7. CamOrder(d)'
  BY <1>1, <1>2, <1>4, <1>5, CamTyped DEF CamOrder
<1>8. CamFresh(d)'
  BY <1>1, <1>2, <1>4, <1>5, <1>6, CamTyped DEF CamFresh
<1>9. CamMisses(d)'
  BY <1>1, <1>2, <1>5, CamTyped DEF CamMisses, Credit, Missing
<1> QED BY <1>7, <1>8, <1>9

LEMMA PushCams == TypeOK /\ CamInv /\ (\E c \in Cams : Push(c)) => CamInv'
<1> SUFFICES ASSUME TypeOK, CamInv, NEW c \in Cams, Push(c), NEW d \in Cams
             PROVE  (CamOrder(d) /\ CamFresh(d) /\ CamMisses(d))'
  BY DEF CamInv
<1>1. CamOrder(d) /\ CamFresh(d) /\ CamMisses(d)
  BY DEF CamInv
<1>2. /\ UNCHANGED <<seq, done_mask, apply, tried, cur, stopping, pano, signalled, joined, misses>>
      /\ capture[c] = "push"
      /\ capture' = [capture EXCEPT ![c] = "signal"]
      /\ \/ q_blend' = [q_blend EXCEPT ![c] = seq[c]]
         \/ stopping /\ q_blend' = q_blend
  BY DEF Push, Advance, Following, history
<1>3. q_blend \in [Cams -> FrameSeq] /\ capture \in [Cams -> {"pull", "push", "signal"}]
  BY DEF TypeOK
<1>4. \/ d = c /\ q_blend'[d] = seq[d]
      \/ d # c /\ q_blend'[d] = q_blend[d]
      \/ stopping /\ q_blend'[d] = q_blend[d]
  BY <1>2, <1>3
<1>5. \/ d = c /\ capture[d] = "push" /\ capture'[d] = "signal"
      \/ d # c /\ capture'[d] = capture[d]
  BY <1>2, <1>3
<1>6. CamOrder(d)'
  BY <1>1, <1>2, <1>4, <1>5, CamTyped DEF CamOrder, None
<1>7. CamFresh(d)'
  BY <1>1, <1>2, <1>4, <1>5, CamTyped DEF CamFresh, CamOrder, None
<1>8. d = c /\ q_blend'[d] = seq[d] => q_blend'[d] # None
  BY <1>1, <1>5, CamTyped DEF CamOrder, None
<1>9. CamMisses(d)'
  BY <1>1, <1>2, <1>4, <1>5, <1>8, CamTyped DEF CamMisses, Credit, Missing
<1> QED BY <1>6, <1>7, <1>9

LEMMA SignalCams == TypeOK /\ CamInv /\ (\E c \in Cams : SignalId(c)) => CamInv'
<1> SUFFICES ASSUME TypeOK, CamInv, NEW c \in Cams, SignalId(c), NEW d \in Cams
             PROVE  (CamOrder(d) /\ CamFresh(d) /\ CamMisses(d))'
  BY DEF CamInv
<1>1. CamOrder(d) /\ CamFresh(d) /\ CamMisses(d)
  BY DEF CamInv
<1>2. /\ UNCHANGED <<seq, q_blend, apply, tried, cur, stopping, pano, joined, misses>>
      /\ capture[c] = "signal"
      /\ capture' = [capture EXCEPT ![c] = "pull"]
      /\ done_mask' = done_mask \cup {c}
      /\ signalled' = [signalled EXCEPT ![c] = seq[c]]
  BY DEF SignalId, Advance, Following, history
<1>3. signalled \in [Cams -> FrameSeq] /\ capture \in [Cams -> {"pull", "push", "signal"}]
  BY DEF TypeOK
<1>4. signalled'[d] = (IF d = c THEN seq[d] ELSE signalled[d])
  BY <1>2, <1>3
<1>5. \/ d = c /\ capture[d] = "signal" /\ capture'[d] = "pull" /\ d \in done_mask'
      \/ d # c /\ capture'[d] = capture[d] /\ (d \in done_mask' <=> d \in done_mask)
  BY <1>2, <1>3
<1>6. CamOrder(d)'
  BY <1>1, <1>2, <1>4, <1>5, CamTyped DEF CamOrder
<1>7. CamFresh(d)'
  BY <1>1, <1>2, <1>4, <1>5, CamTyped DEF CamFresh, CamOrder, None
<1>8. Credit(d)' <= Credit(d) /\ Credit(d)' \in Nat /\ Credit(d) \in Nat
  BY <1>5 DEF Credit
<1>9. CamMisses(d)'
  BY <1>1, <1>2, <1>8, CamTyped DEF CamMisses, Missing
<1> QED BY <1>6, <1>7, <1>9

LEMMA WaitAllCams == TypeOK /\ CamInv /\ WaitAll => CamInv'
<1> SUFFICES ASSUME TypeOK, CamInv, WaitAll, NEW d \in Cams
             PROVE  (CamOrder(d) /\ CamFresh(d) /\ CamMisses(d))'
  BY DEF CamInv
<1>1. CamOrder(d) /\ CamFresh(d) /\ CamMisses(d)
  BY DEF CamInv
<1>2. /\ UNCHANGED <<seq, capture, q_blend, cur, stopping, pano, signalled, misses>>
      /\ apply = "wait" /\ apply' = "pop" /\ tried' = 0 /\ ~stopping
      /\ done_mask' = {} /\ d \in done_mask
      /\ joined' = signalled
  BY DEF WaitAll, cameras
<1>3. d >= 0
  BY NumCamsAssumption DEF Cams
<1>4. CamOrder(d)'
  BY <1>1, <1>2, <1>3, CamTyped DEF CamOrder
<1>5. CamFresh(d)'
  BY <1>1, <1>2, <1>3, CamTyped DEF CamFresh, None
<1>6. Credit(d) = Credit(d)' + 1 /\ Credit(d)' \in Nat
  BY <1>2 DEF Credit
<1>7. CamMisses(d)'
  BY <1>1, <1>2, <1>3, <1>6, CamTyped DEF CamMisses, Missing
<1> QED BY <1>4, <1>5, <1>7

LEMMA TryPopCams == TypeOK /\ CamInv /\ TryPopLatest => CamInv'
<1> SUFFICES ASSUME TypeOK, CamInv, TryPopLatest, NEW d \in Cams
             PROVE  (CamOrder(d) /\ CamFresh(d) /\ CamMisses(d))'
  BY DEF CamInv
<1>1. CamOrder(d) /\ CamFresh(d) /\ CamMisses(d)
  BY DEF CamInv
<1>2. /\ UNCHANGED <<seq, capture, signalled, done_mask, apply, stopping, pano, joined, misses>>
      /\ apply = "pop" /\ tried' = tried + 1
      /\ cur' = [cur EXCEPT ![tried] = q_blend[tried]]
      /\ q_blend' = [q_blend EXCEPT ![tried] = None]
  BY DEF TryPopLatest, cameras, history
<1>3. q_blend \in [Cams -> FrameSeq] /\ cur \in [Cams -> FrameSeq]
  BY DEF TypeOK
<1>4. \/ d = tried /\ cur'[d] = q_blend[d] /\ q_blend'[d] = 0
      \/ d # tried /\ cur'[d] = cur[d] /\ q_blend'[d] = q_blend[d]
  BY <1>2, <1>3 DEF None
<1>5. CamOrder(d)'
  BY <1>1, <1>2, <1>4, CamTyped DEF CamOrder, None
<1>6. CamFresh(d)'
  BY <1>1, <1>2, <1>4, CamTyped DEF CamFresh, None
<1>7. Credit(d)' = Credit(d) /\ Credit(d) \in Nat
  BY <1>2 DEF Credit
<1>8. CamMisses(d)'
  <2>1. CASE d = tried
    <3>1. cur[d] = None
      BY <1>1, <1>2, <2>1, CamTyped DEF CamOrder
    <3> QED BY <1>1, <1>2, <1>4, <1>7, <2>1, <3>1, CamTyped DEF CamMisses, Missing, None
  <2>2. CASE d # tried
    <3>1. d < tried' <=> d < tried
      BY <1>2, <2>2, CamTyped
    <3> QED BY <1>1, <1>2, <1>4, <1>7, <2>2, <3>1, CamTyped DEF CamMisses, Missing, None
  <2> QED BY <2>1, <2>2
<1> QED BY <1>5, <1>6, <1>8

LEMMA RoundEndCams == TypeOK /\ CamInv /\ (DropRound \/ TakeBlender) => CamInv'
<1> SUFFICES ASSUME TypeOK, CamInv, DropRound \/ TakeBlender, NEW d \in Cams
             PROVE  (CamOrder(d) /\ CamFresh(d) /\ CamMisses(d))'
  BY DEF CamInv
<1>1. CamOrder(d) /\ CamFresh(d) /\ CamMisses(d)
  BY DEF CamInv
<1>2. /\ UNCHANGED <<seq, capture, signalled, q_blend, done_mask, stopping, pano, joined, tried>>
      /\ apply = "pop" /\ tried = NumCams /\ CountMisses
      /\ \/ apply' = "wait" /\ cur' = [c \in Cams |-> None]
         \/ apply' = "blend" /\ UNCHANGED cur /\ cur[d] # None
  BY DEF DropRound, TakeBlender, cameras
<1>3. d < tried
  BY <1>2, NumCamsAssumption DEF Cams
<1>4. \/ apply' = "wait" /\ cur'[d] = 0
      \/ apply' = "blend" /\ cur'[d] = cur[d] /\ cur[d] # 0
  BY <1>2 DEF None
<1>5. misses'[d] = (IF cur[d] # None THEN 0 ELSE IF misses[d] < 3 THEN misses[d] + 1 ELSE 3)
  BY <1>2 DEF CountMisses
<1>6. CamOrder(d)'
  BY <1>1, <1>2, <1>4, CamTyped DEF CamOrder, None
<1>7. CamFresh(d)'
  BY <1>1, <1>2, <1>3, <1>4, CamTyped DEF CamFresh, None
<1>8. Credit(d)' = Credit(d) /\ Credit(d) \in 0 .. 2
  BY <1>2 DEF Credit
<1>9. CamMisses(d)'
  BY <1>1, <1>2, <1>3, <1>4, <1>5, <1>8, CamTyped DEF CamMisses, Missing, None
<1> QED BY <1>6, <1>7, <1>9

LEMMA BlendCams == TypeOK /\ CamInv /\ Blend => CamInv'
<1> SUFFICES ASSUME TypeOK, CamInv, Blend, NEW d \in Cams
             PROVE  (CamOrder(d) /\ CamFresh(d) /\ CamMisses(d))'
  BY DEF CamInv
<1>1. CamOrder(d) /\ CamFresh(d) /\ CamMisses(d)
  BY DEF CamInv
<1>2. /\ UNCHANGED <<seq, capture, signalled, q_blend, done_mask, stopping, joined, misses, tried>>
      /\ apply = "blend" /\ apply' = "recycle" /\ pano' = cur
      /\ cur'[d] = 0
  BY DEF Blend, cameras, history, None
<1>3. CamOrder(d)'
  BY <1>1, <1>2, CamTyped DEF CamOrder, None
<1>4. CamFresh(d)'
  BY <1>1, <1>2, CamTyped DEF CamFresh
<1>5. CamMisses(d)'
  BY <1>1, <1>2, CamTyped DEF CamMisses, Missing, Credit
<1> QED BY <1>3, <1>4, <1>5

\* Steps that touch no camera; apply stays out of, or in, the phases that matter.
LEMMA OtherCams ==
  TypeOK /\ CamInv
    /\ (GainReady \/ WaitGain \/ ApplyExit \/ Recycle \/ PrepareNext \/ RequestStop \/ UNCHANGED vars)
  => CamInv'
<1> SUFFICES ASSUME TypeOK, CamInv, NEW d \in Cams,
                    GainReady \/ WaitGain \/ ApplyExit \/ Recycle \/ PrepareNext
                      \/ RequestStop \/ UNCHANGED vars
             PROVE  (CamOrder(d) /\ CamFresh(d) /\ CamMisses(d))'
  BY DEF CamInv
<1>1. CamOrder(d) /\ CamFresh(d) /\ CamMisses(d)
  BY DEF CamInv
<1>2. /\ UNCHANGED <<seq, capture, signalled, q_blend, done_mask, cur, pano, joined, misses, tried>>
      /\ apply' = apply \/ (apply \notin {"pop", "blend"} /\ apply' \notin {"pop", "blend"})
      /\ stopping => stopping'
  BY DEF GainReady, WaitGain, ApplyExit, Recycle, PrepareNext, PrepareTake, Prepare,
         RequestStop, vars, cameras, history
<1>3. CamOrder(d)'
  BY <1>1, <1>2 DEF CamOrder
<1>4. CamFresh(d)'
  BY <1>1, <1>2 DEF CamFresh
<1>5. CamMisses(d)'
  BY <1>1, <1>2 DEF CamMisses, Missing, Credit
<1> QED BY <1>3, <1>4, <1>5

LEMMA StepCams == TypeOK /\ CamInv /\ [Next]_vars => CamInv'
BY PullCams, PushCams, SignalCams, WaitAllCams, TryPopCams, RoundEndCams, BlendCams,
   OtherCams DEF Next, CaptureNext, ApplyNext

LEMMA CamsAlways == Spec => [](TypeOK /\ CamInv)
<1>1. Init => TypeOK /\ CamInv
  BY InitTyped, InitCams
<1>2. TypeOK /\ CamInv /\ [Next]_vars => (TypeOK /\ CamInv)'
  BY StepTyped, StepCams
<1> QED BY <1>1, <1>2, PTL DEF Spec

\* Each panorama takes every camera forward, whatever the cameras do meanwhile.
THEOREM PanoramasAdvance == Spec => EveryCameraAdvances
<1>1. TypeOK /\ CamInv /\ [Next]_vars
        => [pano' # pano => \A c \in Cams : pano'[c] > pano[c]]_vars
  <2> SUFFICES ASSUME TypeOK, CamInv, Next, pano' # pano, NEW c \in Cams
               PROVE  pano'[c] > pano[c]
    OBVIOUS
  <2>1. Blend
    BY DEF Next, CaptureNext, ApplyNext, PrepareNext, Pull, Push, SignalId, GainReady, WaitGain,
           WaitAll, ApplyExit, TryPopLatest, DropRound, TakeBlender, Recycle, PrepareTake,
           Prepare, RequestStop
  <2>2. apply = "blend" /\ pano' = cur /\ CamOrder(c)
    BY <2>1 DEF Blend, CamInv
  <2> QED BY <2>2, CamTyped DEF CamOrder
<1> QED BY <1>1, CamsAlways, PTL DEF Spec, EveryCameraAdvances

\* A camera whose bit was seen contributes what it signalled, or newer.
THEOREM FramesAreFresh == Spec => []NeverOlderThanSignalled
<1>1. TypeOK /\ CamInv => NeverOlderThanSignalled
  BY DEF CamInv, CamFresh, NeverOlderThanSignalled
<1> QED BY <1>1, CamsAlways, PTL

\* No camera is missing from three rounds in a row.
THEOREM MissesAreBounded == Spec => []NoCameraMissesThrice
<1>1. TypeOK /\ CamInv => NoCameraMissesThrice
  BY CamTyped DEF CamInv, CamMisses, NoCameraMissesThrice
<1> QED BY <1>1, CamsAlways, PTL
=============================================================================
