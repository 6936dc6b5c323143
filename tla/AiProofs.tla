------------------------------ MODULE AiProofs ------------------------------
(***************************************************************************)
(* Theorems of the three parts of what detection adds to a picture, for    *)
(* any number of cells, grids, tracks, slots, hubs and frames. Detector:   *)
(* NmsInv says which entries the threads that ran have dropped, DetectInv  *)
(* and DecodeInv that the arrays list what was counted as long as they     *)
(* have room. TrackTable: MatchProperties says what the greedy choice      *)
(* leaves. OsdSlots: LatestInv says what a probe may fall back on.         *)
(***************************************************************************)
EXTENDS Detector, TrackTable, OsdSlots, FiniteSetTheorems, SequenceTheorems,
        WellFoundedInduction, TLAPS

\* Of the library's well-foundedness of the naturals: each set has a least one.
Less == {ss \in Nat \X Nat : ss[1] < ss[2]}

LEMMA LessIsWellFounded == IsWellFoundedOn(Less, Nat)
BY NatLessThanWellFounded, Zenon DEF Less, OpToRel

LEMMA LeastNat ==
  ASSUME NEW T, T \subseteq Nat, T # {}
  PROVE  \E x \in T : \A y \in T : x <= y
<1>1. PICK x \in T : \A y \in T : ~ (<<y, x>> \in Less)
  BY LessIsWellFounded, WFMin
<1>2. \A y \in T : ~(y < x)
  BY <1>1 DEF Less
<1>3. \A y \in T : x <= y
  BY <1>2
<1> QED BY <1>3

----------------------------------------------------------------------------
(* Detector *)

DetSpec == DetInit /\ [][DetNext]_detVars

EntryType == [grid : 0 .. Scales, box : Int, conf : 0 .. Surest]

\* An array of MaxOut places after n entries were counted.
IsArray(a, n) == a \in Seq(EntryType) /\ Len(a) = IF n <= MaxOut THEN n ELSE MaxOut

\* a has each element of S in one place.
Lists(a, S) ==
  /\ \A i \in DOMAIN a : a[i] \in S
  /\ \A e \in S : \E i \in DOMAIN a : a[i] = e
  /\ \A i, j \in DOMAIN a : a[i] = a[j] => i = j

\* The candidates of the launches so far.
CellsBefore(g) == {c \in Cells : c.grid < g}
Counted(g) == {e \in Candidates : e.grid < g /\ e.conf > 0}

DetectInv ==
  /\ scene \in [Cells -> 0 .. Surest]
  /\ grid \in 1 .. Scales + 1
  /\ found \in Nat /\ found <= Cardinality(CellsBefore(grid))
  /\ IsArray(predict, found)
  /\ found <= MaxOut => Lists(predict, Counted(grid))

DecodeInv ==
  /\ kernel \in {"detect", "nms", "done"}
  /\ count \in Nat /\ count <= found /\ IsArray(decoded, count)
  /\ kernel = "detect" => count = 0
  /\ kernel # "detect" => grid = Scales + 1 /\ (found <= MaxOut => Lists(decoded, Sure))

\* A thread that ran dropped a suppressed entry, and as long as there was room
\* no other.
NmsInv ==
  /\ todo \subseteq DOMAIN decoded /\ keep \subseteq DOMAIN decoded
  /\ \A i \in DOMAIN decoded : i \notin todo /\ Suppressed(i) => i \notin keep
  /\ found <= MaxOut => \A i \in DOMAIN decoded : i \notin keep => Suppressed(i)
  /\ kernel = "done" => todo = {} /\ boxes = {decoded[i] : i \in keep}

DInv == DetectInv /\ DecodeInv /\ NmsInv

\* An order of a set is a sequence that lists it.
LEMMA OrderLists ==
  ASSUME NEW S, IsFiniteSet(S), NEW s \in SetToSeqs(S)
  PROVE  /\ s \in Seq(S) /\ Len(s) = Cardinality(S) /\ Cardinality(S) \in Nat
         /\ DOMAIN s = 1 .. Len(s) /\ Lists(s, S)
<1> DEFINE n == Cardinality(S)
           D == 1 .. n
<1>1. n \in Nat
  BY FS_CardinalityType
<1>2. s \in [D -> S] /\ \A i, j \in D : i # j => s[i] # s[j]
  BY DEF SetToSeqs
<1>3. IsFiniteSet(D) /\ Cardinality(D) = n
  BY <1>1, FS_Interval
<1>4. s \in Injection(D, S)
  BY <1>2 DEF Injection, IsInjective
<1>5. s \in Surjection(D, S)
  BY <1>3, <1>4, FS_Injection
<1>6. \A e \in S : \E i \in D : s[i] = e
  BY <1>5 DEF Surjection
<1>7. s \in Seq(S) /\ Len(s) = n /\ DOMAIN s = D
  BY <1>1, <1>2
<1> QED BY <1>1, <1>2, <1>6, <1>7 DEF Lists

\* The array after the threads of a kernel stored what they counted.
LEMMA FilledIsArray ==
  ASSUME NEW array, NEW n \in Nat, IsArray(array, n), NEW s \in Seq(EntryType)
  PROVE  /\ n + Len(s) \in Nat /\ IsArray(Filled(array, s), n + Len(s))
         /\ n + Len(s) <= MaxOut => Filled(array, s) = array \o s
<1> USE DetectorAssumption
<1> DEFINE t == array \o s
           m == Min({MaxOut, Len(t)})
<1>1. array \in Seq(EntryType) /\ Len(array) \in Nat /\ Len(s) \in Nat
  BY DEF IsArray
<1>2. t \in Seq(EntryType) /\ Len(t) = Len(array) + Len(s) /\ Len(t) \in Nat
  BY <1>1
<1> HIDE DEF t
<1>3. m = IF MaxOut <= Len(t) THEN MaxOut ELSE Len(t)
  <2> DEFINE x == IF MaxOut <= Len(t) THEN MaxOut ELSE Len(t)
  <2>1. x \in {MaxOut, Len(t)} /\ \A y \in {MaxOut, Len(t)} : x <= y
    BY <1>2
  <2>2. \A z \in {MaxOut, Len(t)} : (\A y \in {MaxOut, Len(t)} : z <= y) => z = x
    BY <1>2
  <2> HIDE DEF x
  <2>3. m = CHOOSE z \in {MaxOut, Len(t)} : \A y \in {MaxOut, Len(t)} : z <= y
    BY DEF Min
  <2>4. m = x
    BY <2>1, <2>2, <2>3
  <2> QED BY <2>4 DEF x
<1> HIDE DEF m
<1>4. m \in 0 .. Len(t)
  BY <1>2, <1>3
<1>5. SubSeq(t, 1, m) \in Seq(EntryType) /\ Len(SubSeq(t, 1, m)) = m
  BY <1>2, <1>4
<1>6. Filled(array, s) = SubSeq(t, 1, m)
  BY DEF Filled, m, t
<1>7. m = IF n + Len(s) <= MaxOut THEN n + Len(s) ELSE MaxOut
  BY <1>1, <1>2, <1>3 DEF IsArray
<1>8. n + Len(s) <= MaxOut => SubSeq(t, 1, m) = t
  <2>1. n + Len(s) <= MaxOut => m = Len(t)
    BY <1>1, <1>2, <1>7 DEF IsArray
  <2>2. SubSeq(t, 1, Len(t)) = t
    BY <1>2, SubSeqFull
  <2> QED BY <2>1, <2>2
<1> QED BY <1>1, <1>5, <1>6, <1>7, <1>8 DEF IsArray, t

LEMMA ListsTogether ==
  ASSUME NEW a \in Seq(EntryType), NEW s \in Seq(EntryType), NEW S, NEW T,
         Lists(a, S), Lists(s, T), S \cap T = {}
  PROVE  Lists(a \o s, S \cup T)
<1> DEFINE t == a \o s
           n == Len(a)
           m == Len(s)
<1>1. /\ n \in Nat /\ m \in Nat /\ DOMAIN a = 1 .. n /\ DOMAIN s = 1 .. m /\ DOMAIN t = 1 .. n + m
      /\ \A i \in 1 .. n : t[i] = a[i]
      /\ \A i \in 1 .. n + m : i > n => t[i] = s[i - n]
  OBVIOUS
<1>2. \A i \in 1 .. m : n + i \in 1 .. n + m /\ t[n + i] = s[i]
  BY <1>1
<1> HIDE DEF t, n, m
<1>4. ASSUME NEW i \in 1 .. n + m
      PROVE  t[i] \in S \cup T
  <2>1. CASE i \in 1 .. n
    BY <1>1, <2>1 DEF Lists
  <2>2. CASE i > n
    <3>1. i - n \in 1 .. m /\ t[i] = s[i - n]
      BY <1>1, <2>2
    <3> QED BY <1>1, <3>1 DEF Lists
  <2> QED BY <1>1, <2>1, <2>2
<1>5. \A e \in S \cup T : \E i \in 1 .. n + m : t[i] = e
  <2>1. ASSUME NEW e \in S PROVE \E i \in 1 .. n + m : t[i] = e
    <3>1. PICK i \in 1 .. n : a[i] = e
      BY <1>1 DEF Lists
    <3>2. i \in 1 .. n + m
      BY <1>1
    <3> QED BY <1>1, <3>1, <3>2
  <2>2. ASSUME NEW e \in T PROVE \E i \in 1 .. n + m : t[i] = e
    <3>1. PICK i \in 1 .. m : s[i] = e
      BY <1>1 DEF Lists
    <3> QED BY <1>2, <3>1
  <2> QED BY <2>1, <2>2
<1>6. ASSUME NEW i \in 1 .. n + m, NEW j \in 1 .. n + m, t[i] = t[j]
      PROVE  i = j
  <2>1. CASE i \in 1 .. n /\ j \in 1 .. n
    BY <1>1, <1>6, <2>1 DEF Lists
  <2>2. CASE i > n /\ j > n
    <3>1. i - n \in 1 .. m /\ j - n \in 1 .. m /\ s[i - n] = s[j - n]
      BY <1>1, <1>6, <2>2
    <3>2. i - n = j - n
      BY <1>1, <3>1 DEF Lists
    <3> QED BY <1>1, <3>2
  <2>3. CASE i \in 1 .. n /\ j > n
    <3>1. t[i] \in S /\ j - n \in 1 .. m /\ t[j] = s[j - n]
      BY <1>1, <2>3 DEF Lists
    <3>2. t[j] \in T
      BY <1>1, <3>1 DEF Lists
    <3> QED BY <1>6, <3>1, <3>2
  <2>4. CASE i > n /\ j \in 1 .. n
    <3>1. t[j] \in S /\ i - n \in 1 .. m /\ t[i] = s[i - n]
      BY <1>1, <2>4 DEF Lists
    <3>2. t[i] \in T
      BY <1>1, <3>1 DEF Lists
    <3> QED BY <1>6, <3>1, <3>2
  <2> QED BY <1>1, <2>1, <2>2, <2>3, <2>4
<1> QED BY <1>1, <1>4, <1>5, <1>6 DEF Lists, t

LEMMA DetInitInv == DetInit => DInv
<1> SUFFICES ASSUME DetInit PROVE DInv
  OBVIOUS
<1> USE DetectorAssumption
<1>1. /\ scene \in [Cells -> 0 .. Surest] /\ kernel = "detect" /\ grid = 1 /\ found = 0 /\ predict = <<>>
      /\ count = 0 /\ decoded = <<>> /\ todo = {} /\ keep = {}
  BY DEF DetInit
<1>2. Cardinality(CellsBefore(grid)) \in Nat
  <2>1. CellsBefore(grid) \subseteq Cells
    BY DEF CellsBefore
  <2> QED BY <2>1, FS_Subset, FS_CardinalityType
<1>3. IsArray(<<>>, 0)
  BY DEF IsArray
<1>4. Lists(predict, Counted(grid))
  <2>1. Counted(grid) = {}
    <3>1. \A c \in Cells : ~(c.grid < 1)
      OBVIOUS
    <3> QED BY <1>1, <3>1 DEF Counted, Candidates, Entry
  <2> QED BY <1>1, <2>1 DEF Lists
<1>5. DetectInv
  BY <1>1, <1>2, <1>3, <1>4 DEF DetectInv
<1>6. DecodeInv
  BY <1>1, <1>3 DEF DecodeInv
<1>7. NmsInv
  BY <1>1 DEF NmsInv
<1> QED BY <1>5, <1>6, <1>7 DEF DInv

\* A launch of CalDetection counts at most the cells of its grid.
LEMMA LaunchCounts ==
  ASSUME DInv, grid <= Scales
  PROVE  LET S == {e \in Candidates : e.grid = grid /\ e.conf > 0} IN
         /\ IsFiniteSet(S) /\ S \subseteq EntryType
         /\ Cardinality(CellsBefore(grid)) + Cardinality(S) <= Cardinality(CellsBefore(grid + 1))
         /\ Counted(grid + 1) = Counted(grid) \cup S /\ Counted(grid) \cap S = {}
<1> USE DetectorAssumption
<1> DEFINE S == {e \in Candidates : e.grid = grid /\ e.conf > 0}
           C == {c \in Cells : c.grid = grid /\ scene[c] > 0}
           f == [c \in C |-> Entry(c, scene[c])]
<1>0. /\ grid \in 1 .. Scales + 1 /\ scene \in [Cells -> 0 .. Surest]
      /\ \A c \in Cells : c.grid \in 1 .. Scales /\ c.box \in Int /\ scene[c] \in 0 .. Surest
  BY DEF DInv, DetectInv
<1>1. \A c \in Cells : /\ Entry(c, scene[c]) \in EntryType /\ Entry(c, scene[c]).grid = c.grid
                       /\ Entry(c, scene[c]).conf = scene[c]
  BY <1>0 DEF Entry, EntryType
<1>2. IsFiniteSet(C) /\ C \subseteq Cells
  BY FS_Subset
<1>3. f \in Surjection(C, S)
  <2>1. \A c \in C : f[c] \in S
    BY <1>1 DEF Candidates
  <2>2. ASSUME NEW e \in S PROVE \E c \in C : f[c] = e
    BY <1>1 DEF Candidates
  <2> QED BY <2>1, <2>2 DEF Surjection
<1>4. IsFiniteSet(S) /\ Cardinality(S) <= Cardinality(C)
  BY <1>2, <1>3, FS_Surjection
<1>5. S \subseteq EntryType
  BY <1>1 DEF Candidates
<1>6. Cardinality(CellsBefore(grid)) + Cardinality(C) <= Cardinality(CellsBefore(grid + 1))
  <2>1. IsFiniteSet(CellsBefore(grid)) /\ IsFiniteSet(CellsBefore(grid + 1))
    <3>1. CellsBefore(grid) \in SUBSET Cells /\ CellsBefore(grid + 1) \in SUBSET Cells
      BY DEF CellsBefore
    <3> QED BY <3>1, FS_Subset
  <2>2. CellsBefore(grid) \cap C = {}
    BY <1>0 DEF CellsBefore
  <2>3. CellsBefore(grid) \cup C \in SUBSET CellsBefore(grid + 1)
    BY <1>0 DEF CellsBefore
  <2>4. Cardinality(CellsBefore(grid) \cup C) = Cardinality(CellsBefore(grid)) + Cardinality(C)
    <3> HIDE DEF C
    <3>1. Cardinality(CellsBefore(grid) \cup C) =
            Cardinality(CellsBefore(grid)) + Cardinality(C) - Cardinality(CellsBefore(grid) \cap C)
      BY <1>2, <2>1, FS_Union
    <3>2. /\ Cardinality(CellsBefore(grid)) \in Nat /\ Cardinality(C) \in Nat
          /\ Cardinality(CellsBefore(grid) \cap C) = 0
      BY <1>2, <2>1, <2>2, FS_CardinalityType, FS_EmptySet
    <3> QED BY <3>1, <3>2
  <2>5. Cardinality(CellsBefore(grid) \cup C) <= Cardinality(CellsBefore(grid + 1))
    <3> HIDE DEF C
    <3> QED BY <2>1, <2>3, FS_Subset
  <2> QED BY <2>4, <2>5
<1>7. Counted(grid + 1) = Counted(grid) \cup S
  <2>1. \A e \in Candidates : e.grid \in 1 .. Scales
    BY <1>0, <1>1 DEF Candidates
  <2>2. \A e \in Candidates : e.grid < grid + 1 <=> e.grid < grid \/ e.grid = grid
    BY <1>0, <2>1
  <2> QED BY <2>2 DEF Counted
<1>8. Counted(grid) \cap S = {}
  BY <1>0 DEF Counted
<1>9. Cardinality(S) \in Nat /\ Cardinality(C) \in Nat /\ Cardinality(CellsBefore(grid)) \in Nat
      /\ Cardinality(CellsBefore(grid + 1)) \in Nat
  <2>1. CellsBefore(grid) \in SUBSET Cells /\ CellsBefore(grid + 1) \in SUBSET Cells
    BY DEF CellsBefore
  <2> HIDE DEF S, C
  <2> QED BY <1>2, <1>4, <2>1, FS_Subset, FS_CardinalityType
<1> HIDE DEF C, f
<1> QED BY <1>4, <1>5, <1>6, <1>7, <1>8, <1>9

LEMMA CalDetectionInv ==
  ASSUME DInv, CalDetection
  PROVE  DInv'
<1> USE DetectorAssumption
<1> DEFINE S == {e \in Candidates : e.grid = grid /\ e.conf > 0}
<1>0. /\ kernel = "detect" /\ grid <= Scales /\ grid' = grid + 1 /\ UNCHANGED <<scene, kernel, count, decoded, todo, keep, boxes>>
      /\ grid \in 1 .. Scales + 1
  BY DEF CalDetection, DInv, DetectInv
<1>1. PICK s \in SetToSeqs(S) : found' = found + Len(s) /\ predict' = Filled(predict, s)
  BY DEF CalDetection
<1>2. /\ IsFiniteSet(S) /\ S \subseteq EntryType
      /\ Cardinality(CellsBefore(grid)) + Cardinality(S) <= Cardinality(CellsBefore(grid + 1))
      /\ Counted(grid + 1) = Counted(grid) \cup S /\ Counted(grid) \cap S = {}
  BY <1>0, LaunchCounts
<1> HIDE DEF S
<1>3. /\ s \in Seq(S) /\ Len(s) = Cardinality(S) /\ Cardinality(S) \in Nat
      /\ DOMAIN s = 1 .. Len(s) /\ Lists(s, S)
  BY <1>1, <1>2, OrderLists
<1>4. s \in Seq(EntryType)
  BY <1>2, <1>3
<1>5. IsArray(predict, found) /\ found \in Nat /\ found <= Cardinality(CellsBefore(grid))
  BY DEF DInv, DetectInv
<1>6. /\ found + Len(s) \in Nat /\ IsArray(Filled(predict, s), found + Len(s))
      /\ found + Len(s) <= MaxOut => Filled(predict, s) = predict \o s
  BY <1>4, <1>5, FilledIsArray
<1>7. found' \in Nat /\ IsArray(predict, found)'
  BY <1>1, <1>6 DEF IsArray
<1>8. found' <= Cardinality(CellsBefore(grid))'
  <2>1. Cardinality(CellsBefore(grid)) \in Nat /\ Cardinality(CellsBefore(grid + 1)) \in Nat
    <3>1. CellsBefore(grid) \in SUBSET Cells /\ CellsBefore(grid + 1) \in SUBSET Cells
      BY DEF CellsBefore
    <3> QED BY <3>1, FS_Subset, FS_CardinalityType
  <2>2. CellsBefore(grid)' = CellsBefore(grid + 1)
    BY <1>0 DEF CellsBefore
  <2> QED BY <1>1, <1>2, <1>3, <1>5, <2>1, <2>2
<1>9. ASSUME found' <= MaxOut
      PROVE  Lists(predict, Counted(grid))'
  <2>1. found <= MaxOut /\ found + Len(s) <= MaxOut
    BY <1>1, <1>3, <1>5, <1>9
  <2>2. Lists(predict, Counted(grid)) /\ predict \in Seq(EntryType)
    BY <2>1 DEF DInv, DetectInv, IsArray
  <2>3. Lists(predict \o s, Counted(grid) \cup S)
    BY <1>2, <1>3, <1>4, <2>2, ListsTogether
  <2>4. Counted(grid)' = Counted(grid + 1)
    BY <1>0 DEF Counted, Candidates
  <2>5. predict' = predict \o s
    BY <1>1, <1>6, <2>1
  <2> QED BY <1>2, <2>3, <2>4, <2>5 DEF Lists
<1>10. DetectInv'
  <2>1. grid' \in 1 .. Scales + 1 /\ scene' \in [Cells -> 0 .. Surest]
    BY <1>0 DEF DInv, DetectInv
  <2> QED BY <1>7, <1>8, <1>9, <2>1 DEF DetectInv
<1>11. count = 0 /\ IsArray(decoded, 0) /\ DOMAIN decoded = {}
  BY <1>0 DEF DInv, DecodeInv, IsArray
<1>12. DecodeInv'
  BY <1>0, <1>7, <1>11 DEF DInv, DecodeInv, IsArray
<1>13. NmsInv'
  BY <1>0, <1>11 DEF DInv, NmsInv
<1> QED BY <1>10, <1>12, <1>13 DEF DInv

LEMMA DecodeStep ==
  ASSUME DInv, Decode
  PROVE  DInv'
<1> USE DetectorAssumption
<1>0. /\ kernel = "detect" /\ grid = Scales + 1 /\ UNCHANGED <<scene, grid, found, predict, boxes>>
      /\ kernel' = "nms" /\ todo' = DOMAIN decoded' /\ keep' = DOMAIN decoded'
      /\ found \in Nat /\ IsArray(predict, found) /\ scene \in [Cells -> 0 .. Surest]
  BY DEF Decode, DInv, DetectInv
<1>1. PICK outside \in [Len(predict) + 1 .. found -> Outside] :
        LET entry(i) == IF i <= Len(predict) THEN predict[i] ELSE outside[i]
        IN  \E s \in SetToSeqs({i \in 1 .. found : entry(i).conf >= Confident}) :
              /\ count' = Len(s)
              /\ decoded' = Filled(<<>>, [k \in DOMAIN s |-> entry(s[k])])
  BY DEF Decode
<1> DEFINE entry(i) == IF i <= Len(predict) THEN predict[i] ELSE outside[i]
           S == {i \in 1 .. found : entry(i).conf >= Confident}
<1>2. PICK s \in SetToSeqs(S) :
              /\ count' = Len(s)
              /\ decoded' = Filled(<<>>, [k \in DOMAIN s |-> entry(s[k])])
  BY <1>1
<1>3. \A i \in 1 .. found : entry(i) \in EntryType
  <2>1. Outside \subseteq EntryType
    <3>1. \A c \in Cells, n \in 0 .. Surest : c.box \in Int /\ n \in 0 .. Surest
      OBVIOUS
    <3>2. 0 \in 0 .. Scales
      OBVIOUS
    <3> QED BY <3>1, <3>2 DEF Outside, Entry, EntryType
  <2>2. Len(predict) \in Nat /\ \A i \in 1 .. Len(predict) : predict[i] \in EntryType
    BY <1>0 DEF IsArray
  <2> QED BY <1>0, <2>1, <2>2
<1>4. IsFiniteSet(S) /\ Cardinality(S) <= found
  <2>1. S \in SUBSET (1 .. found)
    OBVIOUS
  <2> HIDE DEF S
  <2>2. IsFiniteSet(1 .. found) /\ Cardinality(1 .. found) = found
    BY <1>0, FS_Interval
  <2>3. IsFiniteSet(S) /\ Cardinality(S) <= Cardinality(1 .. found)
    BY <2>1, <2>2, FS_Subset
  <2> QED BY <2>2, <2>3
<1>5. /\ s \in Seq(S) /\ Len(s) = Cardinality(S) /\ Cardinality(S) \in Nat
      /\ DOMAIN s = 1 .. Len(s) /\ Lists(s, S)
  <2> HIDE DEF S
  <2> QED BY <1>2, <1>4, OrderLists
<1> DEFINE t == [k \in DOMAIN s |-> entry(s[k])]
<1>6. t \in Seq(EntryType) /\ Len(t) = Len(s) /\ DOMAIN t = 1 .. Len(s) /\ Len(s) \in Nat
  <2>1. \A k \in 1 .. Len(s) : s[k] \in 1 .. found
    BY <1>5
  <2>2. \A k \in 1 .. Len(s) : entry(s[k]) \in EntryType
    BY <1>3, <2>1
  <2> HIDE DEF entry, S
  <2> QED BY <1>5, <2>2
<1>7. decoded' = Filled(<<>>, t)
  BY <1>2
<1>8. /\ IsArray(Filled(<<>>, t), Len(t))
      /\ Len(t) <= MaxOut => Filled(<<>>, t) = t
  <2>1. IsArray(<<>>, 0)
    BY DEF IsArray
  <2> HIDE DEF t
  <2>2. 0 + Len(t) = Len(t) /\ <<>> \o t = t
    BY <1>6
  <2>3. \A n \in Nat : IsArray(<<>>, n) =>
          /\ IsArray(Filled(<<>>, t), n + Len(t))
          /\ n + Len(t) <= MaxOut => Filled(<<>>, t) = <<>> \o t
    BY <1>6, FilledIsArray
  <2>4. /\ IsArray(Filled(<<>>, t), 0 + Len(t))
        /\ 0 + Len(t) <= MaxOut => Filled(<<>>, t) = <<>> \o t
    BY <2>1, <2>3
  <2> QED BY <2>2, <2>4
<1>9. count' \in Nat /\ count' <= found /\ IsArray(decoded, count)'
  <2> HIDE DEF t, S
  <2> QED BY <1>0, <1>2, <1>4, <1>5, <1>6, <1>7, <1>8 DEF IsArray
<1>10. ASSUME found <= MaxOut
       PROVE  Lists(decoded', Sure)
  <2>1. decoded' = t
    <3> HIDE DEF t, S
    <3> QED BY <1>0, <1>4, <1>5, <1>6, <1>7, <1>8, <1>10
  <2>2. Lists(predict, Counted(Scales + 1)) /\ Len(predict) = found /\ DOMAIN predict = 1 .. found
    BY <1>0, <1>10 DEF DInv, DetectInv, IsArray
  <2>3. \A i \in 1 .. found : entry(i) = predict[i]
    BY <1>0, <2>2
  <2>4. Sure = {e \in Counted(Scales + 1) : e.conf >= Confident}
    <3>1. \A c \in Cells : Entry(c, scene[c]).grid < Scales + 1 /\ Entry(c, scene[c]).conf \in 0 .. Surest
      BY <1>0 DEF Entry
    <3>2. \A e \in Candidates : e.grid < Scales + 1 /\ e.conf \in 0 .. Surest
      BY <3>1 DEF Candidates
    <3>3. \A e \in Candidates : e.conf >= Confident => e.conf > 0
      BY <3>2
    <3> QED BY <3>2, <3>3 DEF Sure, Counted
  <2>5. S = {i \in 1 .. found : predict[i].conf >= Confident}
    BY <2>3
  <2> HIDE DEF S
  <2>6. \A k \in DOMAIN s : s[k] \in S /\ t[k] = predict[s[k]]
    <3>1. \A k \in DOMAIN s : s[k] \in S /\ s[k] \in 1 .. found
      BY <1>5, <2>5 DEF Lists
    <3> HIDE DEF entry
    <3> QED BY <2>3, <3>1
  <2> HIDE DEF t
  <2>7. \A k \in DOMAIN s : t[k] \in Sure
    BY <2>2, <2>4, <2>5, <2>6 DEF Lists
  <2>8. ASSUME NEW e \in Sure PROVE \E k \in DOMAIN s : t[k] = e
    <3>1. PICK i \in 1 .. found : predict[i] = e
      BY <2>2, <2>4 DEF Lists
    <3>2. i \in S
      BY <2>4, <2>5, <3>1
    <3>3. PICK k \in DOMAIN s : s[k] = i
      BY <1>5, <3>2 DEF Lists
    <3> QED BY <2>6, <3>1, <3>3
  <2>9. ASSUME NEW j \in DOMAIN s, NEW k \in DOMAIN s, t[j] = t[k] PROVE j = k
    <3>1. s[j] \in 1 .. found /\ s[k] \in 1 .. found /\ predict[s[j]] = predict[s[k]]
      BY <2>5, <2>6, <2>9
    <3>2. s[j] = s[k]
      BY <2>2, <3>1 DEF Lists
    <3> QED BY <1>5, <3>2 DEF Lists
  <2>10. DOMAIN t = DOMAIN s
    BY <1>5, <1>6
  <2>11. Lists(t, Sure)
    BY <2>7, <2>8, <2>9, <2>10 DEF Lists
  <2> QED BY <2>1, <2>11
<1>11. DetectInv'
  BY <1>0 DEF DInv, DetectInv, IsArray, Lists, CellsBefore, Counted, Candidates
<1>12. DecodeInv'
  <2>1. Sure' = Sure
    BY <1>0 DEF Sure, Candidates
  <2>2. found' <= MaxOut => Lists(decoded, Sure)'
    BY <1>0, <1>10, <2>1 DEF Lists
  <2> QED BY <1>0, <1>9, <2>2 DEF DecodeInv
<1>13. NmsInv'
  BY <1>0 DEF NmsInv
<1> QED BY <1>11, <1>12, <1>13 DEF DInv

LEMMA NmsStep ==
  ASSUME DInv, NEW i \in todo, Nms(i)
  PROVE  DInv'
<1>0. /\ kernel = "nms" /\ todo' = todo \ {i} /\ UNCHANGED <<scene, kernel, grid, found, predict, count, decoded, boxes>>
  BY DEF Nms
<1>1. DetectInv' /\ DecodeInv'
  BY <1>0 DEF DInv, DetectInv, DecodeInv, IsArray, Lists, CellsBefore, Counted, Candidates, Sure
<1>2. \A j : Suppressed(j)' = Suppressed(j)
  BY <1>0 DEF Suppressed, Beats, Overlap
<1>3. found <= MaxOut => ~(count > MaxOut)
  BY DetectorAssumption DEF DInv, DetectInv, DecodeInv
<1>4. todo \subseteq DOMAIN decoded /\ keep \subseteq DOMAIN decoded
  BY DEF DInv, NmsInv
<1>5. /\ \A j \in DOMAIN decoded : j \notin todo /\ Suppressed(j) => j \notin keep
      /\ found <= MaxOut => \A j \in DOMAIN decoded : j \notin keep => Suppressed(j)
  BY DEF DInv, NmsInv
<1>6. NmsInv'
  <2>1. todo' \subseteq DOMAIN decoded /\ keep' \subseteq keep /\ keep \ {i} \subseteq keep'
    BY <1>0, <1>4 DEF Nms
  <2>2. Suppressed(i) => i \notin keep'
    BY DEF Nms
  <2>3. found <= MaxOut /\ i \notin keep' => i \notin keep \/ Suppressed(i)
    BY <1>3 DEF Nms
  <2>4. \A j \in DOMAIN decoded : j \notin todo' /\ Suppressed(j) => j \notin keep'
    BY <1>0, <1>5, <2>1, <2>2
  <2>5. found <= MaxOut => \A j \in DOMAIN decoded : j \notin keep' => Suppressed(j)
    BY <1>4, <1>5, <2>1, <2>3
  <2> QED BY <1>0, <1>2, <1>4, <2>1, <2>4, <2>5 DEF NmsInv
<1> QED BY <1>1, <1>6 DEF DInv

LEMMA FinalizeStep ==
  ASSUME DInv, Finalize
  PROVE  DInv'
<1>0. /\ kernel = "nms" /\ kernel' = "done" /\ boxes' = {decoded[i] : i \in keep} /\ todo = {}
      /\ UNCHANGED <<scene, grid, found, predict, count, decoded, todo, keep>>
  BY DEF Finalize
<1>1. DetectInv' /\ DecodeInv'
  BY <1>0 DEF DInv, DetectInv, DecodeInv, IsArray, Lists, CellsBefore, Counted, Candidates, Sure
<1>2. \A j : Suppressed(j)' = Suppressed(j)
  BY <1>0 DEF Suppressed, Beats, Overlap
<1>3. NmsInv'
  BY <1>0, <1>2 DEF DInv, NmsInv
<1> QED BY <1>1, <1>3 DEF DInv

LEMMA DetStep == DInv /\ [DetNext]_detVars => DInv'
<1> SUFFICES ASSUME DInv, [DetNext]_detVars PROVE DInv'
  OBVIOUS
<1>1. CASE UNCHANGED detVars
  <2>1. UNCHANGED <<scene, kernel, grid, found, predict, count, decoded, todo, keep, boxes>>
    BY <1>1 DEF detVars
  <2>2. DetectInv' /\ DecodeInv'
    BY <2>1 DEF DInv, DetectInv, DecodeInv, IsArray, Lists, CellsBefore, Counted, Candidates, Sure
  <2>3. NmsInv'
    BY <2>1 DEF DInv, NmsInv, Suppressed, Beats, Overlap
  <2> QED BY <2>2, <2>3 DEF DInv
<1> QED BY <1>1, CalDetectionInv, DecodeStep, NmsStep, FinalizeStep DEF DetNext

\* Two entries that overlap: one of them beats the other.
LEMMA OneGivesWay ==
  ASSUME DInv, NEW i \in DOMAIN decoded, NEW j \in DOMAIN decoded, i # j, Overlap(decoded[i], decoded[j])
  PROVE  Suppressed(i) \/ Suppressed(j)
<1>1. /\ decoded[i] \in EntryType /\ decoded[j] \in EntryType
      /\ i \in Nat /\ j \in Nat
  BY DEF DInv, DecodeInv, IsArray
<1>2. Overlap(decoded[j], decoded[i])
  BY <1>1 DEF Overlap, EntryType
<1>3. Beats(j, i) \/ Beats(i, j)
  BY <1>1, DetectorAssumption DEF Beats, EntryType
<1> QED BY <1>2, <1>3 DEF Suppressed

LEMMA BoxesOnce == DInv => NoDoubleBoxes
<1> SUFFICES ASSUME DInv, kernel = "done", NEW i \in keep, NEW j \in keep, i # j PROVE ~Overlap(decoded[i], decoded[j])
  BY DEF NoDoubleBoxes
<1>1. /\ keep \subseteq DOMAIN decoded /\ todo = {}
      /\ \A k \in DOMAIN decoded : k \notin todo /\ Suppressed(k) => k \notin keep
  BY DEF DInv, NmsInv
<1>2. ~Suppressed(i) /\ ~Suppressed(j)
  BY <1>1
<1> QED BY <1>1, <1>2, OneGivesWay

\* Among the entries there is a surest one, the first of its equals.
LEMMA SurestExists ==
  ASSUME NEW n \in Nat, NEW a \in [1 .. n -> EntryType], n # 0
  PROVE  \E i \in 1 .. n : \A j \in 1 .. n : a[j].conf < a[i].conf \/ (a[j].conf = a[i].conf /\ i <= j)
<1> USE DetectorAssumption
<1> DEFINE Gap(i) == Surest - a[i].conf
           Gaps == {g \in Nat : \E i \in 1 .. n : g = Gap(i)}
<1>1. \A i \in 1 .. n : i \in Nat /\ a[i].conf \in 0 .. Surest /\ Gap(i) \in Nat
  BY DEF EntryType
<1>2. Gaps # {} /\ Gaps \subseteq Nat
  <2>1. 1 \in 1 .. n
    OBVIOUS
  <2>2. Gap(1) \in Gaps
    BY <1>1, <2>1
  <2> QED BY <2>2
<1> HIDE DEF Gaps
<1>3. PICK g \in Gaps : \A h \in Gaps : g <= h
  BY <1>2, LeastNat
<1> DEFINE Tops == {i \in 1 .. n : Gap(i) = g}
<1>4. Tops # {} /\ Tops \subseteq Nat /\ g \in Nat
  BY <1>1, <1>3 DEF Gaps
<1> HIDE DEF Tops
<1>5. PICK i \in Tops : \A j \in Tops : i <= j
  BY <1>4, LeastNat
<1>6. i \in 1 .. n /\ Gap(i) = g
  BY <1>5 DEF Tops
<1>7. ASSUME NEW j \in 1 .. n
      PROVE  a[j].conf < a[i].conf \/ (a[j].conf = a[i].conf /\ i <= j)
  <2>1. g <= Gap(j)
    BY <1>1, <1>3 DEF Gaps
  <2>2. Gap(j) = g => i <= j
    BY <1>5 DEF Tops
  <2> QED BY <1>1, <1>6, <2>1, <2>2
<1> QED BY <1>6, <1>7

LEMMA SureBoxesReturned == DInv => SurestAreReturned
<1> SUFFICES ASSUME DInv, kernel = "done", found <= MaxOut
             PROVE  /\ boxes \subseteq Sure
                    /\ \A c \in boxes, d \in Sure : Overlap(c, d) => d.conf <= c.conf
                    /\ \A c \in Sure \ boxes : \E d \in Sure \ {c} : Overlap(c, d) /\ d.conf >= c.conf
                    /\ Sure # {} => \E c \in boxes : \A d \in Sure : d.conf <= c.conf
  BY DEF SurestAreReturned
<1> USE DetectorAssumption
<1>1. /\ keep \subseteq DOMAIN decoded /\ boxes = {decoded[k] : k \in keep}
      /\ \A k \in DOMAIN decoded : k \in keep <=> ~Suppressed(k)
  BY DEF DInv, NmsInv
<1>2. Lists(decoded, Sure)
  BY DEF DInv, DecodeInv
<1>3. PICK n \in Nat : DOMAIN decoded = 1 .. n /\ decoded \in [1 .. n -> EntryType]
  BY DEF DInv, DecodeInv, IsArray
<1>4. \A i \in 1 .. n : decoded[i].conf \in 0 .. Surest /\ decoded[i].conf \in Int /\ decoded[i] \in Sure
  BY <1>2, <1>3 DEF EntryType, Lists
<1>5. boxes \subseteq Sure
  BY <1>1, <1>3, <1>4
<1>6. ASSUME NEW c \in boxes, NEW d \in Sure, Overlap(c, d)
      PROVE  d.conf <= c.conf
  <2>1. PICK i \in 1 .. n : i \in keep /\ decoded[i] = c
    BY <1>1, <1>3
  <2>2. PICK j \in 1 .. n : decoded[j] = d
    BY <1>2, <1>3 DEF Lists
  <2>3. i = j \/ ~Beats(j, i)
    BY <1>1, <1>3, <1>6, <2>1, <2>2 DEF Suppressed
  <2>4. CASE i = j
    BY <1>4, <2>1, <2>2, <2>4
  <2>5. CASE ~Beats(j, i)
    BY <1>4, <2>1, <2>2, <2>5 DEF Beats
  <2> QED BY <2>3, <2>4, <2>5
<1>7. ASSUME NEW c \in Sure \ boxes
      PROVE  \E d \in Sure \ {c} : Overlap(c, d) /\ d.conf >= c.conf
  <2>1. PICK i \in 1 .. n : decoded[i] = c
    BY <1>2, <1>3 DEF Lists
  <2>2. Suppressed(i)
    BY <1>1, <1>3, <1>7, <2>1
  <2>3. PICK j \in (1 .. n) \ {i} : Beats(j, i) /\ Overlap(decoded[i], decoded[j])
    BY <1>3, <2>2 DEF Suppressed
  <2>4. decoded[j] \in Sure /\ decoded[j] # c
    BY <1>2, <1>3, <1>4, <2>1, <2>3 DEF Lists
  <2>5. decoded[j].conf >= c.conf
    BY <1>4, <2>1, <2>3 DEF Beats
  <2> QED BY <2>1, <2>3, <2>4, <2>5
<1>8. ASSUME Sure # {}
      PROVE  \E c \in boxes : \A d \in Sure : d.conf <= c.conf
  <2>1. n # 0
    <3>1. PICK d \in Sure : TRUE
      BY <1>8
    <3>2. \E i \in 1 .. n : decoded[i] = d
      BY <1>2, <1>3 DEF Lists
    <3> QED BY <3>2
  <2>2. PICK i \in 1 .. n : \A j \in 1 .. n :
          decoded[j].conf < decoded[i].conf \/ (decoded[j].conf = decoded[i].conf /\ i <= j)
    BY <1>3, <2>1, SurestExists
  <2>3. ~Suppressed(i)
    <3>1. ASSUME NEW j \in 1 .. n, j # i PROVE ~Beats(j, i)
      BY <1>4, <2>2, <3>1 DEF Beats
    <3> QED BY <1>3, <3>1 DEF Suppressed
  <2>4. decoded[i] \in boxes
    BY <1>1, <1>3, <2>3
  <2>5. ASSUME NEW d \in Sure PROVE d.conf <= decoded[i].conf
    <3>1. PICK j \in 1 .. n : decoded[j] = d
      BY <1>2, <1>3 DEF Lists
    <3> QED BY <1>4, <2>2, <3>1
  <2> QED BY <2>4, <2>5
<1> QED BY <1>5, <1>6, <1>7, <1>8

\* For any cells, grids and room of the arrays, in whatever order the threads
\* ran: no box is returned twice, and with room for all none that counts is lost.
THEOREM BoxesAreSound == DetSpec => []DetInv
<1>1. DInv => DetTypeOK
  <2> SUFFICES ASSUME DInv PROVE DetTypeOK
    OBVIOUS
  <2> USE DetectorAssumption
  <2>1. found <= Cardinality(Cells)
    <3>1. CellsBefore(grid) \in SUBSET Cells
      BY DEF CellsBefore
    <3>2. /\ Cardinality(CellsBefore(grid)) <= Cardinality(Cells)
          /\ Cardinality(CellsBefore(grid)) \in Nat /\ Cardinality(Cells) \in Nat
      BY <3>1, FS_Subset, FS_CardinalityType
    <3> QED BY <3>2 DEF DInv, DetectInv
  <2>2. Len(predict) <= MaxOut /\ Len(decoded) <= MaxOut
    BY DEF DInv, DetectInv, DecodeInv, IsArray
  <2> QED BY <2>1, <2>2 DEF DetTypeOK, DInv, DetectInv, DecodeInv, NmsInv
<1>2. DInv => DetInv
  BY <1>1, BoxesOnce, SureBoxesReturned DEF DetInv
<1> QED BY <1>2, DetInitInv, DetStep, PTL DEF DetSpec

----------------------------------------------------------------------------
(* TrackTable *)

TrackSpec == TrackInit /\ [][TrackNext]_trackVars

TrackInv ==
  /\ calls \in Nat
  /\ seen \in [Ids -> 0 .. calls]
  /\ TableInv

\* Among the open detections there is a best one, the first of its equals.
LEMMA BestExists ==
  ASSUME NEW n \in Nat, NEW overlap \in [1 .. n -> 0 .. Best], NEW open, open \subseteq 1 .. n, open # {}
  PROVE  \E d \in open : \A e \in open :
           overlap[e] < overlap[d] \/ (overlap[e] = overlap[d] /\ d <= e)
<1> USE TrackAssumption
<1> DEFINE Gaps == {g \in Nat : \E d \in open : g = Best - overlap[d]}
<1>1. \A d \in open : d \in Nat /\ overlap[d] \in 0 .. Best /\ Best - overlap[d] \in Nat
  OBVIOUS
<1>2. Gaps # {} /\ Gaps \subseteq Nat
  BY <1>1
<1> HIDE DEF Gaps
<1>3. PICK g \in Gaps : \A h \in Gaps : g <= h
  BY <1>2, LeastNat
<1> DEFINE Tops == {d \in open : overlap[d] = Best - g}
<1>4. g \in Nat /\ Tops # {} /\ Tops \subseteq Nat
  <2>1. PICK d \in open : g = Best - overlap[d]
    BY <1>3 DEF Gaps
  <2>2. g \in Nat /\ overlap[d] = Best - g
    BY <1>1, <2>1
  <2>3. \A e \in Tops : e \in open
    OBVIOUS
  <2> QED BY <1>1, <2>2, <2>3
<1> HIDE DEF Tops
<1>5. PICK d \in Tops : \A e \in Tops : d <= e
  BY <1>4, LeastNat
<1>6. d \in open /\ overlap[d] = Best - g
  BY <1>5 DEF Tops
<1>7. ASSUME NEW e \in open
      PROVE  overlap[e] < overlap[d] \/ (overlap[e] = overlap[d] /\ d <= e)
  <2>1. g <= Best - overlap[e]
    BY <1>1, <1>3 DEF Gaps
  <2>2. overlap[e] = Best - g => d <= e
    BY <1>5 DEF Tops
  <2> QED BY <1>1, <1>4, <1>6, <2>1, <2>2
<1> QED BY <1>6, <1>7

LEMMA PickProperties ==
  ASSUME NEW n \in Nat, NEW overlap \in [1 .. n -> 0 .. Best], NEW open, open \subseteq 1 .. n
  PROVE  /\ Pick(overlap, open) \in open \cup {0}
         /\ Pick(overlap, open) = 0 => \A d \in open : overlap[d] < Enough
<1>1. CASE \A d \in open : overlap[d] < Enough
  BY <1>1 DEF Pick
<1>2. CASE ~\A d \in open : overlap[d] < Enough
  <2>1. Pick(overlap, open) =
          CHOOSE d \in open : \A e \in open : overlap[e] < overlap[d] \/ (overlap[e] = overlap[d] /\ d <= e)
    BY <1>2 DEF Pick
  <2>2. open # {}
    BY <1>2
  <2>3. Pick(overlap, open) \in open
    BY <2>1, <2>2, BestExists
  <2> QED BY <2>3
<1> QED BY <1>1, <1>2

LevelsOf(tracks, overlap, dets, m) ==
  DOMAIN tracks = 1 .. m /\ \A k \in 1 .. m : overlap[tracks[k]] \in [1 .. dets -> 0 .. Best]

MaximalMatch(tracks, overlap, dets, took, m) ==
  /\ \A j, k \in 1 .. m : j # k /\ took[j] = took[k] => took[j] = 0
  /\ \A j \in 1 .. m, d \in 1 .. dets :
       took[j] = 0 /\ overlap[tracks[j]][d] >= Enough => \E k \in 1 .. m : k < j /\ took[k] = d

\* What the tracks took, one after the other, is a matching to which no pair
\* can be added.
LEMMA MatchProperties ==
  ASSUME NEW tracks, NEW m \in Nat, NEW dets \in Nat, NEW overlap,
         LevelsOf(tracks, overlap, dets, m), NEW took \in Match(tracks, overlap, dets)
  PROVE  MaximalMatch(tracks, overlap, dets, took, m)
<1> USE DEF LevelsOf
<1>1. took \in [1 .. m -> 0 .. dets]
  BY DEF Match
<1>2. \A k \in 1 .. m : took[k] = Pick(overlap[tracks[k]], Unused(dets, took, k))
  BY DEF Match
<1>3. \A k \in 1 .. m : Unused(dets, took, k) \subseteq 1 .. dets
  BY DEF Unused
<1>4. ASSUME NEW k \in 1 .. m
      PROVE  /\ took[k] \in Unused(dets, took, k) \cup {0}
             /\ took[k] = 0 => \A d \in Unused(dets, took, k) : overlap[tracks[k]][d] < Enough
  BY <1>2, <1>3, PickProperties
<1>5. ASSUME NEW j \in 1 .. m, NEW k \in 1 .. m, j < k, took[j] = took[k]
      PROVE  took[j] = 0
  <2>1. took[j] \notin Unused(dets, took, k)
    BY <1>5 DEF Unused
  <2> QED BY <1>4, <1>5, <2>1
<1>6. ASSUME NEW j \in 1 .. m, NEW k \in 1 .. m, j # k, took[j] = took[k]
      PROVE  took[j] = 0
  <2>1. j < k \/ k < j
    BY <1>6
  <2> QED BY <1>5, <1>6, <2>1
<1>7. ASSUME NEW j \in 1 .. m, NEW d \in 1 .. dets, took[j] = 0, overlap[tracks[j]][d] >= Enough
      PROVE  \E k \in 1 .. m : k < j /\ took[k] = d
  <2>1. overlap[tracks[j]][d] \in 0 .. Best
    OBVIOUS
  <2>2. d \notin Unused(dets, took, j)
    BY <1>4, <1>7, <2>1, TrackAssumption
  <2>3. PICK k \in 1 .. j - 1 : took[k] = d
    BY <2>2 DEF Unused
  <2> QED BY <2>3
<1> QED BY <1>6, <1>7 DEF MaximalMatch

LEMMA TracksTyped ==
  ASSUME NEW tracks \in Tracks
  PROVE  /\ ToSet(tracks) \subseteq Ids
         /\ \E m \in Nat : DOMAIN tracks = 1 .. m
         /\ \A k \in DOMAIN tracks : tracks[k] \in ToSet(tracks)
<1>1. PICK S \in SUBSET Ids : tracks \in SetToSeqs(S)
  BY DEF Tracks
<1>2. Cardinality(S) \in Nat
  BY <1>1, TrackAssumption, FS_Subset, FS_CardinalityType
<1>3. tracks \in [1 .. Cardinality(S) -> S]
  BY <1>1 DEF SetToSeqs
<1> QED BY <1>2, <1>3 DEF ToSet

LEMMA FrameInv ==
  ASSUME TrackInv, InferFrame
  PROVE  TrackInv'
<1>0. calls \in Nat /\ seen \in [Ids -> 0 .. calls] /\ TableInv /\ calls' = calls + 1 /\ mode' = mode
  BY DEF TrackInv, InferFrame
<1>1. CASE mode # 2
  <2>1. UNCHANGED <<table, matched, seen>>
    BY <1>1 DEF InferFrame
  <2>2. seen' \in [Ids -> 0 .. calls']
    BY <1>0, <2>1
  <2>3. TableInv'
    BY <1>0, <1>1, <2>1 DEF TableInv, TableIsRecent, MatchIsMaximal
  <2> QED BY <1>0, <2>2, <2>3 DEF TrackInv
<1>2. CASE mode = 2
  <2>1. PICK tracks \in Tracks, dets \in 0 .. MaxDets :
          \E overlap \in [ToSet(tracks) -> [1 .. dets -> 0 .. Best]] :
            /\ UpdateTrackTable(tracks, overlap, dets)
            /\ seen' = [i \in Ids |-> IF i \in ToSet(tracks) THEN calls + 1 ELSE seen[i]]
    BY <1>2 DEF InferFrame
  <2>2. PICK overlap \in [ToSet(tracks) -> [1 .. dets -> 0 .. Best]] :
            /\ UpdateTrackTable(tracks, overlap, dets)
            /\ seen' = [i \in Ids |-> IF i \in ToSet(tracks) THEN calls + 1 ELSE seen[i]]
    BY <2>1
  <2> DEFINE now == ToSet(tracks)
  <2>3. seen' \in [Ids -> 0 .. calls']
    BY <1>0, <2>2
  <2>4. MatchIsMaximal'
    <3>1. PICK took \in Match(tracks, overlap, dets) :
            matched' = [tracks |-> tracks, dets |-> dets, overlap |-> overlap, took |-> took]
      BY <2>2 DEF UpdateTrackTable
    <3>2. PICK m \in Nat : DOMAIN tracks = 1 .. m
      BY TracksTyped
    <3>3. LevelsOf(tracks, overlap, dets, m)
      BY <3>2, TracksTyped DEF LevelsOf
    <3>4. dets \in Nat
      BY TrackAssumption
    <3>5. DOMAIN took = 1 .. m
      BY <3>1, <3>2 DEF Match
    <3>6. MaximalMatch(tracks, overlap, dets, took, m)
      BY <3>1, <3>3, <3>4, MatchProperties
    <3>7. /\ matched'.took = took /\ matched'.tracks = tracks
          /\ matched'.dets = dets /\ matched'.overlap = overlap
      BY <3>1
    <3> QED BY <3>5, <3>6, <3>7 DEF MatchIsMaximal, MaximalMatch
  <2>5. TableIsRecent'
    <3>1. now \subseteq Ids
      BY TracksTyped
    <3>2. table' = [i \in now \cup {i \in DOMAIN table \ now : table[i] + 1 <= MAX_LOST} |->
                      IF i \in now THEN 0 ELSE table[i] + 1]
      BY <2>2 DEF UpdateTrackTable, Refreshed
    <3>3. /\ DOMAIN table = {i \in Ids : seen[i] > 0 /\ calls - seen[i] <= MAX_LOST}
          /\ \A i \in DOMAIN table : table[i] = calls - seen[i]
      BY <1>0, <1>2 DEF TableInv, TableIsRecent
    <3> HIDE DEF now
    <3>4. ASSUME NEW i \in Ids
          PROVE  /\ i \in DOMAIN table' <=> seen'[i] > 0 /\ calls' - seen'[i] <= MAX_LOST
                 /\ i \in DOMAIN table' => table'[i] = calls' - seen'[i]
      <4>1. CASE i \in now
        BY <1>0, <2>2, <3>2, <4>1, TrackAssumption DEF now
      <4>2. CASE i \notin now
        <5>1. seen'[i] = seen[i] /\ seen[i] \in 0 .. calls
          BY <1>0, <2>2, <4>2 DEF now
        <5>2. /\ i \in DOMAIN table' <=> i \in DOMAIN table /\ table[i] + 1 <= MAX_LOST
              /\ i \in DOMAIN table' => table'[i] = table[i] + 1
          BY <3>2, <4>2
        <5>3. i \in DOMAIN table <=> seen[i] > 0 /\ calls - seen[i] <= MAX_LOST
          BY <3>3
        <5>4. i \in DOMAIN table => table[i] = calls - seen[i]
          BY <3>3
        <5> QED BY <1>0, <5>1, <5>2, <5>3, <5>4, TrackAssumption
      <4> QED BY <4>1, <4>2
    <3>5. DOMAIN table' \subseteq Ids
      BY <3>1, <3>2, <3>3
    <3> QED BY <3>4, <3>5 DEF TableIsRecent
  <2> QED BY <1>0, <2>3, <2>4, <2>5 DEF TrackInv, TableInv
<1> QED BY <1>1, <1>2

\* For any number of tracks, detections and frames: the table holds just the
\* tracks that were there lately, and the boxes are matched as well as the
\* greedy choice can.
THEOREM TableIsSound == TrackSpec => []TableInv
<1>1. TrackInit => TrackInv
  <2> SUFFICES ASSUME TrackInit PROVE TrackInv
    OBVIOUS
  <2>1. calls = 0 /\ seen = [i \in Ids |-> 0] /\ table = <<>> /\ matched = NoMatch
    BY DEF TrackInit
  <2>2. TableIsRecent
    BY <2>1 DEF TableIsRecent
  <2>3. MatchIsMaximal
    BY <2>1 DEF MatchIsMaximal, NoMatch
  <2> QED BY <2>1, <2>2, <2>3 DEF TrackInv, TableInv
<1>2. TrackInv /\ [TrackNext]_trackVars => TrackInv'
  <2>1. ASSUME TrackInv, UNCHANGED trackVars PROVE TrackInv'
    BY <2>1 DEF trackVars, TrackInv, TableInv, TableIsRecent, MatchIsMaximal
  <2> QED BY <2>1, FrameInv DEF TrackNext
<1>3. TrackInv => TableInv
  BY DEF TrackInv
<1> QED BY <1>1, <1>2, <1>3, PTL DEF TrackSpec

----------------------------------------------------------------------------
(* OsdSlots *)

OsdSpec == OsdInit /\ [][OsdNext]_osdVars

PublisherSteps == {"idle", "seq", "count", "boxes", "state", "record"}
ProberSteps == {"idle", "query", "copy", "release", "giveup"}
SlotType == [state : {"free", "pending"}, seq : 0 .. MaxFrame, count : {0, 1},
             boxes : 0 .. MaxFrame, event : {"pending", "complete"}]

OsdTyped ==
  /\ built \in 0 .. Cardinality(Hubs) /\ gone \subseteq Hubs
  /\ slot \in [Slots -> SlotType]
  /\ latest \in [valid : BOOLEAN, seq : 0 .. MaxFrame, count : {0, 1}, boxes : 0 .. MaxFrame, empty : Nat]
  /\ publisher \in [step : PublisherSteps, frame : 0 .. MaxFrame, count : {0, 1}, slot : 0 .. NumSlots]
  /\ prober \in [Hubs -> [step : ProberSteps, frame : 0 .. MaxFrame, slot : 0 .. NumSlots]]
  /\ drawn \in [Hubs -> [boxes : 0 .. MaxFrame, exact : BOOLEAN]]

\* A valid result has boxes of the frame it names, or of no frame, and was
\* followed by fewer empty results than clear it.
LatestInv ==
  latest.valid =>
    /\ latest.boxes \in {0, latest.seq} /\ latest.seq > 0 /\ latest.count > 0
    /\ latest.empty < ClearAfterEmpty

\* A publication is for a frame.
AtWork == publisher.step # "idle" => publisher.frame > 0

OInv == OsdTyped /\ LatestInv /\ AtWork /\ FallbackIsFresh

USE OsdAssumption


LEMMA FirstIsIn ==
  ASSUME NEW S, S \subseteq Slots, S # {}
  PROVE  FirstOf(S) \in S
<1>1. S \subseteq Nat
  BY DEF Slots
<1>2. \E s \in S : \A t \in S : s <= t
  BY <1>1, LeastNat
<1> QED BY <1>2 DEF FirstOf

LEMMA OsdInitInv == OsdInit => OInv
<1> SUFFICES ASSUME OsdInit PROVE OInv
  OBVIOUS
<1>0. NumSlots \in Nat \ {0} /\ MaxFrame \in Nat /\ Cardinality(Hubs) \in Nat
  BY FS_CardinalityType
<1>1. slot \in [Slots -> SlotType]
  BY <1>0 DEF OsdInit, Blank, SlotType
<1>2. latest \in [valid : BOOLEAN, seq : 0 .. MaxFrame, count : {0, 1}, boxes : 0 .. MaxFrame, empty : Nat]
  BY <1>0 DEF OsdInit, NoBoxes
<1>3. publisher \in [step : PublisherSteps, frame : 0 .. MaxFrame, count : {0, 1}, slot : 0 .. NumSlots]
  BY <1>0 DEF OsdInit, Idle, PublisherSteps
<1>4. prober \in [Hubs -> [step : ProberSteps, frame : 0 .. MaxFrame, slot : 0 .. NumSlots]]
  BY <1>0 DEF OsdInit, ProberSteps
<1>5. drawn \in [Hubs -> [boxes : 0 .. MaxFrame, exact : BOOLEAN]]
  BY <1>0 DEF OsdInit, NotDrawn
<1>6. built \in 0 .. Cardinality(Hubs) /\ gone \subseteq Hubs
  BY <1>0 DEF OsdInit
<1>7. LatestInv /\ AtWork /\ FallbackIsFresh
  BY DEF OsdInit, LatestInv, NoBoxes, AtWork, Idle, FallbackIsFresh, NotDrawn
<1> QED BY <1>1, <1>2, <1>3, <1>4, <1>5, <1>6, <1>7 DEF OInv, OsdTyped

\* The slots keep their types, whatever field is written.
LEMMA WriteTyped ==
  ASSUME OInv,
         \/ Write("seq", publisher.frame) \/ Write("count", publisher.count)
         \/ Write("boxes", publisher.frame) \/ Write("state", "pending") \/ Write("event", "pending")
  PROVE  slot' \in [Slots -> SlotType]
<1>1. /\ publisher.frame \in 0 .. MaxFrame /\ publisher.count \in {0, 1}
      /\ \A s \in Slots : slot[s] \in SlotType
  BY DEF OInv, OsdTyped
<1>2. \A r \in SlotType, f \in 0 .. MaxFrame, n \in {0, 1} :
        /\ [r EXCEPT !["seq"] = f] \in SlotType /\ [r EXCEPT !["count"] = n] \in SlotType
        /\ [r EXCEPT !["boxes"] = f] \in SlotType /\ [r EXCEPT !["state"] = "pending"] \in SlotType
        /\ [r EXCEPT !["event"] = "pending"] \in SlotType
  BY DEF SlotType
<1>3. ASSUME NEW field, NEW v, \A s \in Slots : [slot[s] EXCEPT ![field] = v] \in SlotType, Write(field, v)
      PROVE  slot' \in [Slots -> SlotType]
  BY <1>1, <1>3 DEF Write
<1> QED BY <1>1, <1>2, <1>3

LEMMA FreedTyped ==
  ASSUME OsdTyped, NEW s
  PROVE  Freed(s) \in [Slots -> SlotType]
<1>1. \A t \in Slots : slot[t] \in SlotType
  BY DEF OsdTyped
<1>2. ASSUME NEW r \in SlotType
      PROVE  [r EXCEPT !.state = "free", !.seq = 0, !.count = 0] \in SlotType
  <2>1. 0 \in 0 .. MaxFrame
    OBVIOUS
  <2> QED BY <2>1 DEF SlotType
<1> QED BY <1>1, <1>2 DEF Freed

LEMMA PublisherGoesTyped ==
  ASSUME OsdTyped, NEW from, NEW to \in PublisherSteps, PublisherGoes(from, to)
  PROVE  /\ publisher' \in [step : PublisherSteps, frame : 0 .. MaxFrame, count : {0, 1}, slot : 0 .. NumSlots]
         /\ publisher'.frame = publisher.frame
BY DEF OsdTyped, PublisherGoes

LEMMA PublishInv ==
  ASSUME OInv,
         Acquire \/ SetSeq \/ SetCount \/ SetBoxes \/ SetState \/ RecordEvent \/ RecordFails \/ EventCompletes
  PROVE  OInv'
<1> USE DEF hubVars
<1>0. /\ OsdTyped /\ publisher.frame \in 0 .. MaxFrame /\ publisher.count \in {0, 1}
      /\ publisher.slot \in 0 .. NumSlots
  BY DEF OInv, OsdTyped
<1>1. UNCHANGED <<prober, drawn, hubVars>>
  BY DEF Acquire, SetSeq, SetCount, SetBoxes, SetState, RecordEvent, RecordFails, EventCompletes
<1>2. FallbackIsFresh'
  BY <1>1 DEF OInv, FallbackIsFresh
<1>3. ASSUME slot' \in [Slots -> SlotType],
             publisher' \in [step : PublisherSteps, frame : 0 .. MaxFrame, count : {0, 1}, slot : 0 .. NumSlots],
             latest' \in [valid : BOOLEAN, seq : 0 .. MaxFrame, count : {0, 1}, boxes : 0 .. MaxFrame, empty : Nat],
             AtWork', LatestInv'
      PROVE  OInv'
  BY <1>0, <1>1, <1>2, <1>3 DEF OInv, OsdTyped
<1>4. latest' = latest =>
        /\ latest' \in [valid : BOOLEAN, seq : 0 .. MaxFrame, count : {0, 1}, boxes : 0 .. MaxFrame, empty : Nat]
        /\ LatestInv'
  BY DEF OInv, OsdTyped, LatestInv
<1>5. CASE Acquire
  <2>1. PICK f \in publisher.frame + 1 .. MaxFrame, n \in {0, 1} :
          LET open == {s \in Slots : Alive /\ Takeable(s)}
              s    == FirstOf(open) IN
          IF open = {}
          THEN publisher' = [Idle EXCEPT !.frame = f] /\ UNCHANGED slot
          ELSE /\ publisher' = [step |-> "seq", frame |-> f, count |-> n, slot |-> s]
               /\ slot' = [slot EXCEPT ![s].state = "pending",
                    ![s].seq   = IF slot[s].state = "free" THEN @ ELSE 0,
                    ![s].count = IF slot[s].state = "free" THEN @ ELSE 0]
    BY <1>5 DEF Acquire
  <2> DEFINE open == {s \in Slots : Alive /\ Takeable(s)}
  <2>2. f \in 1 .. MaxFrame
    BY <1>0
  <2>3. CASE open = {}
    <3>1. publisher' = [Idle EXCEPT !.frame = f] /\ UNCHANGED <<slot, latest>>
      BY <1>5, <2>1, <2>3 DEF Acquire
    <3>2. AtWork'
      BY <2>2, <3>1 DEF AtWork, Idle
    <3> QED BY <1>0, <1>3, <1>4, <2>2, <3>1, <3>2 DEF Idle, PublisherSteps, OsdTyped
  <2>4. CASE open # {}
    <3> DEFINE g == FirstOf(open)
    <3>1. g \in Slots
      BY <2>4, FirstIsIn
    <3>2. /\ publisher' = [step |-> "seq", frame |-> f, count |-> n, slot |-> g] /\ UNCHANGED latest
          /\ slot' = [slot EXCEPT ![g].state = "pending",
                        ![g].seq   = IF slot[g].state = "free" THEN @ ELSE 0,
                        ![g].count = IF slot[g].state = "free" THEN @ ELSE 0]
      BY <1>5, <2>1, <2>4 DEF Acquire
    <3> HIDE DEF g, open
    <3>3. slot' \in [Slots -> SlotType]
      <4>1. slot[g] \in SlotType /\ slot \in [Slots -> SlotType]
        BY <1>0, <3>1 DEF OsdTyped
      <4> DEFINE r == [slot[g] EXCEPT !.state = "pending",
                         !.seq   = IF slot[g].state = "free" THEN @ ELSE 0,
                         !.count = IF slot[g].state = "free" THEN @ ELSE 0]
      <4>2. r \in SlotType
        <5>1. 0 \in 0 .. MaxFrame
          OBVIOUS
        <5> QED BY <4>1, <5>1 DEF SlotType
      <4>3. slot' = [slot EXCEPT ![g] = r]
        BY <3>2
      <4> HIDE DEF r
      <4> QED BY <4>1, <4>2, <4>3
    <3>4. AtWork'
      BY <2>2, <3>2 DEF AtWork
    <3>5. g \in 0 .. NumSlots
      BY <3>1 DEF Slots
    <3> QED BY <1>3, <1>4, <2>2, <3>2, <3>3, <3>4, <3>5 DEF PublisherSteps
  <2> QED BY <2>3, <2>4
<1>6. CASE SetSeq \/ SetCount \/ SetState
  <2>1. slot' \in [Slots -> SlotType] /\ UNCHANGED latest
    BY <1>6, WriteTyped DEF SetSeq, SetCount, SetState
  <2>2. /\ publisher' \in [step : PublisherSteps, frame : 0 .. MaxFrame, count : {0, 1}, slot : 0 .. NumSlots]
        /\ publisher'.frame = publisher.frame /\ publisher.step # "idle"
    <3>1. \E from \in {"seq", "count", "state"}, to \in PublisherSteps : PublisherGoes(from, to)
      BY <1>6 DEF SetSeq, SetCount, SetState, PublisherSteps
    <3> QED BY <1>0, <3>1, PublisherGoesTyped DEF PublisherGoes
  <2> QED BY <1>3, <1>4, <2>1, <2>2 DEF AtWork, OInv
<1>7. CASE SetBoxes
  <2>1. slot' \in [Slots -> SlotType]
    BY <1>0, <1>7, WriteTyped DEF SetBoxes, OsdTyped
  <2>2. /\ publisher' \in [step : PublisherSteps, frame : 0 .. MaxFrame, count : {0, 1}, slot : 0 .. NumSlots]
        /\ publisher'.frame = publisher.frame /\ publisher.step # "idle"
    <3>1. PublisherGoes("boxes", "state")
      BY <1>7 DEF SetBoxes
    <3> QED BY <1>0, <3>1, PublisherGoesTyped DEF PublisherGoes, PublisherSteps
  <2>3. publisher.frame \in 1 .. MaxFrame
    BY <1>0, <2>2 DEF OInv, AtWork
  <2>4. PICK b \in {0, publisher.frame} : latest' = UpdateLatest(publisher.frame, publisher.count, b)
    BY <1>7 DEF SetBoxes
  <2>5. latest' \in [valid : BOOLEAN, seq : 0 .. MaxFrame, count : {0, 1}, boxes : 0 .. MaxFrame, empty : Nat]
    <3>1. /\ b \in 0 .. MaxFrame /\ publisher.frame \in 0 .. MaxFrame
          /\ 0 \in 0 .. MaxFrame /\ latest.empty + 1 \in Nat
      BY <1>0 DEF OsdTyped
    <3>2. CASE publisher.count > 0
      BY <1>0, <2>4, <3>1, <3>2 DEF UpdateLatest
    <3>3. CASE ~(publisher.count > 0)
      BY <1>0, <2>4, <3>1, <3>3 DEF UpdateLatest, OsdTyped
    <3> QED BY <3>2, <3>3
  <2>6. LatestInv'
    BY <1>0, <2>3, <2>4 DEF OInv, UpdateLatest, OsdTyped, LatestInv
  <2> QED BY <1>3, <2>1, <2>2, <2>5, <2>6 DEF AtWork, OInv
<1>8. CASE RecordEvent
  <2>1. slot' \in [Slots -> SlotType] /\ UNCHANGED latest
    BY <1>8, WriteTyped DEF RecordEvent
  <2>2. publisher' = [Idle EXCEPT !.frame = publisher.frame]
    BY <1>8 DEF RecordEvent
  <2> QED BY <1>0, <1>3, <1>4, <2>1, <2>2 DEF AtWork, Idle, PublisherSteps
<1>9. CASE RecordFails
  <2>1. slot' \in [Slots -> SlotType] /\ UNCHANGED latest
    BY <1>0, <1>9, FreedTyped DEF RecordFails
  <2>2. publisher' = [Idle EXCEPT !.frame = publisher.frame]
    BY <1>9 DEF RecordFails
  <2> QED BY <1>0, <1>3, <1>4, <2>1, <2>2 DEF AtWork, Idle, PublisherSteps
<1>10. CASE EventCompletes
  <2>1. UNCHANGED <<latest, publisher>>
    BY <1>10 DEF EventCompletes
  <2>2. slot' \in [Slots -> SlotType]
    <3>1. PICK s \in Slots : slot' = [slot EXCEPT ![s].event = "complete"]
      BY <1>10 DEF EventCompletes
    <3>2. slot[s] \in SlotType /\ slot \in [Slots -> SlotType]
      BY <1>0 DEF OsdTyped
    <3>3. [slot[s] EXCEPT !.event = "complete"] \in SlotType
      BY <3>2 DEF SlotType
    <3> QED BY <3>1, <3>2, <3>3
  <2> QED BY <1>0, <1>3, <1>4, <2>1, <2>2 DEF AtWork, OInv, OsdTyped
<1> QED BY <1>5, <1>6, <1>7, <1>8, <1>9, <1>10

ProberType == [step : ProberSteps, frame : 0 .. MaxFrame, slot : 0 .. NumSlots]
Fresh(h) == drawn[h].boxes # 0 /\ ~drawn[h].exact => prober[h].frame - drawn[h].boxes \in 0 .. MaxFallback

LEMMA FallBackIsFresh ==
  ASSUME OInv, NEW h \in Hubs, prober' \in [Hubs -> ProberType], FallBack(h)
  PROVE  /\ drawn' \in [Hubs -> [boxes : 0 .. MaxFrame, exact : BOOLEAN]]
         /\ Fresh(h)' /\ \A g \in Hubs : g # h => drawn'[g] = drawn[g]
<1> DEFINE f == prober'[h].frame
           b == IF Usable(f) THEN latest.boxes ELSE 0
<1>1. /\ f \in 0 .. MaxFrame /\ latest.boxes \in 0 .. MaxFrame /\ latest.seq \in 0 .. MaxFrame
      /\ drawn \in [Hubs -> [boxes : 0 .. MaxFrame, exact : BOOLEAN]]
  BY DEF OInv, OsdTyped, ProberType
<1>2. b \in 0 .. MaxFrame
  BY <1>1
<1>3. drawn' = [drawn EXCEPT ![h] = [boxes |-> b, exact |-> FALSE]]
  BY DEF FallBack, Draw
<1>4. b # 0 => f - b \in 0 .. MaxFallback
  <2>1. CASE Usable(f)
    BY <1>1, <2>1 DEF Usable, OInv, LatestInv
  <2> QED BY <2>1
<1> HIDE DEF b
<1>5. drawn'[h] = [boxes |-> b, exact |-> FALSE]
  BY <1>1, <1>3
<1>6. Fresh(h)'
  BY <1>4, <1>5 DEF Fresh
<1> HIDE DEF f
<1> QED BY <1>1, <1>2, <1>3, <1>6

\* A hub's probe disturbs neither the other hubs nor the latest result.
LEMMA ProbeKeeps ==
  ASSUME OInv, NEW h \in Hubs, UNCHANGED <<latest, publisher, hubVars>>,
         slot' \in [Slots -> SlotType], prober' \in [Hubs -> ProberType],
         drawn' \in [Hubs -> [boxes : 0 .. MaxFrame, exact : BOOLEAN]], Fresh(h)',
         \A g \in Hubs : g # h => drawn'[g] = drawn[g] /\ prober'[g] = prober[g]
  PROVE  OInv'
<1>1. OsdTyped'
  BY DEF OInv, OsdTyped, ProberType, hubVars
<1>2. LatestInv' /\ AtWork'
  BY DEF OInv, LatestInv, AtWork
<1>3. \A g \in Hubs : Fresh(g)'
  BY DEF OInv, FallbackIsFresh, Fresh
<1>4. FallbackIsFresh'
  BY <1>3 DEF FallbackIsFresh, Fresh
<1> QED BY <1>1, <1>2, <1>4 DEF OInv

LEMMA ProbeInv ==
  ASSUME OInv, NEW h \in Hubs, Find(h) \/ Query(h) \/ Copy(h) \/ Release(h)
  PROVE  OInv'
<1>0. /\ prober \in [Hubs -> ProberType] /\ slot \in [Slots -> SlotType]
      /\ drawn \in [Hubs -> [boxes : 0 .. MaxFrame, exact : BOOLEAN]]
      /\ prober[h] \in ProberType /\ OsdTyped /\ Fresh(h)
      /\ prober[h].frame \in 0 .. MaxFrame
  BY DEF OInv, OsdTyped, ProberType, FallbackIsFresh, Fresh
<1>1. UNCHANGED <<latest, publisher, hubVars>>
  BY DEF Find, Query, Copy, Release
<1>2. ASSUME NEW r \in ProberType, prober' = [prober EXCEPT ![h] = r],
             slot' \in [Slots -> SlotType], FallBack(h)
      PROVE  OInv'
  <2>1. prober' \in [Hubs -> ProberType] /\ \A g \in Hubs : g # h => prober'[g] = prober[g]
    BY <1>0, <1>2
  <2> QED BY <1>1, <1>2, <2>1, FallBackIsFresh, ProbeKeeps
<1>3. ASSUME NEW r \in ProberType, r.frame = prober[h].frame, prober' = [prober EXCEPT ![h] = r],
             slot' \in [Slots -> SlotType], UNCHANGED drawn
      PROVE  OInv'
  <2>1. prober' \in [Hubs -> ProberType] /\ prober'[h] = r /\ \A g \in Hubs : g # h => prober'[g] = prober[g]
    BY <1>0, <1>3
  <2>2. Fresh(h)'
    BY <1>0, <1>3, <2>1 DEF Fresh
  <2> QED BY <1>0, <1>1, <1>3, <2>1, <2>2, ProbeKeeps
<1>4. ASSUME NEW st \in ProberSteps
      PROVE  /\ [prober[h] EXCEPT !.step = st] \in ProberType
             /\ [prober[h] EXCEPT !.step = st].frame = prober[h].frame
             /\ [prober EXCEPT ![h].step = st] = [prober EXCEPT ![h] = [prober[h] EXCEPT !.step = st]]
  BY <1>0 DEF ProberType
<1>5. Leave(h) => \E r \in ProberType : r.frame = prober[h].frame /\ prober' = [prober EXCEPT ![h] = r]
  <2> DEFINE r == [prober[h] EXCEPT !.step = "idle", !.slot = 0]
  <2>1. r \in ProberType /\ r.frame = prober[h].frame
    <3>1. 0 \in 0 .. NumSlots
      OBVIOUS
    <3> QED BY <1>0, <3>1 DEF ProberType, ProberSteps
  <2>2. Leave(h) => prober' = [prober EXCEPT ![h] = r]
    BY DEF Leave
  <2> QED BY <2>1, <2>2
<1>6. CASE Find(h)
  <2>1. PICK f \in prober[h].frame + 1 .. MaxFrame :
          LET at == {s \in Slots : Alive /\ slot[s].state # "free" /\ slot[s].seq = f} IN
          IF at = {}
          THEN prober' = [prober EXCEPT ![h].frame = f] /\ FallBack(h)
          ELSE /\ prober' = [prober EXCEPT ![h] = [step |-> "query", frame |-> f, slot |-> FirstOf(at)]]
               /\ drawn' = [drawn EXCEPT ![h] = NotDrawn]
    BY <1>6 DEF Find
  <2> DEFINE at == {s \in Slots : Alive /\ slot[s].state # "free" /\ slot[s].seq = f}
  <2>2. f \in 0 .. MaxFrame /\ UNCHANGED slot
    BY <1>0, <1>6 DEF Find
  <2>3. CASE at = {}
    <3>1. prober' = [prober EXCEPT ![h].frame = f] /\ FallBack(h)
      BY <2>1, <2>3
    <3> DEFINE r == [prober[h] EXCEPT !.frame = f]
    <3>2. r \in ProberType
      BY <1>0, <2>2 DEF ProberType
    <3>3. prober' = [prober EXCEPT ![h] = r]
      BY <3>1
    <3> HIDE DEF r
    <3> QED BY <1>0, <1>2, <2>2, <3>1, <3>2, <3>3
  <2>4. CASE at # {}
    <3> DEFINE r == [step |-> "query", frame |-> f, slot |-> FirstOf(at)]
    <3>1. FirstOf(at) \in 0 .. NumSlots
      <4>1. at \subseteq Slots
        OBVIOUS
      <4> HIDE DEF at
      <4>2. FirstOf(at) \in Slots
        BY <2>4, <4>1, FirstIsIn
      <4> QED BY <4>2 DEF Slots
    <3>2. r \in ProberType
      BY <2>2, <3>1 DEF ProberType, ProberSteps
    <3>3. prober' = [prober EXCEPT ![h] = r] /\ drawn' = [drawn EXCEPT ![h] = NotDrawn]
      BY <2>1, <2>4
    <3> HIDE DEF r, at
    <3>4. prober' \in [Hubs -> ProberType] /\ \A g \in Hubs : g # h => prober'[g] = prober[g]
      BY <1>0, <3>2, <3>3
    <3>5. NotDrawn \in [boxes : 0 .. MaxFrame, exact : BOOLEAN] /\ NotDrawn.boxes = 0
      <4>1. 0 \in 0 .. MaxFrame
        OBVIOUS
      <4> QED BY <4>1 DEF NotDrawn
    <3>6. /\ drawn' \in [Hubs -> [boxes : 0 .. MaxFrame, exact : BOOLEAN]] /\ drawn'[h].boxes = 0
          /\ \A g \in Hubs : g # h => drawn'[g] = drawn[g]
      BY <1>0, <3>3, <3>5
    <3>7. Fresh(h)'
      BY <3>6 DEF Fresh
    <3> QED BY <1>0, <1>1, <2>2, <3>4, <3>6, <3>7, ProbeKeeps
  <2> QED BY <2>3, <2>4
<1>7. CASE Query(h)
  <2>1. UNCHANGED slot
    BY <1>7 DEF Query
  <2>2. CASE Leave(h) /\ FallBack(h)
    BY <1>0, <1>2, <1>5, <2>1, <2>2
  <2>3. CASE \E st \in ProberSteps : prober' = [prober EXCEPT ![h].step = st] /\ UNCHANGED drawn
    BY <1>0, <1>3, <1>4, <2>1, <2>3
  <2> QED BY <1>7, <2>2, <2>3 DEF Query, ProberSteps
<1>8. CASE Copy(h)
  <2>1. UNCHANGED slot
    BY <1>8 DEF Copy
  <2>2. CASE Held(h).event = "complete" /\ Held(h).count > 0
    <3>1. prober' = [prober EXCEPT ![h].step = "release"] /\ Draw(h, Held(h).boxes, TRUE)
      BY <1>8, <2>2 DEF Copy
    <3>2. Held(h).boxes \in 0 .. MaxFrame
      BY <1>0 DEF Held, Blank, SlotType
    <3> DEFINE r == [prober[h] EXCEPT !.step = "release"]
               d == [boxes |-> Held(h).boxes, exact |-> TRUE]
    <3>3. r \in ProberType /\ prober' = [prober EXCEPT ![h] = r]
      BY <1>4, <3>1 DEF ProberSteps
    <3>4. d \in [boxes : 0 .. MaxFrame, exact : BOOLEAN] /\ drawn' = [drawn EXCEPT ![h] = d] /\ d.exact = TRUE
      BY <3>1, <3>2 DEF Draw
    <3> HIDE DEF r, d
    <3>5. prober' \in [Hubs -> ProberType] /\ \A g \in Hubs : g # h => prober'[g] = prober[g]
      BY <1>0, <3>3
    <3>6. /\ drawn' \in [Hubs -> [boxes : 0 .. MaxFrame, exact : BOOLEAN]] /\ drawn'[h].exact = TRUE
          /\ \A g \in Hubs : g # h => drawn'[g] = drawn[g]
      BY <1>0, <3>4
    <3>7. Fresh(h)'
      BY <3>6 DEF Fresh
    <3> QED BY <1>0, <1>1, <2>1, <3>5, <3>6, <3>7, ProbeKeeps
  <2>3. CASE ~(Held(h).event = "complete" /\ Held(h).count > 0)
    <3>1. prober' = [prober EXCEPT ![h].step = "giveup"] /\ UNCHANGED drawn
      BY <1>8, <2>3 DEF Copy
    <3> QED BY <1>0, <1>3, <1>4, <2>1, <3>1 DEF ProberSteps
  <2> QED BY <2>2, <2>3
<1>9. CASE Release(h)
  <2>1. slot' \in [Slots -> SlotType] /\ Leave(h)
    BY <1>0, <1>9, FreedTyped DEF Release
  <2>2. CASE FallBack(h)
    BY <1>2, <1>5, <2>1, <2>2
  <2>3. CASE UNCHANGED drawn
    BY <1>3, <1>5, <2>1, <2>3
  <2> QED BY <1>9, <2>2, <2>3 DEF Release
<1> QED BY <1>6, <1>7, <1>8, <1>9

LEMMA HubsInv ==
  ASSUME OInv, Replace, UNCHANGED drawn, built' \in 0 .. Cardinality(Hubs), gone' \subseteq Hubs
  PROVE  OInv'
<1>0. OsdTyped /\ 0 \in 0 .. NumSlots /\ 0 \in 0 .. MaxFrame
  BY DEF OInv
<1>1. slot' \in [Slots -> SlotType]
  BY <1>0 DEF Replace, Blank, SlotType
<1>2. latest' \in [valid : BOOLEAN, seq : 0 .. MaxFrame, count : {0, 1}, boxes : 0 .. MaxFrame, empty : Nat]
  BY <1>0 DEF Replace, NoBoxes
<1>3. /\ publisher' \in [step : PublisherSteps, frame : 0 .. MaxFrame, count : {0, 1}, slot : 0 .. NumSlots]
      /\ publisher'.step = publisher.step /\ publisher'.frame = publisher.frame
  BY <1>0 DEF Replace, OsdTyped
<1>4. /\ prober' \in [Hubs -> ProberType]
      /\ \A h \in Hubs : prober'[h].frame = prober[h].frame
  <2>1. \A h \in Hubs : prober[h] \in ProberType
    BY <1>0 DEF OsdTyped, ProberType
  <2>2. \A h \in Hubs : /\ [prober[h] EXCEPT !.slot = 0] \in ProberType
                        /\ [prober[h] EXCEPT !.slot = 0].frame = prober[h].frame
    BY <1>0, <2>1 DEF ProberType
  <2> QED BY <2>2 DEF Replace
<1>5. OsdTyped'
  BY <1>0, <1>1, <1>2, <1>3, <1>4 DEF OsdTyped, ProberType
<1>6. LatestInv'
  BY DEF Replace, NoBoxes, LatestInv
<1>7. AtWork'
  BY <1>3 DEF OInv, AtWork
<1>8. FallbackIsFresh'
  BY <1>4 DEF OInv, FallbackIsFresh
<1> QED BY <1>5, <1>6, <1>7, <1>8 DEF OInv

LEMMA OsdStep == OInv /\ [OsdNext]_osdVars => OInv'
<1> SUFFICES ASSUME OInv, [OsdNext]_osdVars PROVE OInv'
  OBVIOUS
<1>1. CASE UNCHANGED osdVars
  BY <1>1 DEF osdVars, hubVars, OInv, OsdTyped, LatestInv, AtWork, FallbackIsFresh
<1>2. CASE Create
  <2>1. built \in 0 .. Cardinality(Hubs) /\ Cardinality(Hubs) \in Nat /\ gone \subseteq Hubs
    BY FS_CardinalityType DEF OInv, OsdTyped
  <2> QED BY <1>2, <2>1, HubsInv DEF Create
<1>3. ASSUME NEW h \in Hubs, TearDown(h) PROVE OInv'
  <2>1. built \in 0 .. Cardinality(Hubs) /\ gone \subseteq Hubs
    BY DEF OInv, OsdTyped
  <2> QED BY <1>3, <2>1, HubsInv DEF TearDown
<1> QED BY <1>1, <1>2, <1>3, PublishInv, ProbeInv DEF OsdNext

\* For any number of slots, hubs and frames: what a probe falls back on is
\* recent and never of a later picture.
THEOREM OsdIsSafe == OsdSpec => []OsdInv
<1>1. OInv => OsdInv
  <2> SUFFICES ASSUME OInv PROVE OsdInv
    OBVIOUS
  <2>1. OsdTypeOK
    BY DEF OInv, OsdTyped, LatestInv, OsdTypeOK, SlotType
  <2> QED BY <2>1 DEF OInv, OsdInv
<1> QED BY <1>1, OsdInitInv, OsdStep, PTL DEF OsdSpec

=============================================================================
