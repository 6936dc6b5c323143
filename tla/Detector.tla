------------------------------ MODULE Detector ------------------------------
(***************************************************************************)
(* How the boxes of a frame are found on the GPU: CalDetection, once for   *)
(* each grid, then decode_kernel, nms_kernel and finalize_detections_kernel*)
(* run one after the other on a stream. The threads of a kernel run in any *)
(* order and meet at the atomicAdd that hands out the places of an array of*)
(* MaxOut entries; the counter goes on counting when the places are gone.  *)
(* The network gives every cell of a grid a box and a confidence. Boxes are*)
(* places on a line: two overlap (are of one class and share more than     *)
(* kNmsThresh) when they are less than two places apart. The confidence is *)
(* a level. CUDA calls are taken to succeed.                               *)
(***************************************************************************)
EXTENDS Integers, Sequences, FiniteSets, FiniteSetsExt, SequencesExt

CONSTANTS
  Cells,     \* [grid, box] : the cells, with the box each proposes
  Scales,    \* the grids are 1 .. Scales, in the order of their launches
  MaxOut,    \* kMaxNumOutputBbox, 40 in the code
  Confident, \* the level of kConfThresh; CalDetection takes cells from level 1 up
  Surest     \* the highest level

ASSUME DetectorAssumption ==
  /\ Scales \in Nat \ {0} /\ MaxOut \in Nat \ {0}
  /\ IsFiniteSet(Cells) /\ Cells \subseteq [grid : 1 .. Scales, box : Int]
  /\ Surest \in Nat /\ Confident \in 1 .. Surest

VARIABLES
  scene,    \* the confidence each cell has in its box
  kernel,   \* the kernel to run next, "done" after the last
  grid,     \* the grid CalDetection is launched for next
  found,    \* predict[0], the counter of CalDetection
  predict,  \* the cells it stored
  count,    \* parray[0], the counter of decode_kernel
  decoded,  \* the entries it stored
  todo,     \* the threads of nms_kernel that have not run
  keep,     \* the entries that still have their flag
  boxes     \* what _inference_gpu returns

detVars == <<scene, kernel, grid, found, predict, count, decoded, todo, keep, boxes>>

\* A candidate; one of grid 0 is what lies behind an array: floats nobody
\* wrote as an entry.
Entry(c, level) == [grid |-> c.grid, box |-> c.box, conf |-> level]
Outside == {Entry([grid |-> 0, box |-> c.box], n) : c \in Cells, n \in 0 .. Surest}

DetInit ==
  /\ scene \in [Cells -> 0 .. Surest]
  /\ kernel = "detect" /\ grid = 1
  /\ found = 0 /\ predict = <<>>
  /\ count = 0 /\ decoded = <<>>
  /\ todo = {} /\ keep = {} /\ boxes = {}

Overlap(c, d) == c.box - d.box \in -1 .. 1

\* An array after the atomicAdds of the threads that store: they come in the
\* order s, and those that find no place left store nothing.
Filled(array, s) == SubSeq(array \o s, 1, Min({MaxOut, Len(array \o s)}))

----------------------------------------------------------------------------
Candidates == {Entry(c, scene[c]) : c \in Cells}

\* Mutant: the launch for the next grid clears the counter again.
CalDetection_Restart ==
  /\ kernel = "detect" /\ grid <= Scales
  /\ \E s \in SetToSeqs({e \in Candidates : e.grid = grid /\ e.conf > 0}) :
       found' = Len(s) /\ predict' = Filled(<<>>, s)
  /\ grid' = grid + 1
  /\ UNCHANGED <<scene, kernel, count, decoded, todo, keep, boxes>>

\* CalDetection takes every cell from level 1 up, far below kConfThresh.
CalDetection ==
  /\ kernel = "detect" /\ grid <= Scales
  /\ \E s \in SetToSeqs({e \in Candidates : e.grid = grid /\ e.conf > 0}) :
       found' = found + Len(s) /\ predict' = Filled(predict, s)
  /\ grid' = grid + 1
  /\ UNCHANGED <<scene, kernel, count, decoded, todo, keep, boxes>>

\* decode_kernel looks at every entry CalDetection counted, stored or not.
Decode ==
  /\ kernel = "detect" /\ grid > Scales
  /\ \E outside \in [Len(predict) + 1 .. found -> Outside] :
       LET entry(i) == IF i <= Len(predict) THEN predict[i] ELSE outside[i]
       IN  \E s \in SetToSeqs({i \in 1 .. found : entry(i).conf >= Confident}) :
             /\ count' = Len(s)
             /\ decoded' = Filled(<<>>, [k \in DOMAIN s |-> entry(s[k])])
  /\ kernel' = "nms" /\ todo' = DOMAIN decoded' /\ keep' = todo'
  /\ UNCHANGED <<scene, grid, found, predict, boxes>>

\* Mutant: of two equally sure boxes each gives way to the other.
Beats_Both(j, i) == i # j /\ decoded[j].conf >= decoded[i].conf

\* Entry j is surer than entry i, or as sure and before it.
Beats(j, i) ==
  \/ decoded[j].conf > decoded[i].conf
  \/ decoded[j].conf = decoded[i].conf /\ j < i

\* Mutant: only boxes that still have their flag push others out.
Suppressed_ByKept(i) ==
  \E j \in (DOMAIN decoded \cap keep) \ {i} : Beats(j, i) /\ Overlap(decoded[i], decoded[j])

\* A suppressed entry suppresses others all the same: nms_kernel reads no flag
\* but its own, so the order of its threads does not matter.
Suppressed(i) ==
  \E j \in DOMAIN decoded \ {i} : Beats(j, i) /\ Overlap(decoded[i], decoded[j])

\* A thread of nms_kernel. With more entries counted than stored it reads on
\* behind the array and may find anything that beats its entry.
Nms(i) ==
  /\ kernel = "nms" /\ i \in todo
  /\ todo' = todo \ {i}
  /\ \/ Suppressed(i) /\ keep' = keep \ {i}
     \/ ~Suppressed(i) /\ UNCHANGED keep
     \/ count > MaxOut /\ keep' = keep \ {i}
  /\ UNCHANGED <<scene, kernel, grid, found, predict, count, decoded, boxes>>

\* finalize_detections_kernel copies the entries that kept their flag; in which
\* order is of no interest to the worker.
Finalize ==
  /\ kernel = "nms" /\ todo = {}
  /\ kernel' = "done"
  /\ boxes' = {decoded[i] : i \in keep}
  /\ UNCHANGED <<scene, grid, found, predict, count, decoded, todo, keep>>

DetNext == CalDetection \/ Decode \/ (\E i \in todo : Nms(i)) \/ Finalize

----------------------------------------------------------------------------
DetTypeOK ==
  /\ scene \in [Cells -> 0 .. Surest]
  /\ kernel \in {"detect", "nms", "done"} /\ grid \in 1 .. Scales + 1
  /\ 0 <= count /\ count <= found /\ found <= Cardinality(Cells)
  /\ Len(predict) <= MaxOut /\ Len(decoded) <= MaxOut
  /\ todo \subseteq DOMAIN decoded /\ keep \subseteq DOMAIN decoded

Sure == {e \in Candidates : e.conf >= Confident}

\* Nothing is drawn twice: whatever the threads did and however many cells
\* there were, no two of the boxes returned overlap.
NoDoubleBoxes ==
  kernel = "done" => \A i, j \in keep : i # j => ~Overlap(decoded[i], decoded[j])

\* With room for every cell CalDetection counts, whatever the order of the
\* threads: only sure cells are returned, none that overlaps a surer one, all
\* that do not overlap one at least as sure, and one of the surest of the frame.
SurestAreReturned ==
  kernel = "done" /\ found <= MaxOut =>
    /\ boxes \subseteq Sure
    /\ \A c \in boxes, d \in Sure : Overlap(c, d) => d.conf <= c.conf
    /\ \A c \in Sure \ boxes : \E d \in Sure \ {c} : Overlap(c, d) /\ d.conf >= c.conf
    /\ Sure # {} => \E c \in boxes : \A d \in Sure : d.conf <= c.conf

\* The types, and what _inference_gpu returns of what the network found: no box
\* twice, and no sure box lost as long as the arrays have room.
DetInv == DetTypeOK /\ NoDoubleBoxes /\ SurestAreReturned
=============================================================================
