----------------------------- MODULE Recordings -----------------------------
(***************************************************************************)
(* The recordings of one stream: the recorder of its hub, which opens a    *)
(* file every few minutes and names it by the minute; the cleanup, which   *)
(* deletes the oldest files while the disk is too full; users, who delete  *)
(* and download through the web page or REST; and a restart at any time.   *)
(* Time is counted in minutes, a size in minutes of video. A file is known *)
(* by the minute in its name.                                              *)
(***************************************************************************)
EXTENDS Integers, Sequences, FiniteSets, SequencesExt

CONSTANTS
  Segment,     \* minutes of video to a file (180 s)
  MinAge,      \* minutes without a write before a file may go (300 s)
  HighWater,   \* fill at which the cleanup deletes (95 %)
  MaxTime,     \* bound on time
  MaxRestarts  \* bound on restarts

ASSUME RecordingsAssumption ==
  /\ Segment \in Nat \ {0} /\ MinAge \in Nat \ {0}
  /\ HighWater \in Nat /\ MaxTime \in Nat /\ MaxRestarts \in Nat

None == -1

VARIABLES
  now,      \* the minute
  dir,      \* of each file by name: its size and its last write
  ghost,    \* size of files that are unlinked and still open somewhere
  recorder, \* the file it writes (None: not running) and how much of it is written
  cleaner,  \* the cleanup: where its round is and the files it still has to delete
  listed,   \* history: the files this round has listed
  refused,  \* history: the files this round could not unlink
  silent,   \* history: the longest pause in the open file
  restarts  \* history: restarts so far

recVars == <<now, dir, ghost, recorder, cleaner, listed, refused, silent, restarts>>

Off == [name |-> None, ran |-> 0]

RecInit ==
  /\ now = 0 /\ dir = [n \in {} |-> 0] /\ ghost = 0
  /\ recorder = Off /\ cleaner = [step |-> "check", todo |-> <<>>]
  /\ listed = {} /\ refused = {} /\ silent = 0 /\ restarts = 0

Used == FoldSet(LAMBDA n, s : dir[n].size + s, ghost, DOMAIN dir)

Put(d, n, f) == [m \in DOMAIN d \cup {n} |-> IF m = n THEN f ELSE d[m]]

----------------------------------------------------------------------------
(* The recorder: splitmuxsink, with the name on_format_location_full gives *)

\* Mutant: a name that is the same for two minutes.
NameOf_Coarse(t) == t - (t % 4)

NameOf(t) == t

\* A new file, or an old one of that name, truncated.
Begin(d, t) == Put(d, NameOf(t), [size |-> 0, mtime |-> t])

\* After the round of the start the hubs are created.
Open ==
  /\ recorder = Off /\ cleaner.step = "wait"
  /\ dir' = Begin(dir, now) /\ recorder' = [name |-> NameOf(now), ran |-> 0] /\ silent' = 0
  /\ UNCHANGED <<now, ghost, cleaner, listed, refused, restarts>>

\* A minute of video, to a file that may have been unlinked.
Write(d, t) == IF recorder.name \in DOMAIN d
               THEN [d EXCEPT ![recorder.name] = [size |-> @.size + 1, mtime |-> t]]
               ELSE d

\* A minute passes: the recorder writes and may be due for the next file, or
\* pauses because no picture comes.
Minute(pause) ==
  LET t == now + 1 IN
  /\ now < MaxTime /\ now' = t
  /\ IF recorder = Off
     THEN UNCHANGED <<dir, ghost, recorder, silent>>
     ELSE IF pause
     THEN /\ silent' = IF recorder.name \in DOMAIN dir
                       THEN Max({silent, t - dir[recorder.name].mtime}) ELSE silent
          /\ UNCHANGED <<dir, ghost, recorder>>
     ELSE /\ ghost' = ghost + IF recorder.name \in DOMAIN dir THEN 0 ELSE 1
          /\ IF recorder.ran + 1 < Segment
             THEN /\ dir' = Write(dir, t) /\ recorder' = [recorder EXCEPT !.ran = @ + 1]
                  /\ UNCHANGED silent
             ELSE /\ dir' = Begin(Write(dir, t), t)
                  /\ recorder' = [name |-> NameOf(t), ran |-> 0] /\ silent' = 0
  /\ UNCHANGED <<cleaner, listed, refused, restarts>>

\* grand_yeah is stopped or falls over, in the middle of a round or of a file,
\* and starts again with a round of the cleanup.
RestartRecorder ==
  /\ restarts < MaxRestarts /\ restarts' = restarts + 1
  /\ recorder' = Off /\ cleaner' = [step |-> "check", todo |-> <<>>]
  /\ listed' = {} /\ refused' = {}
  /\ UNCHANGED <<now, dir, ghost, silent>>

----------------------------------------------------------------------------
(* Users: listfiles, download and del_rec_file of REST, recordings.php *)

Without(n) == [m \in DOMAIN dir \ {n} |-> dir[m]]

\* Unlinking gives the space back unless somebody has the file open: the
\* recorder, or whoever downloads it.
Unlink(n) ==
  /\ dir' = Without(n)
  /\ \E held \in {0, dir[n].size} :
       /\ n = recorder.name => held = dir[n].size
       /\ ghost' = ghost + held

UserDelete ==
  /\ \E n \in DOMAIN dir : Unlink(n)
  /\ UNCHANGED <<now, recorder, cleaner, listed, refused, silent, restarts>>

\* The last one to hold an unlinked file closes it.
LastClose ==
  /\ ghost > 0 /\ ghost' = 0
  /\ UNCHANGED <<now, dir, recorder, cleaner, listed, refused, silent, restarts>>

----------------------------------------------------------------------------
(* The cleanup: once at the start, then every minute *)

Wake ==
  /\ cleaner.step = "wait" /\ recorder # Off
  /\ cleaner' = [cleaner EXCEPT !.step = "check"]
  /\ UNCHANGED <<now, dir, ghost, recorder, listed, refused, silent, restarts>>

\* Mutant: the age is not asked for.
OldEnough_Any(n) == TRUE

OldEnough(n) == dir[n].mtime <= now - MinAge

Older(m, n) == dir[m].mtime < dir[n].mtime \/ (dir[m].mtime = dir[n].mtime /\ m < n)

OldFiles == {n \in DOMAIN dir : OldEnough(n)}

\* Mutant: the newest first.
Candidates_Unsorted ==
  {s \in Bijection(1 .. Cardinality(OldFiles), OldFiles) :
     \A i, j \in DOMAIN s : i < j => Older(s[j], s[i])}

\* The files that may go, the oldest first: of these lists there is just one.
Candidates ==
  {s \in Bijection(1 .. Cardinality(OldFiles), OldFiles) :
     \A i, j \in DOMAIN s : i < j => Older(s[i], s[j])}

\* The fill, and the list if there is too much.
CheckFill ==
  /\ cleaner.step = "check"
  /\ \E todo \in IF Used < HighWater THEN {<<>>} ELSE Candidates :
       /\ cleaner' = [step |-> IF todo = <<>> THEN "wait" ELSE "delete", todo |-> todo]
       /\ listed' = ToSet(todo) /\ refused' = {}
  /\ UNCHANGED <<now, dir, ghost, recorder, silent, restarts>>

\* Mutant: a file that cannot be unlinked ends the round.
AfterFailure_Stop == <<>>

\* The next file of the list when the last could not be unlinked.
AfterFailure == Tail(cleaner.todo)

\* The fill is read again before each file; the end of the list ends the round.
RoundEnds ==
  /\ cleaner.step = "delete" /\ (cleaner.todo = <<>> \/ Used < HighWater)
  /\ cleaner' = [step |-> "wait", todo |-> <<>>]
  /\ UNCHANGED <<now, dir, ghost, recorder, listed, refused, silent, restarts>>

Delete ==
  /\ cleaner.step = "delete" /\ cleaner.todo # <<>> /\ Used >= HighWater
  /\ LET n == Head(cleaner.todo) IN
       \/ /\ n \in DOMAIN dir /\ Unlink(n)
          /\ cleaner' = [cleaner EXCEPT !.todo = Tail(@)] /\ UNCHANGED refused
       \/ /\ refused' = refused \cup {n}
          /\ cleaner' = [cleaner EXCEPT !.todo = AfterFailure] /\ UNCHANGED <<dir, ghost>>
  /\ UNCHANGED <<now, recorder, listed, silent, restarts>>

RecNext ==
  \/ Open \/ RestartRecorder \/ UserDelete \/ LastClose
  \/ \E pause \in BOOLEAN : Minute(pause)
  \/ Wake \/ CheckFill \/ Delete \/ RoundEnds

RecSpec == RecInit /\ [][RecNext]_recVars

----------------------------------------------------------------------------
(* Properties *)

\* The cleanup unlinks this file.
Cleans(n) == n \in DOMAIN dir \ DOMAIN dir' /\ cleaner' # cleaner

\* The cleanup deletes the oldest first: what is older than a file it deletes
\* is gone, by it or by a user, or could not be unlinked. Files are written,
\* deleted and begun between the list and the deletion.
OldestFirst ==
  [][\A n \in DOMAIN dir : Cleans(n) => \A m \in DOMAIN dir : Older(m, n) => m \in refused]_recVars

\* The cleanup leaves the file the recorder writes alone ("Avoid unlinking a
\* splitmuxsink segment that may still be open", k180_record_cleanup.cpp:157),
\* as long as the recorder did not pause for MinAge minutes in that file.
OpenSegmentIsKept ==
  [][\A n \in DOMAIN dir : Cleans(n) /\ n = recorder.name => silent >= MinAge]_recVars

\* A round ends with enough room, or with every file it listed gone or
\* impossible to unlink: neither a file that resists nor one that a user took
\* away meanwhile keeps the others from being deleted.
RoundDoesItsWork ==
  [][RoundEnds => Used < HighWater \/ listed \cap DOMAIN dir \subseteq refused]_recVars

\* The next segment never overwrites a recording: only a restart within the
\* minute opens a file that is there.
RollsToANewFile ==
  [][recorder # Off /\ recorder' \notin {Off, recorder} /\ recorder'.ran = 0
       => recorder'.name \notin DOMAIN dir]_recVars

\* Recordings are kept as long as there is room: the cleanup takes the oldest,
\* not the open one, and no more or less than it has to, and the recorder
\* overwrites none.
RecordingsAreKept ==
  OldestFirst /\ OpenSegmentIsKept /\ RoundDoesItsWork /\ RollsToANewFile
=============================================================================
