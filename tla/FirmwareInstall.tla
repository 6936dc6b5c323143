-------------------------- MODULE FirmwareInstall --------------------------
(***************************************************************************)
(* gen_fw_dec, run by upload.php for each firmware a user sends: it checks *)
(* and decrypts the file, stages its two programs, installs one after the  *)
(* other by writing a temporary file beside it and renaming that, and      *)
(* restarts both services. Two users may send a firmware at the same time, *)
(* any step may fail, and the power may go.                                *)
(***************************************************************************)
EXTENDS Integers, Sequences, FiniteSets

CONSTANTS
  Updates,   \* firmware files sent, each with a version of its own
  MaxFaults  \* bound on failures and power cuts

Programs == 1 .. 2   \* grand_yeah, restful_api_server: the order of specs
Installed == "old"   \* the version before all updates
Half      == "half"  \* a program that is only partly there

ASSUME FirmwareAssumption == {Installed, Half} \cap Updates = {} /\ MaxFaults \in Nat

VARIABLES
  bin,     \* of each program: the version in /usr/local/bin
  running, \* of each program: the version its service runs
  update,  \* of each update: its step and the program it is at
  staged,  \* of each update and program: what the staging directory got
  faults,  \* history: failures and power cuts so far
  overlap, \* history: two updates were installing at once
  full     \* history: the staging directory had no room

fwVars == <<bin, running, update, staged, faults, overlap, full>>

FwInit ==
  /\ bin = [i \in Programs |-> Installed] /\ running = bin
  /\ update = [u \in Updates |-> [step |-> "sent", at |-> 1]]
  /\ staged = [u \in Updates |-> [i \in Programs |-> u]]
  /\ faults = 0 /\ overlap = FALSE /\ full = FALSE

At(u, step) == update[u].step = step
UpdateGoes(u, step, i) == update' = [update EXCEPT ![u] = [step |-> step, at |-> i]]
Busy(u) == update[u].step \notin {"sent", "done", "refused", "failed"}

\* MAGIC_WORD, lengths, HMAC and padding; the staging directory is its own.
Verify(u) ==
  /\ At(u, "sent")
  /\ \/ UpdateGoes(u, "refused", 1) /\ UNCHANGED overlap
     \/ /\ UpdateGoes(u, "write", 1)
        /\ overlap' = (overlap \/ \E v \in Updates : Busy(v))
  /\ UNCHANGED <<bin, running, staged, faults, full>>

\* fwrite into the staging directory is not checked: without room the program
\* is cut off there, and the update goes on.
StagingFull(u) ==
  /\ At(u, "write") /\ update[u].at = 1 /\ faults < MaxFaults /\ faults' = faults + 1
  /\ \E i \in Programs : staged' = [staged EXCEPT ![u][i] = Half]
  /\ full' = TRUE
  /\ UNCHANGED <<bin, running, update, overlap>>

\* Mutant: the program itself is written, without a temporary file.
WriteTemp_InPlace(u) == bin' = [bin EXCEPT ![update[u].at] = Half]

\* What writing does to the installed programs: nothing, it is a file beside.
WriteTemp(u) == UNCHANGED bin

\* install_file_atomic: open, copy and fsync the temporary file ...
InstallWrite(u) ==
  /\ At(u, "write") /\ WriteTemp(u)
  /\ UpdateGoes(u, "rename", update[u].at)
  /\ UNCHANGED <<running, staged, faults, overlap, full>>

\* Mutant: each program is restarted as soon as the first is installed.
NextStep_RestartEarly(i) == "restart"

\* Both are installed before the first is restarted.
NextStep(i) == IF i = 1 THEN "write" ELSE "restart"

\* ... and rename it over the program.
InstallRename(u) ==
  LET i == update[u].at IN
  /\ At(u, "rename") /\ bin' = [bin EXCEPT ![i] = staged[u][i]]
  /\ UpdateGoes(u, NextStep(i), IF i = 1 THEN 2 ELSE 1)
  /\ UNCHANGED <<running, staged, faults, overlap, full>>

\* Mutant: a failure does not end the update: on to the next program.
InstallFails_GoesOn(u) ==
  /\ update[u].step \in {"write", "rename"} /\ faults < MaxFaults /\ faults' = faults + 1
  /\ IF update[u].at = 1 THEN UpdateGoes(u, "write", 2) ELSE UpdateGoes(u, "restart", 1)
  /\ UNCHANGED <<bin, running, staged, overlap, full>>

\* The copy or the rename fails: the temporary file goes, exit 7. A program
\* that was installed before stays installed.
InstallFails(u) ==
  /\ update[u].step \in {"write", "rename"} /\ faults < MaxFaults /\ faults' = faults + 1
  /\ UpdateGoes(u, "failed", update[u].at)
  /\ UNCHANGED <<bin, running, staged, overlap, full>>

\* systemctl restart: the service runs what is installed. A restart that fails
\* ends the update with exit 8 if it is grand_yeah's, and is passed over if not.
RestartService(u) ==
  LET i == update[u].at IN
  /\ At(u, "restart") /\ running' = [running EXCEPT ![i] = bin[i]]
  /\ UpdateGoes(u, IF i = 1 THEN "restart" ELSE "done", 2)
  /\ UNCHANGED <<bin, staged, faults, overlap, full>>
RestartFails(u) ==
  /\ At(u, "restart") /\ faults < MaxFaults /\ faults' = faults + 1
  /\ UpdateGoes(u, IF update[u].at = 1 THEN "failed" ELSE "done", 2)
  /\ UNCHANGED <<bin, running, staged, overlap, full>>

\* The power goes: the updates are lost, and each service starts what is there.
PowerGoes ==
  /\ faults < MaxFaults /\ faults' = faults + 1
  /\ update' = [u \in Updates |-> IF Busy(u) THEN [step |-> "failed", at |-> update[u].at] ELSE update[u]]
  /\ running' = bin
  /\ UNCHANGED <<bin, staged, overlap, full>>

\* A service that fell over is started again by systemd, whatever is there.
ComesBack(i) ==
  /\ running' = [running EXCEPT ![i] = bin[i]]
  /\ UNCHANGED <<bin, update, staged, faults, overlap, full>>

FwNext ==
  \/ PowerGoes \/ \E i \in Programs : ComesBack(i)
  \/ \E u \in Updates :
       \/ Verify(u) \/ StagingFull(u) \/ InstallWrite(u) \/ InstallRename(u)
       \/ InstallFails(u) \/ RestartService(u) \/ RestartFails(u)

----------------------------------------------------------------------------
(* Properties *)

\* Each program is whole at any time, an old version or a new one, whenever
\* a copy fails or the power goes, and however updates overlap: the service can
\* always start it. The exception is a staging directory without room.
ProgramsAreWhole == full \/ \A i \in Programs : bin[i] # Half

\* The programs that are there belong together when no update is at work,
\* unless one failed after its first program or two overlapped, and each
\* service runs what is there, even if they did overlap: who installs last
\* restarts after that.
UpdateIsComplete ==
  (\A u \in Updates : ~Busy(u)) /\ faults = 0
    => running = bin /\ (overlap \/ bin[1] = bin[2])

\* An update that says it succeeded (exit 0) has both its programs installed,
\* unless another overtook it or the staging directory was full: a failed copy
\* or restart of grand_yeah never counts as success.
SuccessIsComplete ==
  [][\A u \in Updates : At(u, "restart") /\ update'[u].step = "done"
       => overlap \/ full \/ \A i \in Programs : bin[i] = u]_fwVars

\* No step of an update, a fault or a restart leaves half a program, or a
\* system that does not belong together, or reports success without both.
UpdatesAreSound ==
  /\ [][ProgramsAreWhole' /\ UpdateIsComplete']_fwVars
  /\ SuccessIsComplete
=============================================================================
