----------------------------- MODULE ConfigFile -----------------------------
(***************************************************************************)
(* The life of user_def_setting.json. The REST server (one thread) and the *)
(* workers of setting.php read and write it under flock; a page that saved *)
(* runs modify_sysip_netplan and reboots, or restarts grand_yeah, which    *)
(* reads the file when it starts; systemd starts it again while it fails,  *)
(* but gives up when StartLimitBurst starts of one interval are used up.   *)
(* The power may go at any time.                                           *)
(* A configuration is the values of its streams and of its network; "odd"  *)
(* stands for stream values that page or REST let pass and grand_yeah      *)
(* refuses (a datarate of 0.2, a resolution of 0), "bad" for those every   *)
(* check refuses. Nobody is the lock that is free.                         *)
(***************************************************************************)
EXTENDS Integers, Sequences, FiniteSets, SequencesExt

CONSTANTS
  Pages,       \* workers of the web server
  Streams,     \* stream values, "odd" and "bad" among them
  Networks,    \* network values, "bad" among them
  FirstConfig, \* the file as installed
  StartLimitBurst, \* of grand_yeah.service, 5 in StartLimitIntervalSec, a minute
  MaxRequests, \* bound on requests, of REST and of each page
  MaxCrashes   \* bound on power cuts

Empty  == [stream |-> "none", net |-> "none"]
Nobody == "nobody"
Rest   == "rest"

ASSUME ConfigAssumption ==
  /\ IsFiniteSet(Pages) /\ {Rest, Nobody, "leaked"} \cap Pages = {}
  /\ "none" \notin Streams \cup Networks
  /\ FirstConfig.stream \in Streams \ {"odd", "bad"} /\ FirstConfig.net \in Networks \ {"bad"}
  /\ StartLimitBurst \in Nat \ {0} /\ MaxRequests \in Nat /\ MaxCrashes \in Nat

VARIABLES
  file,     \* the configuration in the file, or Empty
  holder,   \* who has the lock; "leaked" when the descriptor is never closed
  rest,     \* the request of the REST server: its step and the file it will write
  page,     \* of each page: its step, its form, what it changed, what its helper read
  netplan,  \* the network values in 01-netcfg.yaml
  rescue,   \* rescue_sys_ip.json, which the helper needs, is there
  server,   \* grand_yeah: the configuration it runs with, Empty while it does not
  unit,     \* grand_yeah.service, as systemd sees it
  starts,   \* starts of the unit in the present interval
  requests, \* history: requests so far
  crashes,  \* history: power cuts so far
  torn,     \* history: a PUT, or a power cut, left the file empty
  raced     \* history: two helpers overlapped, or one was cut off

webVars  == <<page, requests>>
unitVars == <<server, unit, starts>>
configVars == <<file, holder, rest, page, netplan, rescue, unitVars, requests, crashes, torn, raced>>

NoRequest == [step |-> "idle", new |-> Empty]
NoForm    == [stream |-> "bad", net |-> "bad"]
NoPage    == [step |-> "idle", form |-> NoForm, changed |-> {}, read |-> Empty]

ConfigInit ==
  /\ file = FirstConfig /\ holder = Nobody
  /\ rest = NoRequest /\ page = [p \in Pages |-> NoPage]
  /\ netplan = FirstConfig.net /\ rescue \in BOOLEAN
  /\ server = FirstConfig /\ unit = "up" /\ starts = 0
  /\ requests = [a \in Pages \cup {Rest} |-> 0]
  /\ crashes = 0 /\ torn = FALSE /\ raced = FALSE

\* open and flock: on its own descriptor, so a lock leaked by the same process blocks too.
Free == holder = Nobody

----------------------------------------------------------------------------
(* /api/messages, one request at a time *)

Ask ==
  /\ rest.step = "idle" /\ requests[Rest] < MaxRequests
  /\ \E s \in {"get", "put", "other"} : rest' = [rest EXCEPT !.step = s]
  /\ requests' = [requests EXCEPT ![Rest] = @ + 1]
  /\ UNCHANGED <<file, holder, page, netplan, rescue, unitVars, crashes, torn, raced>>

\* The items of a PUT, one or an array: each sets one field to a value.
Items == UNION {[1 .. n -> ({"stream"} \X Streams) \cup ({"net"} \X Networks)] : n \in 1 .. 2}

\* update_json for one item after the other, in memory: the first value that
\* is refused refuses the request.
Accepted(items) == \A i \in DOMAIN items : items[i][2] # "bad"
Applied(items)  == FoldLeft(LAMBDA c, i : [c EXCEPT ![i[1]] = i[2]], file, items)

\* Mutant: the reply to a broken body leaves the lock where it is.
Answer_KeepsLock ==
  /\ Free /\ rest.step = "get"
  /\ rest' = NoRequest /\ holder' = Rest
  /\ UNCHANGED <<file, page, netplan, rescue, unitVars, requests, crashes, torn, raced>>

\* A GET, or a PUT that is refused (a file that cannot be parsed, a query that
\* is not one, a value out of range): lock, read, unlock, reply.
Answer ==
  /\ Free
  /\ \/ rest.step = "get"
     \/ rest.step = "put" /\ (file = Empty \/ \E items \in Items : ~Accepted(items))
  /\ rest' = NoRequest
  /\ UNCHANGED <<file, holder, page, netplan, rescue, unitVars, requests, crashes, torn, raced>>

\* A method that is neither: the handler goes on to "Not found" and neither
\* unlocks nor closes. With a file or a body that cannot be parsed it answers earlier.
AnswerOther ==
  /\ Free /\ rest.step = "other"
  /\ rest' = NoRequest
  /\ \E parsed \in BOOLEAN : holder' = IF parsed /\ file # Empty THEN "leaked" ELSE holder
  /\ UNCHANGED <<file, page, netplan, rescue, unitVars, requests, crashes, torn, raced>>

\* A PUT that is accepted truncates the file.
PutTruncate ==
  /\ Free /\ rest.step = "put" /\ file # Empty
  /\ \E items \in Items : Accepted(items) /\ rest' = [step |-> "write", new |-> Applied(items)]
  /\ holder' = Rest /\ file' = Empty /\ torn' = TRUE
  /\ UNCHANGED <<page, netplan, rescue, unitVars, requests, crashes, raced>>

\* fwrite to the stream opened "r" (:669) writes nothing: "Failed NO3". What
\* follows a successful write, netplan and "updated successfully", is never reached.
PutFails ==
  /\ rest.step = "write" /\ rest' = NoRequest /\ holder' = Nobody
  /\ UNCHANGED <<file, page, netplan, rescue, unitVars, requests, crashes, torn, raced>>

----------------------------------------------------------------------------
(* setting.php, POST *)

\* A form is sent: values the user typed, or left as an older page showed them.
Send(p) ==
  /\ page[p].step = "idle" /\ requests[p] < MaxRequests
  /\ \E f \in [stream : Streams, net : Networks] :
       page' = [page EXCEPT ![p] = [step |-> "wait", form |-> f, changed |-> {}, read |-> Empty]]
  /\ requests' = [requests EXCEPT ![p] = @ + 1]
  /\ UNCHANGED <<file, holder, rest, netplan, rescue, unitVars, crashes, torn, raced>>

\* The groups that differ from the file; stream values are taken as they are.
Changes(f) == {g \in {"stream", "net"} : f[g] # file[g]}

\* Lock and read. The page is left at once if the file cannot be parsed, the
\* frame rate is none of the options or a changed network value is refused.
PageLock(p) ==
  LET f == page[p].form IN
  /\ page[p].step = "wait" /\ Free
  /\ IF file = Empty \/ f.stream = "bad" \/ ("net" \in Changes(f) /\ f.net = "bad")
     THEN page' = [page EXCEPT ![p] = NoPage] /\ UNCHANGED holder
     ELSE /\ page' = [page EXCEPT ![p] =
               [step    |-> IF Changes(f) = {} THEN "unlock" ELSE "truncate",
                form    |-> NoForm,
                changed |-> Changes(f),
                read    |-> [g \in {"stream", "net"} |-> IF g \in Changes(f) THEN f[g] ELSE file[g]]]]
          /\ holder' = p
  /\ UNCHANGED <<file, rest, netplan, rescue, unitVars, requests, crashes, torn, raced>>

\* Mutant: the file is opened again, with "w", and closing it before gives up the lock.
PageTruncate_Reopens(p) ==
  /\ page[p].step = "truncate" /\ file' = Empty /\ holder' = Nobody
  /\ page' = [page EXCEPT ![p].step = "write"]
  /\ UNCHANGED <<rest, netplan, rescue, unitVars, requests, crashes, torn, raced>>

PageTruncate(p) ==
  /\ page[p].step = "truncate" /\ file' = Empty
  /\ page' = [page EXCEPT ![p].step = "write"]
  /\ UNCHANGED <<holder, rest, netplan, rescue, unitVars, requests, crashes, torn, raced>>

PageWrite(p) ==
  /\ page[p].step = "write" /\ file' = page[p].read
  /\ page' = [page EXCEPT ![p].step = "unlock"]
  /\ UNCHANGED <<holder, rest, netplan, rescue, unitVars, requests, crashes, torn, raced>>

\* A page that changed the network goes on with the helper, any other with the
\* restart, even one that changed nothing.
PageUnlock(p) ==
  /\ page[p].step = "unlock" /\ holder' = Nobody
  /\ page' = [page EXCEPT ![p] =
       [NoPage EXCEPT !.step = IF "net" \in page[p].changed THEN "helper" ELSE "restart"]]
  /\ UNCHANGED <<file, rest, netplan, rescue, unitVars, requests, crashes, torn, raced>>

----------------------------------------------------------------------------
(* modify_sysip_netplan, reboot_system, restart_program_camera *)

\* Mutant: the helper does not wait for the lock.
HelperRead_NoLock(p) ==
  /\ page[p].step = "helper"
  /\ page' = [page EXCEPT ![p] =
       [NoPage EXCEPT !.step = IF file = Empty THEN "reboot" ELSE "netplan", !.read = file]]
  /\ UNCHANGED <<file, holder, rest, netplan, rescue, unitVars, requests, crashes, torn, raced>>

\* The helper reads the file again, under the lock.
HelperRead(p) ==
  /\ page[p].step = "helper" /\ Free
  /\ page' = [page EXCEPT ![p] =
       [NoPage EXCEPT !.step = IF file = Empty THEN "reboot" ELSE "netplan", !.read = file]]
  /\ UNCHANGED <<file, holder, rest, netplan, rescue, unitVars, requests, crashes, torn, raced>>

\* What the helper writes, without the lock; a file that changed since it was
\* read is a race with the page that changed it. Without rescue_sys_ip.json it
\* leaves before. The page does not look at what became of it.
Written(p) ==
  IF rescue THEN netplan' = page[p].read.net /\ raced' = (raced \/ file.net # page[p].read.net)
  ELSE UNCHANGED <<netplan, raced>>

\* Mutant: the page does not reboot after the helper.
HelperWrite_NoReboot(p) ==
  /\ page[p].step = "netplan" /\ Written(p)
  /\ page' = [page EXCEPT ![p] = NoPage]
  /\ UNCHANGED <<file, holder, rest, rescue, unitVars, requests, crashes, torn>>

HelperWrite(p) ==
  /\ page[p].step = "netplan" /\ Written(p)
  /\ page' = [page EXCEPT ![p] = [NoPage EXCEPT !.step = "reboot"]]
  /\ UNCHANGED <<file, holder, rest, rescue, unitVars, requests, crashes, torn>>

\* Every process goes; the file keeps what was written.
Boot ==
  /\ rest' = NoRequest /\ page' = [p \in Pages |-> NoPage]
  /\ holder' = Nobody /\ server' = Empty /\ unit' = "asked" /\ starts' = 0
  /\ torn' = (torn \/ file = Empty)
  /\ raced' = (raced \/ \E p \in Pages : page[p].step \in {"write", "unlock", "helper", "netplan"})
  /\ UNCHANGED <<file, netplan, rescue, requests>>

Reboot(p) == page[p].step = "reboot" /\ Boot /\ UNCHANGED crashes

PowerCut == crashes < MaxCrashes /\ crashes' = crashes + 1 /\ Boot

\* systemctl restart: the program is stopped, and a start is asked for. The
\* page does not learn whether it came about.
Restart(p) ==
  /\ page[p].step = "restart" /\ page' = [page EXCEPT ![p] = NoPage]
  /\ server' = Empty /\ unit' = "asked"
  /\ UNCHANGED <<file, holder, rest, netplan, rescue, starts, requests, crashes, torn, raced>>

----------------------------------------------------------------------------
(* grand_yeah.service and user_cfg_load_from_file *)

\* The limit was hit by the start somebody asked for, or by one after a failure.
Refusal == IF unit = "asked" THEN "refused" ELSE "gave_up"

\* A start the limit allows, or the end of the starts: until somebody asks again.
Launch ==
  /\ unit \in {"asked", "failed"}
  /\ IF starts < StartLimitBurst
     THEN unit' = "loading" /\ starts' = starts + 1
     ELSE unit' = Refusal /\ UNCHANGED starts
  /\ UNCHANGED <<file, holder, rest, page, netplan, rescue, server, requests, crashes, torn, raced>>

IntervalEnds ==
  /\ starts > 0 /\ starts' = 0
  /\ UNCHANGED <<file, holder, rest, page, netplan, rescue, server, unit, requests, crashes, torn, raced>>

\* It must parse, and user_cfg_validate must like it.
Loads == file.stream \notin {"none", "odd"}

\* grand_yeah reads the file under the lock, and runs with it or leaves.
ServerStart ==
  /\ unit = "loading" /\ Free
  /\ IF Loads THEN server' = file /\ unit' = "up" ELSE unit' = "failed" /\ UNCHANGED server
  /\ UNCHANGED <<file, holder, rest, page, netplan, rescue, starts, requests, crashes, torn, raced>>

Unit == Launch \/ ServerStart

RestStep == Answer \/ AnswerOther \/ PutTruncate \/ PutFails
PageStep(p) ==
  \/ PageLock(p) \/ PageTruncate(p) \/ PageWrite(p) \/ PageUnlock(p)
  \/ HelperRead(p) \/ HelperWrite(p) \/ Reboot(p) \/ Restart(p)

ConfigNext ==
  \/ Ask \/ RestStep \/ Unit \/ IntervalEnds \/ PowerCut
  \/ \E p \in Pages : Send(p) \/ PageStep(p)

----------------------------------------------------------------------------
(* Properties *)

\* Who is in the middle of a change holds the lock, and nobody else has it:
\* between the truncation and the write there is one writer.
WriterHoldsLock ==
  /\ rest.step = "write" => holder = Rest
  /\ \A p \in Pages : page[p].step \in {"truncate", "write", "unlock"} => holder = p

\* Whoever takes the lock finds a whole configuration, unless a PUT or a power
\* cut has emptied the file: no reader sees the file between truncation and write.
NobodySeesHalfAFile == Free /\ file = Empty => torn

\* Once the pages that changed the network are through, 01-netcfg.yaml has the
\* network of the file, unless two of them raced, the file is lost or the
\* helper could not write.
NetplanFollows ==
  \/ raced \/ torn \/ file = Empty \/ ~rescue
  \/ netplan = file.net
  \/ \E p \in Pages : page[p].step \in {"write", "unlock", "helper", "netplan"}

\* The file has one writer at a time, is whole when the lock is free, and the
\* network settings of the system follow it.
ConfigInv == WriterHoldsLock /\ NobodySeesHalfAFile /\ NetplanFollows

\* A form that was sent is dealt with, unless a request of another method
\* has leaked the lock.
FormsAreDealtWith ==
  \A p \in Pages : page[p].step = "wait" ~> (page[p].step = "idle" \/ holder = "leaked")

\* In the end grand_yeah runs what is in the file, unless that is nothing it
\* would start with, the lock is leaked, or systemd has refused the last start
\* somebody asked for: that it gave up by itself, over a file that was odd,
\* keeps no later file from taking effect.
ServerCatchesUp == <>[](server = file \/ ~Loads \/ holder = "leaked" \/ unit = "refused")

\* What a user saves takes effect, with the exceptions the parts name.
SavesTakeEffect == FormsAreDealtWith /\ ServerCatchesUp

\* An accepted PUT leaves the configuration it asks for: "updated successfully"
\* (restful_api_server.c:890), from a file opened for writing (:652).
PutStoresConfig == [][PutFails => file' = rest.new]_configVars
=============================================================================
