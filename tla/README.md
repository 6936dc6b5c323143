# K180: TLA+ models and proofs

The K180 is a box with four cameras. It stitches their pictures into a panorama,
runs a detector on it, serves the panorama and the single cameras over RTSP and
records them. This directory holds TLA+ models of the parts whose correctness
depends on the order in which things happen, the TLC configurations that check
them on small instances, and TLAPS proofs of the main results for instances of any
size. Everything is translated from the sources under `src/`; line numbers are
those of this commit. `gy_two_cam.cpp` is called GY below.

Contents: the inventory, the plan, the modules, the runs, the proofs, the
disagreements found, and what is not covered.

## 1. The system

`grand_yeah` (`src/rtsp_server`) is one process with about twenty threads. Beside it
run the REST server (`src/restful_api`), the web page (`src/www_html`) and a few
command line tools. They meet only in files: the configuration, the recordings and
the netplan file.

```
 trigger ──tick──> capture ×4 ──q_blend──────> apply ──infer slot──> inference worker
                     │  │ │                     │  ▲                     │
                     │  │ └─q_seam─> seam prep ×4  │  └─pool── prepare   └─> OSD slots
                     │  │              └─join─> seam search (masks, gains) ──> apply
                     │  └─cc2bright─> exposure tuner ──mailbox──> capture
                     └──────── camera hubs ×16        └── panorama hubs ×2 ──> viewers, files
```

### Components, their state and what makes them correct

| component (code) | state | operations | what must hold |
|---|---|---|---|
| **Inference hand-over** (GY `try_acquire_infer_slot`, `thread_blender_apply`, `thread_infer_worker`) | slots with an atomic `busy`, a queue of jobs, a CUDA stream | claim, copy, record, push, pop, wait for the copy, infer, free; every GPU call may fail | no slot lost or shared, no job dropped, the worker sees the image its job names, frames are delivered in order |
| **Frame life** (GY `capture_thread`, `k180_frame_item.h`) | warp slots of a camera, shared FrameItems, three queues of one, two CUDA streams | borrow a slot, remap, share, drop the older frame, let go, return the slot | the pool never runs dry, no slot is remapped while someone reads it |
| **Frame join and blending** (GY `thread_blender_apply`, `thread_blender_prepare`, `k180_stage_sync.h`) | a mask of cameras, the queues, a pool of blenders | signal, wait for all, take the newest of each, blend, recycle, prepare | panoramas advance in every camera, blenders neither lost nor dirty, no camera starved |
| **Start and shutdown** (GY `cc_entry_point_all`, `request_stop_and_wakeup_all`, `shutdown_all`) | three atomic flags, four condition variables, closable queues | store, notify, close, join | the program ends; no thread starts more than one more round |
| **Encoder hubs and rate gate** (`k180_h265_hub.*`, `k180_h264_hub.*`) | viewers, gate credit, timestamps, GStreamer elements, buffer references | want, allow, check, stamp, push; join and leave; stop | timestamps rise and follow the clock, references balance, no use after tear-down |
| **RTSP attach** (`k180_rtsp_attach.cpp`) | streams of each client, a bootstrap flag per mount | describe, setup, play, pause, teardown, close, media configured and unprepared | the count of a hub is the number of its clients, plus one while a media is started |
| **Stream builder** (`k180_stream_builder.cpp`) | ports and hubs | pick a free UDP port for each stream, create and start | no two streams share a port unless ten in a row are in use; true means all started |
| **Seam search** (GY `thread_cc_prepare_seam_input`, `thread_seam_find`) | epoch, count and base of the trigger, small images, masks and gains in two buffers | trigger, deliver, join, search, flip | images of one search belong to one epoch; a front buffer is not written |
| **Exposure tuner** (`k180_bright_tuner.cpp`) | exposure, gain, state, cooldown, a mailbox per camera | observe, step, request; the capture thread consumes | the camera ends with the last value requested |
| **OSD** (`k180_osd_slots.cpp`, `k180_osd_probe.cpp`) | result slots with a state and an event, a latest result | claim, publish, find, release, fall back, init, destroy | a slot has one user, a box is drawn on the picture it was found in or on a close one |
| **Detector** (`yololayer.cu`, `postprocess.cu`) | three arrays of 40 entries on the GPU, each with a counter | count the cells, decode, suppress, copy out | no box twice, whatever the order of the threads; no sure box lost while there is room |
| **AI runtime, tracking** | mode; table of tracks | set once; match, age, expire | the table does not grow without bound |
| **Recording cleanup** (`k180_record_cleanup.cpp`) | files by age, a timer thread | measure, sort, delete until below the mark | an open segment is not deleted |
| **Configuration** (`parser_user_json.cpp`, `user_cfg_*.cpp`) | `cfggg`, written once | parse, validate, derive | what the writers accept, the server accepts |
| **REST API** (`restful_api_server.c`) | the configuration file, sessions, recordings | login, get, put, list, download, delete; the cleaner thread | a failed PUT leaves the old file; a token lives as long as it is used |
| **Web page** (`src/www_html`) | the same files, PHP sessions | settings, recordings, users, firmware upload | as above, beside the REST server |
| **Firmware tools, system helpers** (`src/gen_fw`, `src/system_helpers`) | staging files, netplan | decrypt, check, install both binaries, restart | both versions or neither |

`PROJECT.json` lists every part with its files, also the ones left out.

### How they interact and what is hard

* *Queues of one.* `StageQueue` (`k180_stage_queue.h`) drops the oldest item when it is
  full. Dropping a `shared_ptr` returns a slot; dropping an inference job returns
  nothing. The same class is safe in one place and would leak in the other.
* *CPU and GPU order.* A thread queues work on a CUDA stream and goes on. A slot may be
  handed on while kernels that read it have not run.
* *Several frames in flight.* Four capture threads run on while one thread gathers their
  frames; nothing locks the four queues together.
* *Shared objects with several writers.* One GstBuffer goes to four hubs, one OSD slot
  vector to ten hubs.
* *Shutdown.* Flags are atomics stored without the mutex of the condition variables they
  are predicates of; hubs are stopped before the threads that push into them.
* *Files with two writers.* The REST server and the web page rewrite the configuration in
  place.

The hazards of `PROJECT.json` name each of these at its line with the properties that
would catch it; a note says what a property leaves out, or why there is none.

## 2. Plan

The order is by what the pipeline depends on: first what every picture passes, then what
steers it, then the files beside it. All of it is done.

| # | module | about | state |
|---|---|---|---|
| 1 | `InferPool`, refining `OrderedLossyChannel` | inference hand-over | checked, proved |
| 2 | `FramePool` | the life of a frame | checked, proved |
| 3 | `ApplyJoin` | join and blending; composes cameras with apply and prepare | checked, proved |
| 4 | `Shutdown` | all threads as loops and sleeps | checked, safety proved |
| 5 | `HubPush` | gate, timestamps, references, tear-down | checked, proved |
| 6 | `ViewerCount`, refining `ViewerDemand` | RTSP attach | checked, proved |
| 7 | `SeamTrigger`, `SeamEpoch` | trigger; preparation, join, search, gains, masks and their reader | checked, safety proved |
| 8 | `BrightTuner`, `CtrlMailbox` | the three-state tuner; requests, mailboxes, the trigger thread's pace | checked, safety proved |
| 9 | `OsdSlots`, `TrackTable` | worker and probes of several hubs, init and destroy; table of tracks | checked, safety proved |
| 10 | `ConfigFile` | REST, pages, helper, server start and power cuts around one file | checked, safety proved |
| 11 | `Recordings`, `Sessions` | recorder, cleanup, users; token expiry | checked, `Recordings` proved |
| 12 | `FirmwareInstall` | two updates with faults | checked, proved |
| 13 | `Detector` | the kernels between the network and the boxes | checked, proved |
| 14 | `StreamPorts` | the choice of ports and the building of hubs | checked, proved |

`MCControl` (6, `SeamTrigger`, 8, 14), `MCAi` (9, 13) and `MCServices` (10 to 12) are composites for
TLC only: the parts share no state, so a variable `part`, chosen initially, says which of
them a behaviour runs, and the others stay where they are. Their states add up instead of
multiplying, and one run asks the questions of several small modules.

In `MCSeamEpoch` `part` splits one module instead: the apply thread reads what the others write
and they never look at it, so one part runs it over an epoch less and the other runs the
preparation and the search alone.

The theorems stand in eight modules: `InferPoolProofs`, `FramePoolProofs`, `ApplyJoinProofs`,
`HubPushProofs`, `SeamEpochProofs`, and three that take several small modules together,
`ControlProofs` (6, 8, 14), `AiProofs` (9, 13) and `SystemProofs` (4, 10, 12, `Recordings`).

What would come next: a model of `users.json`, and lemmas towards the liveness properties (for
`Sessions`, that a token too old is before the younger logins in `session_map`; for the tuner, a
variant that falls from state to state).

## 3. The modules

### InferPool and OrderedLossyChannel

The apply thread's half of GY 1485–1529, `try_acquire_infer_slot` (1031), the worker (1053–
1105), the stop (2091) and tear-down (2169). State: `busy`, the image in each slot
(`pano_rgba`, a frame number), the copies queued on the stream, `infer_q`, both threads'
program counters. `TryAcquireSlot` looks at one slot a step, so the worker may free one in
between. `CopyToSlot` has the outcomes of three GPU calls; the failing ones go through
`GiveUpSlot`. `SyncCopyDone` waits for the event (it may fail too, then the job is dropped
and the slot freed). The CUDA stream is external: copies run later, in order.

`OrderedLossyChannel` is the promise: frames are accepted or dropped, delivered at most
once and in order, and never more than the capacity are under way. `ImplementsChannel`
maps the worker's frame followed by the queued ones to the channel.

### FramePool

One camera. `capture_thread` is cut where another thread can see a difference:
`CaptureWait`, `AcquireSlot`, one `PushFrame` a queue, `CaptureEnd`. A FrameItem is a record
of slot and number. `ReturnDropped` is its destructor: a conjunct of *every* action that can
let go of a frame, returning the slots nobody can reach any more. The apply thread's round
is `ApplyPop … ApplyEnd`, with the synchronisation hidden in
`nvmm_copy_rgba_to_outbuf_cached` as `ApplySync`. Seam preparation and the tuner keep their
frame until the next pop (`Keepers`). Blend and remap run when the GPU gets to them.

### ApplyJoin

Several cameras, one slot of queue each (FramePool shows the slot arithmetic, so frames are
numbers here). `Push` and `SignalId` are two steps of the capture thread; `WaitAll` clears
the mask; `TryPopLatest` reads one queue a step; `DropRound` is the early `continue` when one
was empty; `TakeBlender`, `Blend`, `Recycle` and the two steps of the prepare thread move the
blender round. The histories `signalled`, `joined` and `misses` only serve properties.

### Shutdown

Every worker as a loop of check, sleep and round. A wait on a condition variable is three
steps: evaluate the predicate under the mutex, the mutex still held, asleep. `ShutdownAll`
is the main thread's script in the order of the code, so what TLC explores is each order of
each thread against that script. What a round computes is left out. `Produce` gives a
thread work while one of its producers lives, more often than the code would: that allows
more behaviours, never fewer. `workers`, chosen from `Teams`, are the threads that take
part; a producer outside is taken to be alive, which again only adds behaviours.
`ShutdownInv` is `TypeOK` (with the mutex two captures share) and `AtMostOneMoreRound`.

### HubPush

Time is counted in periods of the 60 fps trigger, so a 30 fps hub has a frame time of 2.
The pusher's steps are those of `want_push`, `StreamFpsGate::allow` (its loads and stores are
two steps, as they are atomics and not a critical section) and `push_nvmm_rgba_buffer`
(`PushCheck`, `PushState`, `PushStamp`, `PushQueue`). GStreamer is external: `appsrc` takes
the reference whatever it returns, a leaky queue may drop the oldest, the encoder reads the
timestamp when it gets there. The variable `feed`, chosen from `Feeds`, is what is pushed:
its hubs' frame times, whether all of them get one GstBuffer (`capture_thread`) or one each
(`thread_blender_apply`), and whether the hub is torn down meanwhile. `HubInv` is `TypeOK`
and `RefsMatchHolders`; `PtsSound` is `PtsTracksClock` and `PtsMonotonic`.

### ViewerCount and ViewerDemand

`k180_rtsp_attach.cpp`. All requests of all clients run on one GStreamer thread, whose place
is `pc`, `who` and `what`; the media of a stream may be ended on a thread of its own (`mpc`).
Each exchange, increment and decrement is a step: the bootstrap flag is exchanged in one and
the counter changed in the next, which is where the two threads meet. `viewer_dec` clips at
zero (`k180_h265_hub.cpp:511`), so one decrement too many would take another client's viewer;
`CountIsExact` says it never does, with a term for every step that is half done. `ViewerDemand`
has no counters: a stream is wanted while somebody watches it or its media is being started,
and let go in the end.

### SeamTrigger and SeamEpoch

`SeamTrigger` is the end of `thread_cc_prepare_seam_input` for camera 0: the count of frames, the
base that changed and unchanged pictures move, and the two ways an epoch begins.
`SearchesKeepComing` is the inductive reason why a count that jumps over a falling base is
caught: it is one above it at most, or the base is at its cap. `seam_rate` is any integer, as the
server takes it: at 0 or less the base may fall to where no frame is due, and the property says
that nothing else stops the searches, and that the first one begins at once when the base is 1
again, however many frames were counted meanwhile. `SeamEpoch` extends it. Each
preparation thread takes a snapshot of the epoch, delivers an image and signals; the search
thread waits for the mask, *then* reads the epoch, computes gains and masks into the buffers
that are not in front, flips each and may keep a part of a mask (`re_seam_12`); the apply thread
reads both fronts without a lock and draws for as long as it likes. `uses`, `made` and `restored`
are histories. The search compares the base unsigned (GY 1283), so one below 0 keeps no mask
(`SearchesAreFast`). What the search computes is external.

An image serves at most three searches (`ImagesAreReplaced`): the one in progress when it was
copied, the next, for which the image before it had set the camera's bit, and the one after, for
its own bit, if its camera fell silent. `EpochsAreSearched` says that an epoch is searched
provided every camera goes on popping frames; it states that premise itself.

### BrightTuner and CtrlMailbox

`BrightTuner` is one call of `bright_tunning` an action: the probe, the base step by gain and
error level, and the three states with their cooldown, clamps, edge steps and the snap to the
middle. The picture is chosen freely in every step. `CtrlMailbox` is what follows a request:
the tuner stores a value and then a dirty flag for each camera; `trigger_thread` sleeps,
triggers, exchanges the flag, loads the value, applies it (`VIDIOC_S_CTRL` may fail) and paces
itself by the longest exposure, skipping the deadlines gone by. `MailboxWorks` is its types,
`LastRequestWins` and `ExposuresFit`.

### StreamPorts

`build_and_start_all_hubs_from_cfg` and `pick_udp_port_for_sid`. A port is tried by binding a
socket and closing it at once, one try a step, so other programs may take or give back ports
in between (`OthersBind`). All ports are chosen before the first hub is built; `Build` is
`create` and `start`, of which either may fail. The loops over groups and views are the order
`Before`, H.265 ahead of H.264. `passed` is a history. `PortsInv` says that two streams are
given one port only if one search went past `UDP_STEP` ports in use, which is what 32 tries
that start ten apart allow. The families' blocks of ports are disjoint and there is at least one
family (`PortsAssumption`), as with the two in the code.

### OsdSlots and TrackTable

`OsdSlots` is `publish_detections_to_slot` store by store, the event recorded after it and
completed by the GPU, `mux_src_pad_probe` of each panorama hub with its exact lookup and its
fallback to the latest result, the release of slots, and the creation and destruction of
hubs, which replace slots all of them share. A worker that holds a slot when it is replaced writes
to freed memory and copies its boxes from there into the latest result: what comes out are its
own boxes or those of no frame (`SetBoxes`), and the latter `FallbackIsFresh` excepts. `TrackTable` is what `thread_infer_worker` does by
AI mode, the greedy choice of a detection for each track and the table that drops tracks after `MAX_LOST`.
ByteTrack is external: any tracks with distinct ids.
`Match` is the loop over the tracks as the set of the functions that satisfy it at every index:
there is one.

### Detector

What runs on the GPU between the network and the list of boxes. A launch of `CalDetection`
(one for each grid) and of `decode_kernel` is a step: its threads meet only at the `atomicAdd`
that hands out places, so the places go to the cells in any order. The counters go on when
the 40 places are gone, and the next kernel takes the counter for the number of entries; what
it reads behind the array is any entry of no cell (`Outside`). `nms_kernel` is a step a thread,
since a thread clears a flag in the array the others read; none of them reads another's
flag, which is why their order does not matter. Boxes are places on a line that overlap when
they are neighbours, confidences are levels, CUDA calls succeed.

### ConfigFile

The life of `user_def_setting.json`. Who may hold its flock: the REST server (one request at
a time), each page of `setting.php`, the helper that writes netplan, and `grand_yeah` while it
starts. A page is cut at lock and read, truncate, write, unlock; then comes the helper, which
locks, reads, unlocks and writes `01-netcfg.yaml` without the lock, or the restart. Without
`rescue_sys_ip.json` (`rescue`, chosen at the beginning) the helper leaves before it writes; the
page, which does not look at its result, reboots all the same. A value is what
the checks tell apart: right, refused by all, or let through by page or REST and refused by
the server. `unit` and `starts` are `grand_yeah.service` as `package_k180_release.sh:148` installs
it: a start that fails is repeated, but the sixth of a minute is not made (`Launch`), neither by
systemd itself (`gave_up`) nor for a page that asks for it (`refused`), and the page does not notice.
A power cut or a reboot ends every process and leaves the files. `torn` and `raced`
are histories that name the exceptions: an accepted PUT or a power cut that left the file
empty, and two helpers that overlapped or one cut off. `SavesTakeEffect` excepts the leaked lock and
the start that was refused, and nothing else: that systemd had given up before, over a file it
could not start with, keeps no later file from taking effect once a start is allowed.

### Recordings, Sessions, FirmwareInstall

`Recordings`: `splitmuxsink` opens a file by the minute and truncates what is there; the cleanup
lists, sorts and unlinks in steps, with failures; users delete (the file stays as a ghost
while it is open) and the program restarts. `Sessions`: logins, uses, expiry and the rounds
of `session_cleaner_thread` under one mutex. `FirmwareInstall`: two runs of `gen_fw_dec` with
their checks, the staging directory both use, `install_file_atomic` as write and rename, the two restarts, and
as faults a full disk, a failed copy, a failed restart and a power cut between any two steps.

## 4. The runs

| run | instance | shows |
|---|---|---|
| `infer_pool` | 2 slots, queue of 2, 4 frames | no slot lost or shared, no job dropped, the worker's image, that slots come back, the refinement |
| `frame_pool` | 4 slots, seam keeper, 4 frames, 2 kernels of backlog, slots symmetric | pool never dry, images kept, viewers see the frame they are told |
| `apply_join` | 2 cameras, 2 blenders, 4 samples each | conservation, clean destinations, freshness, progress of every camera, no camera missed thrice, `RoundsGoOn`: blenders come back and joins are answered |
| `shutdown` | two teams: trigger, two captures, apply, prepare; seam search, a preparation thread, inference, tuner | at most one more round; ends unless a wakeup was lost |
| `shutdown_hangs` (violation) | trigger, two captures, seam search | the lost wakeup |
| `hub` | `Panorama`: one 30 fps recording hub, gaps of 1, 2 and 6, 7 pictures, until time 13, torn down; `Camera`: a buffer to a 60 and a 30 fps hub, 4 pictures, until 6; 1 join | timestamps rise and follow the clock, one holder for each reference |
| `seam` | 2 cameras, 4 epochs, 3 with the reader and rate 1, else rates 0 and 1, cap 2, `KeepFor` 2, 4 frames counted without search | images and kept seams are of their time, the reader draws with what is there, and stays unless a draw outlasts a search, every epoch is searched |
| `control` | 2 clients, 2 streams; rates -1 to 2, cap 4, 8 epochs, 10 frames counted without search; exposure 1..10, gain 1..6; 2 cameras, exposures 1 and 3, interval 2, until time 7; 2 and 1 streams, ports 2 apart, 3 tries, 3 ports taken | exact counts and the demand they implement, searches keep coming, the tuner arrives, the last request wins, exposures fit, ports are shared only in a crowd |
| `ai` | 2 slots, 2 hubs, 3 frames, fallback of 1; 2 ids, 2 detections, 3 levels of overlap, 4 calls; 4 cells of 2 grids, 3 places, 3 levels | fallback boxes are recent, slots come back; the table and the matching; no box twice, the surest returned |
| `osd_exact` (violation) | the same slots | section 6 |
| `services` | 2 pages, 3 stream and 3 network values, 1 request each, 1 power cut, 2 starts of the unit in an interval, which may end at any time, with and without the rescue file; segments of 2 minutes, 3 minutes of age, 3 of disk, 7 minutes, 1 restart; 4 tokens, expiry 1, sweep 2; 2 updates, 2 faults | the configuration has one writer and takes effect, recordings are kept, sessions go, updates are sound |
| `config_put` (violation) | 1 page | section 6 |

Several properties are conjunctions of named parts, written beside them: `SeamInv` is
`TypeOK`, `ImagesAreReplaced` and `KeptSeamIsReplaced`; `ReaderIsSafe` is `GainsAreThere` and
`FrontIsStable`; `TunerGetsThere` is the types and `NeverTheWrongWay` (together `TunerIsSafe`) and `ReachesTheLimit`;
`ConfigInv` is `WriterHoldsLock`, `NobodySeesHalfAFile` and `NetplanFollows`; `SavesTakeEffect` is
`FormsAreDealtWith` and `ServerCatchesUp`; `RecordingsAreKept` is `OldestFirst`,
`OpenSegmentIsKept`, `RoundDoesItsWork` and `RollsToANewFile`; `UpdatesAreSound` is
`ProgramsAreWhole`, `UpdateIsComplete` and `SuccessIsComplete`; `TableInv` is `TableIsRecent` and
`MatchIsMaximal`; `DetInv` is its types, `NoDoubleBoxes` and `SurestAreReturned`; `PortsInv` is its types,
`SharedOnlyInACrowd` and `TrueMeansAll`. Each part but some of the types has a mutant of its own.

Why the bounds are enough. In `infer_pool` two slots are the least with which a claim can
meet another slot's inference, and four frames reuse each. The four slots of `frame_pool` are
one more than can be pinned (the code has two to spare), and four frames let the first slot
come round again while the fourth is remapped; for camera 1, whose tuner pins one more, and
for every larger pool `PoolAlwaysHasASlot` is proved. Two cameras suffice for the join to
be torn between them and four samples for three rounds; two blenders, where the code has
three, make the pool run empty sooner. In `hub` a gap of 6 fills the gate's credit to its
ceiling, and the pictures left after it spend all of it. In `seam` three epochs flip each
front buffer back to where a slow draw still reads, and a fourth lets an image serve three searches. In `control` two clients of two streams
meet every order of request and end of media, and `ViewersAreCounted` is proved for any number;
the base falls from 2 to its floor, below 0 for two of the rates, and rises to its cap; 10 frames without a search
are more than twice the cap, which a positive base never lets pass; the tuner's limits are far enough
apart for every step size; 7 units of time hold three rounds of the trigger thread; three ports taken let a search pass the
two between neighbours, or fail. In `ai` a
third frame reuses a slot, and a fourth call drops a track and takes it up again; four cells are
one more than there are places, and three boxes in a row are the least where the first pushes
out the second and the third goes because of the second. In `services`
the two pages race each other, REST and the helper (proved for any number of each), two starts are the
least limit with which a failed start and one a page asks for use it up together (five only take longer), a third
segment fills the disk, two of four sessions are more than a round takes, and two updates meet at
every step.

`MaxFrame`, `MaxCount`, `MaxBacklog`, `MaxSeq`, `MaxJoins`, `MaxEpoch`, `MaxTime`, `MaxCalls`, `MaxRequests`,
`MaxCrashes`, `MaxRestarts`, `MaxTaken`, `MaxFaults` and a feed's `frames` and `until` are the bounds of the
models; each stands in the guard of the action that would exceed it. Deadlock checking is off
where the system stops by itself (shutdown) or the bound is reached.

Each checked property is broken by at least one plausible bug, written beside the
definition it changes and marked `Mutant:`: an off-by-one in a scan, the event not waited
for, the bit set before the frame is queued, a lock given up by closing a descriptor, a
missing reboot and so on.

### Fairness

* `InferPool`: weak fairness of the apply thread's steps once it has begun a frame, of the
  worker, of the GPU and of the main thread's closing steps. Threads that can run do run,
  and queued copies complete. Nothing makes frames arrive (`TakeFrame`) or the stop come.
* `ApplyJoin`: weak fairness of apply, prepare, the first gain map, and of a capture thread's
  push and signal after it has a sample. No fairness for samples: cameras may fall silent.
* `Shutdown`: weak fairness of every thread and of the main thread after the signal. No
  fairness for work: a queue may stay empty for ever. A mutex is only held for finite
  steps, so weak fairness of the waiter is what an unfair mutex gives here.
* `SeamEpoch`: weak fairness of the search and of a preparation thread that has a frame.
  Nothing makes frames come: `EpochsAreSearched` has that as its premise, weak fairness of each
  camera's `Pop`.
* `MCControl`: weak fairness of the tuner (a timer), of the client thread and of a media's
  end once begun; none for clients to come, go or play.
* `MCAi`: weak fairness of the GPU completing an event; the worker and the probes need do nothing.
* `MCServices`: weak fairness of the REST server, of each page once its form was sent, of
  systemd and the server it starts (`Unit`: it tries again after 5 seconds until the limit is used up)
  and of the session cleaner; none for users, the power, the methods they choose, or the end of
  the interval in which starts are counted. A lock nobody else wants for ever is got under weak
  fairness because requests are bounded.

## 5. The proofs

The assumptions are those on the constants: at least one slot, camera and blender; a queue
at least as long as the inference pool (`QueueCap`), the relation the code gets by using one
constant for both; a warp pool of at least three more than the keepers; that the values which
stand for "nothing" are not values of anything else.

* `InferPoolProofs`: `TypeCorrect`, `SlotsNeverLeak`, `SlotsNeverShared`, `JobsNeverDropped`.
  None is inductive alone: that the queue never drops needs that queued jobs have distinct
  busy slots, and that needs that a claimed slot is nobody else's. `IInv` is their conjunction
  with `TypeOK` and two facts on the threads: a frame under submission has a sequence
  number, and the pool is released only after the queue is closed and the worker has left
  (the apply thread may still be running then, which is why the ownership facts are stated
  for the time before). `JobsNeverDropped` then is a pigeonhole on slots.
  `InferenceSeesItsFrame` adds `ContentInv`: for each slot somebody
  answers for, the last copy queued for it is of the frame named, or has run and the
  image is there. The worker's wait for the event turns the first into the second.
  `PoolImplementsChannel` is the refinement: under `IInv` every step is one of
  `OrderedLossyChannel` or a stutter (`ApplyRefines`, `WorkerRefines`); the lemmas on
  `FramesOf` say what appending to and popping from the queue do to the frames under way.
* `FramePoolProofs`: `TypeCorrect`, `PoolAlwaysHasASlot`, `FramesAlwaysKeepTheirImage`,
  `ViewersAlwaysSeeTheirFrame`. Between two rounds of pushes all
  queues hold the same frame or none (`QueuesAgree`), and a slot that is not free belongs to
  a frame someone can reach (`NoSlotLost`). With at most one frame in the hands of apply and
  of each keeper, keepers + 2 slots can be taken when a sample is pulled, one less than
  `SlotsAssumption` asks for. The argument breaks with queues of two, as the mutant shows.
  For the pictures, `ImageInv` adds that a slot has one frame at a time (`OneOwner`) and that no remap of a slot is
  queued behind that of the frame which has it (`InOrder`); with both, a frame whose remap has run
  keeps its image. `BlendInOrder` says that the last blend queued reads the frame the apply
  thread still holds, so that its synchronisation leaves that frame in the panorama. All
  that is asked of the GPU is that a stream runs in order.
* `ApplyJoinProofs`: `TypeCorrect`, `BlendersNeverLost`, `DestinationsAreClean`,
  `PanoramasAdvance`, `FramesAreFresh`, `MissesAreBounded`, for any number of cameras and
  blenders. `BlenderInv` says where each blender is and that those in the pool are clean.
  `CamInv` is stated for one camera and relates its bit, its queue, what it last signalled
  and what apply has taken: `CamOrder` (the order of those numbers), `CamFresh` (what is
  queued or taken is not older than what was signalled) and `CamMisses` (how many misses the
  present state may already have behind it).
* `SystemProofs`, `Shutdown`: `RoundsAreBounded`, for any number of cameras and every team. `StopInv` adds
  to `ShutdownInv` why a second late round cannot begin: a thread that has had one stands before
  its check with all flags stored, or has left (`OneRound`). That two captures are never both
  in the mutex is `Exclusion`.
* `ControlProofs`, `ViewerCount`: `ViewersAreCounted` and `CountersImplementDemand`, for any number of
  clients and streams. `Control` says where the client thread and the media threads may be and
  with whose flag; with it `CountIsExact` is inductive, by counting the set `Counted(s)`
  before and after each step. The refinement goes action by action: a step either is
  one of `ViewerDemand` or leaves what it sees alone; that a decrement lets a stream go only when
  nobody watches it is `CountIsExact` again.
* `SystemProofs`, `FirmwareInstall`: `FwInvariant` and `UpdatesSound`, for any number of updates and faults.
  `FwInv` says what the update at work has installed so far (`Progress`), that both programs
  belong together before its first and after its second (`Together`), and which restarts are
  still to come.
* `SystemProofs`, `ConfigFile`: `ConfigIsSafe`, for any number of pages, values, requests and power cuts.
  `Locked` is what a writer may rely on: the file stays as it read it, and is empty between its
  truncation and its write and only there. `NetKept` says that the network in the file is in
  netplan, or a helper is at work, or a page is about to start one, while the rescue file is there; the case that needs
  care is a helper that writes what it read before another page truncated (`HelperWrites`).

* `HubPushProofs`: `HubInvariant` and `PtsAreSound`, for any number of hubs, viewers and pictures.
  That references match holders is inductive once a queue is known to hold each buffer once and
  in the order of the pictures (`QueueOrdered`), so that the holders can be counted queue by queue.
  Timestamps rise because what a hub has stamped is a whole number of frame times and what it
  queued lies between what the encoder read and the newest stamp (`StampsOrdered`). How far they run
  ahead is a budget: stamps given, the frame let through and not stamped yet (`Owed`) and the
  gate's credit together stay below clock and arrivals (`ClockInv`).
* `SeamEpochProofs`: `TriggerInvariant`, `SearchIsOfItsTime`, `ReaderIsAlwaysSafe`, for any number of
  cameras and epochs, any cap and `KeepFor` and any rate, negative ones too. That a search begins at once
when the base comes up to 1 is why the count may be anything before. The invariant gives each image its remaining
  chances to be used (`UsesInv`: the search that joined, the camera's bit, its own signal), counts
  searches by epochs (`EpochInv`), and says for each buffer a reader has chosen that it is in front
  or a later search is, and untouched or overwritten by a search after the next (`ReadInv`).
* `ControlProofs`, `BrightTuner`: `TunerNeverErrs`, that `TunerIsSafe`, for any limits, tables and
  steps. `TunerInv` says that what is requested is the snapped exposure; as the snap keeps the
  order, a step the right way is one for the cameras too. No step is negative because the gain's
  level is always an index of the tables (`BaseLevelBounds`), which `TunerAssumption` takes to
  have the ten entries they have in `k180_bright_tuner.h`.
* `ControlProofs`, `CtrlMailbox`: `MailboxIsSound`, for any number of cameras. `ValueIsLast` says that a
  value that will be loaded or was loaded is the last one requested, or its successor is under way;
  `LongestCovers` that the interval measured covers the cameras triggered so far in the round.
* `ControlProofs`, `StreamPorts`: `PortsAreApart`, for any families, sizes, distances and tries.
  `Searched` says that a search has found in use every port before the one it took, so a search
  that ends in the window of the next stream has passed `UDP_STEP` of them; the product
  `s[2] * UDP_STEP` that separates the windows is in the lemma `BasesGrow`.
* `AiProofs`: `BoxesAreSound` (`Detector`), `TableIsSound` (`TrackTable`), `OsdIsSafe` (`OsdSlots`), for any
  cells, grids, tracks, overlaps, slots, hubs and frames. `DInv` says that the arrays list just what was counted
  while there is room, and that a thread of `nms_kernel` that ran has dropped a suppressed entry and
  no other; that the surest box is returned then follows from a greatest confidence among finitely
  many. `MatchProperties` is the greedy choice, track by track. `OInv` adds to the types what the
  latest result may hold (`LatestInv`: boxes of the frame it names, or of none).
* `SystemProofs`, `Recordings`: `RecordingsStay`, all four promises, for any segment length, age, fill and
  pauses. The list of a round is made once and used while files are written and deleted. It stays
  right because the open file is newer, by time and by name, than all others (`Dated`): the one file whose
  time may change cannot change places. `InOrder` says that what is older than a listed file is before it,
  gone or was refused; `Paused` that an open file is listed only after a long pause.

What the attempts to prove taught about the models: `ImagesAreReplaced` once had the bound 2, which TLC
did not refute with three epochs; the invariant would not close, and a fourth epoch showed the
third use. `PortsAssumption` did not say that there is a family of streams, without which the
first turn has no stream. `Match` and `Candidates` were written as a chosen outcome and a chosen sort, of
which nothing can be proved; they are now the set of the outcomes that satisfy the loop's or the
sort's condition, of which there is one.

Only model-checked: liveness (`SlotComesBack`, `RoundsGoOn`, `EndsUnlessMissed`,
`EpochsAreSearched`, `ReachesTheLimit`, `SlotsComeBack`, `SavesTakeEffect`, `SessionsGo`, and
that `ViewerDemand` lets go in the end), since TLAPS does not reason about fairness and ENABLED.
So `Sessions` has no theorem. That `Match` and `Candidates` are never empty is not proved either, it would
be an induction over data; the runs show it, a step without an outcome could not be taken. Every invariant and every action
property a passing run checks is proved. No module of a proof has a RECURSIVE operator; where a least or a greatest element is
needed, the library's well-foundedness of the naturals gives it (`LeastNat`).

## 6. Where the code and its comments disagree

Three are runs that end in a counterexample:

1. `shutdown_hangs`: the stop flag is stored between a waiter's predicate and its sleep,
   without the mutex (GY 2099); both notifications go by and the join waits for ever.
   `EndsUnlessMissed` shows that this is the only way shutdown hangs.
2. `osd_exact`: a slot carries its new frame number before its boxes, and the event of its
   last use is complete (`ImgUDPGateway.cpp:801`); the "exact frame_seq lookup" draws the boxes
   of another frame.
3. `config_put`: an accepted PUT truncates the configuration and writes to a stream opened
   for reading (`restful_api_server.c:669`); the file stays empty and the server does not start.

Met while modelling, in the models, and excepted by the properties they would break:

4. The hubs of a camera stamp one GstBuffer in turn (`k180_h265_hub.cpp:460`): an encoder
   that reads late gets another hub's time.
5. The hubs are torn down while pushers are between check and push (`k180_h265_hub.cpp:409`, GY
   2160), and a push that appsrc refuses is unreferenced twice (`k180_h265_hub.cpp:468`).
6. A frame left in a closed queue returns its slot to a pool destroyed before the queue
   (`k180_frame_item.h:86`, member order at GY 321 and 338).
7. A request of a method that is neither GET nor PUT never gives the lock back
   (`restful_api_server.c:895`); every later reader waits.
8. One hub's tear-down destroys the OSD slots of all (`k180_h265_hub.cpp:309`), and boxes copied
   through a freed slot may be drawn as the latest result (`ImgUDPGateway.cpp:811`).
9. When more than 40 cells are above a tenth, the places go to the threads that come first
   (`yololayer.cu:204`) and not to the surest, though "higher confidence wins"
   (`postprocess.cu:104`); and `decode_kernel` and `nms_kernel` take the counter for the number of
   entries (`postprocess.cu:35`, `:91`) and read behind the array.
10. A port is free when it is tried and not kept, and two searches overlap
   (`k180_stream_builder.cpp`): with ten ports in a row in use two streams send to one. The result
   of the function is ignored (GY 2566), so a stream without a hub is mounted all the same.
11. Parser and validator take any `seam_rate` (`parser_user_json.cpp:254`); one of 0 or less stops the
   searches while the picture changes, as the base falls to where no frame is due (GY 1170, 1174, 1191).
12. Five starts in a minute, and systemd refuses the next (`package_k180_release.sh:152`): after a
   file the server does not start with, a good one saved within that minute does not run until somebody
   restarts again, and the page ignores the failure (`setting.php:196`).
13. Without `rescue_sys_ip.json` the helper leaves without writing netplan (`modify_sysip_netplan.c:85`);
   the page reboots all the same (`setting.php:199`), and the network saved does not take effect.

And differences between the writers of the configuration, abstracted to the values "odd"
and "bad": the validator's message lists data rates "0.2,0.5,1,2,4,6,8"
(`user_cfg_validate.cpp:108`) where it allows 1, 1.6, 2, 3, 4, 6, 8, 10, 12 and 16, and REST accepts
0.2 and 0.5; its message for object detection says "must be one of {0,1}" (`:172`) where 2 is
allowed; the netmask may be 8 to 32 on the page (`setting.php:106`) and 0 to 32 in the server (`:153`); the reader takes a
shared lock under a comment that says exclusive (`parser_user_json.cpp:22`).

## 7. What is not modelled, and why

Pixels, the TensorRT networks (`yolo_src_new`, three copies of two thousand lines that build
layers once), the tracker's arithmetic and GStreamer's elements: no property here depends on
them beyond what section 3 says of their order. Start-up, which is straight-line code run
once, and the arguments a hub is created with. The firmware packer, a sequential tool. `users.json` and the
logins of the page: written without a lock, so two administrators can undo each other, and
nothing in the code could make that impossible (see the hazards). Presentation. Vendored
queues (`concurrentqueue.h`), headers of a gateway whose receive path is not started, sources
the Makefile does not build (`cam_half_rate_min.cpp` and others), packaging and experiments.

That is the larger part of the lines: the modelled definitions translate about one line in
eight of the sources, and most of the rest either has no state, is not part of the built program
or comes from elsewhere. `statvfs` is taken to succeed, and `fwrite` of the page to write all it
is given. A recording's name is its minute (`NameOf`): that local time repeats an hour when summer
time ends, or that the clock is set back, is left out, so an hour old recording may then be
overwritten. Pages do not sync, so a power cut after a write could still lose it; the model loses
a file only between truncation and write.

Out of TLC's reach by size: all twenty threads at once with full data; the modules cut the
system where threads hand over to each other, and each says what it takes of its neighbours:
`FramePool` takes the apply thread of one camera, `ApplyJoin` takes slots as given, `Shutdown`
takes work as coming at any time, `HubPush` takes viewers as coming and going at will (that
their number is right is `ViewerCount`), `OsdSlots` takes worker and probes as free to choose
their next frame.
