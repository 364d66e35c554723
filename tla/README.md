# TLA+ models of tesd

`tesd` reads frames of a transition edge sensor's signal processor (an FPGA)
from the receive rings of a netmap network card and serves them to clients over
ZeroMQ sockets: it captures them to files, averages, counts and publishes them.
This directory holds TLA+ models of the parts of `tesd` where concurrency,
wrap-around arithmetic and failures make testing hard, the TLC configurations
that check them on small instances, and TLAPS proofs for instances of any size.

## 1. Inventory

| Component | State | Operations | What makes it correct |
|---|---|---|---|
| ring library, `src/lib/tesif.c` | head, cursor and tail of each ring | index arithmetic, comparison of ids, release of slots | comparisons respect the wrap-around point |
| coordinator, `src/bin/tesd.c` | the rings' heads, statistics | `s_new_pkts_hn`, `s_log_stats`, start and stop | no slot goes back to the kernel before all active tasks have read it, and all do go back |
| task framework, `src/bin/tesd_tasks.c` | per task: `heads`, `active`, `busy`, `just_activated`, `prev_fseq`, pipe, subscriptions | activation, deactivation, `s_sig_hn`, `s_task_next_ring`, `s_task_dispatch`, `s_sub_hn`, `s_task_shim` | a task sees each frame once, in order per ring; no wake-up is lost for good; a task's death ends the daemon |
| capture task, `src/bin/tesd_task_cap.c` | the job, open files, ongoing stream, tick index, statistics | request, packet and shutdown handlers | each request is answered, with a true answer; index entries name whole traces and histograms; files and statistics of two jobs are not mixed |
| its buffered files, same file | circular zone, batch being written, file size | `s_try_queue_aiobuf`, `s_queue_aiobuf`, `s_flush`, opening and closing | the file is append-only whatever the kernel does |
| average trace task, `tesd_task_avgtr.c` | one job, a timer, the trace being recorded | request, timeout and packet handlers | the timer and the last frame do not both answer, each client is answered, a trace is whole |
| info task, `tesd_task_info.c` | one job, a timer, counters | request, timeout and packet handlers | the counts are those of the job, across gaps and wrap-around |
| histogram publisher, `tesd_task_hist.c` | the histogram being put together | packet handler, wake-up | what is published is one whole histogram, and every good one is |
| jitter publisher, `tesd_task_jitter.c` | points since the last reference event, bins, two configurations | packet and request handlers, wake-up | delays are measured from the channel the header names; a configuration takes effect between two histograms |
| packet format, `include/net/tespkt.h` | none | accessors, `tespkt_is_valid` | |
| HDF5 conversion, `src/lib/hdf5conv.c` | the hdf5 file's groups | `hdf5_conv` | no converted measurement is lost, errors reach the client |
| daemon library, `src/lib/daemon_ng.c` | two children and a pipe | `daemonize`, `fork_and_run`, logging | the parent learns how the child fared, and does not wait for ever |
| start and stop, `tesd.c`, `tesd_tasks.c` | threads, their pipes, the open interface | `main`, `tasks_start`, `s_task_shim`, `tasks_destroy` | no thread uses the rings after they are unmapped; the process ends |
| client `src/bin/tesc.c`, `tests/` | | command line tools | |

How they interact:

* The coordinator and the tasks are threads of one process.  They share the
  netmap rings and the array `s_tasks` without locks.  A task writes its own
  `heads`, `active` and `busy`; the coordinator reads them.  The coordinator
  writes the rings' heads; a task reads them once, in `task_activate`.  The kernel
  writes the tails, while the coordinator is in `poll`.
* The coordinator sends `SIG_WAKEUP` (and, when it stops, `SIG_STOP`) through a
  PAIR pipe; a task answers `SIG_DIED` when it fails.
* Clients reach a task through a REP socket, which is muted while a job lasts,
  or through an XPUB socket, whose subscriptions activate the task.
* The packet handlers are called by `s_task_dispatch` with the frame, the number
  of frames missed before it, and whether it is valid.
* `tesd` starts as the second child of `daemonize`; the capture task starts a
  conversion as the second child of `fork_and_run`, or runs it itself.
* The capture task hands batches to `aio_write`, so the kernel reads its buffers
  while it goes on filling them.

Hard to test: the interleavings of coordinator, tasks and kernel on the shared
indices; activation in the middle of a pass; the end of a task while it is being
signalled; wrap-around of rings, zones and 16-bit sequence numbers; lost and bad
frames inside a stream; short and failed writes; a kill between two changes of the
disk; a timer against the last frame; a task's death against the end of the process;
a launch that times out.  `PROJECT.json` lists them under `hazards`, each at its
line.

## 2. Modules

| Module | Models | Checked by | Proved in |
|---|---|---|---|
| `TesRing` | ring arithmetic of `tesif.c` | through `TesCore` | `TesRing_proofs` |
| `TesCore` | coordinator, task framework, rings | `core_*` runs (`MCTesCore`) | `TesCore_proofs` |
| `AppendFile` | what the capture task expects of a file | through `AioBuf` | through `AioBuf_proofs` |
| `AioBuf` | one buffered file of the capture task | `aiobuf` (`MCAioBuf`) | `AioBuf_proofs` |
| `Capture` | jobs, files and packet handler of the capture task | `capture`, `cap_ok` (`MCCapture`) | `Capture_proofs` |
| `Fpga` | the sender of streams of frames (external) | through the tasks | |
| `Hist`, `AvgTrace` | histogram publisher, average trace task | `tasks`, `avg_stale` (`MCTasks`) | `Streams_proofs` |
| `Info` | info task | `tasks` | `Tasks_proofs` |
| `Jitter` | jitter publisher | `tasks` | `Jitter_proofs` |
| `DaemonNg` | the double fork | through `Process` | through `Process_proofs` |
| `Lifecycle` | start and stop of `tesd` and its threads | through `Process` | through `Process_proofs` |
| `Hdf5Conv` | the conversion | through `Process` | through `Process_proofs` |
| `Process` | both programs that are started by forking | `process`, `conv_ok` (`MCProcess`) | `Process_proofs` |

`TesCore` extends `TesRing`.  `AioBuf` is shown to implement `AppendFile` with a
refinement mapping.  `Capture` stands above both: it receives frames one by one,
as `TesCore`'s `Packet` action delivers them, and knows of a file only what
`AppendFile` promises: it is whole, or a write has failed and it is a beginning.
The small tasks stand above `TesCore` in the same way; they share no variables,
so `MCTasks` runs one of them at a time.  `Lifecycle` and `Hdf5Conv` extend
`DaemonNg` with what the second child does; `Process` composes the three.

Definitions whose comment starts with "Faulty variant" are not part of the
model.  Each is an operation with a plausible mistake; substituted for the right
one it must violate the property it was made for (`mutants` in `PROJECT.json`).

The source is built with `DEBUG_LEVEL TESTING` (`tesd.h:45-51`), so a
`dbg_assert` that fails aborts the daemon, and the models abort where the code
does: `pc = "aborted"` in `AioBuf`, `OpenAssert` in `Capture`, `habort` in `Hist`,
`jabort` in `Jitter`.  Properties called `...Asserts` and `ZoneConsistent` say of the
assertions of a handler which never fail and in which cases the others do.
`AvgTrace` is the exception: it goes on past its one assertion, as a `NO_DEBUG`
build does, so that its other properties cover what follows; `avg_stale` shows
the assertion failing.

### TesRing and TesCore

A ring is `head`, `tail` and the sequence number in each slot (`buf`); `cur` is
not kept, because the coordinator always leaves it equal to the head.  `breach`
records that the head was set outside `head .. tail`, which netmap does not
allow; nothing is received after that.

`cpc`, `ct` and `cr` say where the coordinator is: in `poll`, reading a task's
`active` (`scan`) and heads (`read`), reading `active`, `busy` and signalling
(`wake`, `check`, `signal`), or releasing a ring (`release`).  Each access to a
variable that another thread writes is a step of its own.

A task's `pc` is `idle` (in its zloop), `activate` (in `task_activate`, between
two reads of a ring's head), `next` (before `s_task_next_ring`), `enter` and
`loop` (in `s_task_dispatch`), `end`, `fail`, and `dying`, `died`, `gone` for
the end of `s_task_shim`.  The packet handlers are their three possible results
(`Outcomes`): go on, sleep, or fail.

| Action | Code |
|---|---|
| `KernelRx` | netmap: a frame arrives, perhaps after lost ones |
| `BeginPass`, `ScanTask`, `ReadHead`, `WakeTask`, `Release` | `s_new_pkts_hn` with `tasks_get_heads` and `tasks_wakeup` |
| `DieHn` | `s_die_hn` |
| `ReqHn`, `TimeoutHn`, `SubHn` | REP handlers, timers, `s_sub_hn`, with `task_activate` and `task_deactivate` |
| `CopyHead`, `EndActivate` | the rest of `task_activate` |
| `SigHn`, `NextRing`, `Packet`, `DispatchDone`, `SigEnd` | `s_sig_hn` with `s_task_next_ring` and `s_task_dispatch` |
| `ShimExit` | `s_task_shim` after its loop |

A task is *synced* while it has been active since an activation that did not
overlap a pass of the coordinator (history variable `synced`).  What the
comments promise to every active task holds for synced tasks only; see
`core_race`.

Assumptions: memory accesses are sequentially consistent; reading a tail and the
frame before it is one step (the tail only moves forward, and only the kernel
moves it); a task's thread finds its loop running (start and stop are in
`Lifecycle`).

### AioBuf and AppendFile

`tail`, `cur`, `waiting`, `enqueued` and `size` are the members of
`s_aiobuf_t`, with pointers as offsets.  A byte is named by its position in what
the task has appended, so `mem` and `file` say which bytes are where, and the
file is right when it maps every position to itself.  `aio` is the write in
progress and its outcome.

`Copy` is `s_try_queue_aiobuf` up to the first call of `s_queue_aiobuf`;
`TryQueue`, `ForceQueue` and `Flush` are its calls, each the whole of
`s_queue_aiobuf` (`Queue`, `Prepare`); `Open` and `Close` are `s_open_aiobuf` and
`s_close_aiobuf`; `AioDone` is the kernel, which may write a batch, a part of
it, or nothing.  The branch that queues a batch again after `EAGAIN` cannot be
reached: `aio_return` is called only after `aio_error` has returned 0.  A batch
that `aio_write` refuses is taken to be found failed when it is looked at
again.  `s_try_queue_aiobuf` asserts at its end that there is room for a frame,
also when the write has failed; without room the daemon aborts, and `Restart` is
the next one, with a file of its own.

### Capture

One base name and measurement.  The data files are `data`, the stats file is
`stat`; each carries the number of the job that made it.  `src` and `miss` are
the FPGA's side: which stream it is sending and whether frames were lost since
the last one received.  `got`, `tickAt`, `evFirst`, `evLast`, `intact`, `gap`,
`spoilt` and `failed` are history: what a reader of the files would count,
independently of the counters and the state of the code.

The entry of the tick index (`tick`) is not cleared between two ticks, so with one
event frame its `stop_frame`, and with none both numbers, are those of an earlier
tick.  `TickIndex` says that a reader who knows this still finds the right frames;
that the entry is not what its comment says is `TickEntryExact` (section 3).  A
status query reads the counters from a stats file, of which there may be any number
if it was cut short (`ShortLens`); what is left of them makes `s_open` abort the
daemon at the next capture (`OpenAssert`).

The task is one thread, so a handler is cut only where it changes the disk,
because the process may be killed there: `ReqHn`, `OpenFile` (once per file),
`UnlinkStat`; `PktHn`, `StatsWrite`, `Reply`; `Fin`, `StatsWrite`, `FinReply`.
`Kill` stops the process anywhere, as a failed assertion does (`Die`); `Restart`
starts it again.

Left out: path names and `s_canonicalize_path` (its refusals are an answer of
`ReqHn`), the counters of traces, histograms, lost and dropped frames, the
`NO_BAD_FRAMES`, `SINGLE_FILE` and `SAVE_HEADERS` builds, and the conversion,
which is only its result.

### Hist, AvgTrace, Info, Jitter

`Fpga` sends streams of frames numbered 0, 1, 2...; it may start a new stream in
the middle of one, and each frame may come good, bad, or not at all.  A frame
carries one unit of payload, so sizes in bytes are numbers of frames; the header of
a histogram may also carry none (`bare`), since `tespkt_is_valid` asks for no bins
in it.  `HistCap` is `TES_HIST_MAXSIZE` in frames: nothing in the code keeps the
number of bins within it.

| Module | State | Actions |
|---|---|---|
| `Hist` | `hist` (`s_data_t`), `hprev` (`prev_pseq_mca`) | `HistFrame`: the dispatcher and `task_hist_pkt_hn`; `HistWakeup`, `HistSleep`: subscribers |
| `AvgTrace` | `trace` (`s_data_t`), `job`, `timer`, `aprev` (`prev_pseq_tr`), `client` | `AvgReq`, `AvgTimeout`, `AvgFrame`, `OtherTrace` (a long trace of another kind also sets `prev_pseq_tr`), `Elapse` |
| `Info` | `info` (`s_data_t`), `ijob`, `iprev` (`prev_fseq`), `fresh` (`just_activated`) | `InfoReq`, `InfoTimeout`, `InfoFrame`, `InfoCrash` (a division by zero), `InfoUnread` |
| `Jitter` | `conf`, `cur_conf`, `jticks`, `publishing`, `points`, `bins`, `refch` (`s_data_t`) | `JitterTick`, `JitterEvents`, `JitterBadTick`, `JitterReq`, `JitterWakeup`, `JitterSleep` |

`HistWakeup` and `JitterWakeup` are also possible while the task is active:
`s_sub_hn` activates it again when the second subscriber of two leaves
(`SubActivatesOnce`, section 3).  `task_info_pkt_hn` asks `tespkt_event_nums` for
the events in a part of a histogram too; what is read as the size of an event there
is data, so any number may come out, and zero ends the daemon (`EventsOf`,
`InfoCrash`).  The channel of an event is three bits that are not checked (`MaxCh`,
7 in the code), while there are histograms for `NHists` channels beside the
reference.  Bad frames of events leave the jitter task's handler before it changes
anything (`tesd_task_jitter.c:257`) and lost ones do not reach it, so neither is an
action; their delays are in nobody's sum, in the code and in `window` alike.

The other variables are history: what was lost, what a reader of the frames
would count, the events since the last reference event.  A task whose
`task_deactivate` fails is `stuck`: it stays active without a client, because no
caller looks at the result.  A request handler that cannot set its timer ends the
task's loop (`gone`).  `Width` stands for 2^32, `FSeqMod` for 2^16, `DMax` for
`UINT16_MAX`.

Left out: a header frame that is shorter than the header of a histogram
(`tespkt_is_valid` does not check it; the models assume it is not), the wrap-around
of protocol sequence numbers, which are far from it, and overflow of 32-bit bins.

### DaemonNg, Lifecycle, Hdf5Conv, Process

`parent`, `child1` and `child2` are the three processes of `daemonize` and
`fork_and_run`; `pipe` is the byte between the children.  After a timeout the
first child keeps the read end of the pipe until it exits (`late`), so an OK may
still be written into it.  In the foreground, or for a synchronous conversion,
there is only `child2`.  `Killed` ends it at any time, and `FirstKilled` the first
child: the parent takes `WEXITSTATUS` without looking at `WIFEXITED`, which is then 0.

| Module | Action | Code |
|---|---|---|
| `DaemonNg` | `FirstFork`, `SecondFork`, `WaitSig`, `LateExit`, `FirstKilled`, `ParentDone` | parent and first child |
| | `Chdir`, `Reopen`, `WritePidfile`, `SendOk`, `GiveUp` | second child, around its initializer |
| `Lifecycle` | `TesdInit` | `s_init` |
| | `DropPrivileges`, `CloseIf` | `main` |
| | `StartTask`, `AwaitTask`, `AwaitCut`, `Register`, `LoopEnds`, `DieHn` | `tasks_start`, `tasks_read`, the coordinator's loop |
| | `StopTask`, `Join`, `JoinCut` | `tasks_destroy` with `zactor_destroy` |
| | `ThreadInit`, `AutoActivate`, `SigStop`, `HandlerFails`, `Died`, `Fin`, `Gone` | `s_task_shim` |
| `Hdf5Conv` | `Refuse`, `OpenFile`, `CreateGroup`, `MapNext` | `hdf5_conv`, `s_hdf5_init` with `s_crt_grp` and `s_map_file` |
| | `WriteNext`, `ConvReturns`, `NextConv` | `s_hdf5_write`, the answer, the next request |

`zactor` is modelled from how the code uses it and from the note in `s_task_shim`:
`zactor_destroy` waits for one signal, whatever it is, if it could send to the
thread.  `StopTask` assumes that `SIG_STOP` and `$TERM` get into the pipe of a
thread that lives: the sockets do not wait (`tesd_tasks.c:898-904`), so a pipe full
of wake-ups would drop them.  The hdf5 file is its links: the client's group and the
backups, each to a version.  Assumptions: a call of the hdf5 library takes effect as
a whole or not at all, a kill does not corrupt the file, and conversions into one
file do not overlap.  The data files of an asynchronous conversion are mapped
memory; what a later capture does to them meanwhile is the kernel's business and is
not modelled.  `NODELETE_TMP` is defined in the source, so data files are never
deleted.

## 3. Runs

Passing runs:

| Run | Instance | Shows |
|---|---|---|
| `core_safety` | a REP task and an XPUB task, 1 ring of 3 slots | synced tasks keep their unread frames (`SyncedInRange`, `UnreadKept`), one reading per job (`ReqReadsOnce`), netmap's contract (`SyncedKeepsContract`) |
| `core_rings` | 1 task, 2 rings of 2 slots, lost frames | the dispatcher's assertion (`SyncedDispatch`) with several rings and with the choice of ring |
| `core_live` | 1 REP task that may die, 1 ring of 3 slots | every waiting frame is read, every read slot is released |
| `aiobuf` | zone of 8 bytes, frames of 1 to 3, batches from 4, 22 bytes | the zone's assertions, of which one fails, and only after a failed write (`ZoneConsistent`), the positions in the indices, the append-only file, the end of the busy loops |
| `capture` | 2 data files, 2 jobs, 5 frames each, streams of 1 or 2 units, all faults, stats files cut at any counter | answers, leftovers, stream and tick indices, what OK means, statistics beside data |
| `tasks` | 3 streams of 1, 2 or 4 frames, a buffer for 3; 2 histograms of 3 bins, 4 channels, 2 points and a ghost at most | histograms in order and of one stream, and published (`Hist*`); one answer, with a whole trace (`Avg*`); counts of the job (`Info*`); delays, configuration and publication (`Jitter*`); assertions of the histogram and jitter tasks fail only in the cases that `HistAsserts` and `JitterAsserts` name (`TaskAsserts`) |
| `process` | 2 tasks, of which one starts active, has a timer and the other asserts in `data_fin`; 3 conversions of 2 datasets | what the parent is told is wrong in two cases only (`LaunchReported`), threads are gone before the rings (`OrderlyStop`), measurements are kept (`OldDataKept`), nobody waits for ever (`Settles`), `s_create_dset`'s assertions (`ProcessAsserts`) |

Runs that show where the code departs from what its comments, its assertions or
its documentation say (`findings` in `PROJECT.json`):

| Run | Statement | What happens |
|---|---|---|
| `core_race` | the head is that of the task which lags behind all others | a task activated during a pass is overtaken by the head |
| `core_death` | a task's error ends the coordinator's loop | the coordinator blocks sending to the dead task |
| `cap_ok` | 0: writing finished successfully | a failed flush is answered with 0 |
| `avg_stale` | `! trace->recording` when a request comes | not after a job that timed out in the middle of a trace |
| `conv_ok` | 0: the file is finalized, or the conversion has begun | a failed launch, a failed initialization and a failed dataset are all answered with 0 |

Further disagreements have a definition but no run of their own.  Adding the name
to the invariants of the configuration given shows a counterexample:

| Definition | Add to | What happens |
|---|---|---|
| `SubActivatesOnce` (a property) | `CoreSafety.cfg` | `s_sub_hn` (`tesd_tasks.c:829`) activates when the count comes down from two to one; the heads are put back and frames are read twice ("activate it on first subscription"); what the histogram or jitter task has collected is dropped (`HistKept`) |
| `NextRingFound` | `CoreRings.cfg` | right after activation (`tesd_tasks.c:934`), with ring 0 empty, frames in another ring may not be found |
| `GapsReset` | `Capture.cfg` | missed frames do not reset a stream if the frame that reports them is bad (`tesd_task_cap.c:1495`) |
| `StatsStartZero` | `Capture.cfg` | a status query on a short stats file leaves counters (`tesd_task_cap.c:687-695`); the daemon aborts in `s_open` when the next capture begins (`502-509`) |
| `TickEntryExact` | `Capture.cfg` | "frame number of last non-tick event" (`tesd_task_cap.c:195-196`); after a single event frame it is that of an earlier tick (`1469-1476`) |
| `ExitRoom` | `AioBuf.cfg` | the assertion of room at the end of `s_try_queue_aiobuf` (`tesd_task_cap.c:889-890`) fails if a write fails while the zone is full: the daemon aborts instead of ending the job with an error |
| `HistAborts` | `Tasks.cfg` | the end of one histogram and the beginning of the next are lost and their parts published as one (`tesd_task_hist.c:74`), "aborts the whole histogram if an MCA frame is lost" |
| `HistNoAbort` | `Tasks.cfg` | the assertion that a header finds no bins counted (`tesd_task_hist.c:105`) fails after a header without bins; the one that the frame fits into the buffer (`129`) fails for a histogram that is longer |
| `HistKept` (a property) | `Tasks.cfg` | a histogram that is being put together is dropped when one of two subscribers leaves (`tesd_tasks.c:829`, `tesd_task_hist.c:183-190`) |
| `InfoEventsExact` | `Tasks.cfg` | "this is the number of (non-tick, non-trace) events" (`src/README.md:47-50`); parts of histograms are counted as events (`tesd_task_info.c:152-154`), after a division by a size of events that such a frame does not have (`tespkt.h:820-829`) |
| `AvgFullWait` (a property) | `Tasks.cfg` | any 32-bit number of seconds may be asked for (`src/README.md:189-193`), but the milliseconds are computed in 32 bits (`tesd_task_avgtr.c:80`), and the client is told of a timeout too early |
| `JitterNoAbort` | `Tasks.cfg` | `pt->hid < TES_JITTER_NHISTS` (`tesd_task_jitter.c:130`) fails for a channel without a histogram; `ticks <= cur_conf.ticks` (`357`) fails if more ticks come before the first reference event than a histogram lasts |
| `JitterOneRef` | `Tasks.cfg` | delays are from the channel in the header (`src/README.md:219-227`, `258`); after a change of channel the time since the last event of the old one is carried into the first histogram of the new one (`tesd_task_jitter.c:171`) |
| `LaunchTrue` | `Process.cfg` | "the daemon exits and the parent returns with -1" (`daemon_ng.h:33-34`); a daemon whose OK comes after the first child's timeout goes on, and a first child that a signal ends is taken for a success (`daemon_ng.c:423`, `592`) |

Other things the models show, on which the documents are silent: `main` exits with
success when a task has failed; a request handler that fails makes `s_die_hn`
assert; a signal during the start of a task makes `s_task_start` assert.

### Bounds

Every bound is a CONSTANT.  `NumSlots = 3` leaves two frames in a ring, so that
head, task and tail can all differ and wrap; `core_rings` needs a second ring
more than a second frame and has 2 slots.  `SeqMod` is the modulus of the frame
sequence numbers: 3 in `core_safety`, one more than the frames in the ring, so
that neighbours can be told apart (`UnreadKept`); 4 in `core_rings`, where the
order of frames matters and numbers wrap; 1 where sequence numbers play no part.
`PipeHWM` bounds the signals in a pipe: 1 already has the coordinator block on a
full pipe.  `MaxSubs = 2` has the count go up, down, and through 1 from both
sides.  `MaxGap` bounds the frames lost at a time.

The view `LiveView` of `MCTesCore` leaves out values that are overwritten before
they are read again.  It is used where only safety is checked.

In `aiobuf` a file is almost three times the zone's length, and `MinSize` and
`MTU` satisfy the inequality of the real constants (`MINSIZE + TESPKT_MTU <=
BUFSIZE`).  In `capture`, one tick and one event are the least a client may ask
for; five frames are a starting tick, a header, its last part, an event and the
final tick; two jobs are enough for one to find what the other left.
`ShortLens` says how many counters a short write of the stats may leave: any number
of those modelled.

In `tasks` three streams let a job end in one, begin in another, and take over what
is left of the first; a stream of 4 frames is longer than the buffer (`HistCap =
3`), one of 2 comes with bins in its header or without; losses of 0, 1 and 3 frames
are none, some, and a whole turn of the sequence numbers (`FSeqMod = 3`); a timeout
of 3 seconds of 2 units wraps round `Width = 5`, one of 1 second does not;
`EventNums = {0, 2}` has a part of a histogram add to the events or not; `MaxCh = 3`
with `NHists = 2` leaves one channel without a histogram.  `MaxPoints = 4` fills the
list of points, delays of 1 and 2 saturate at `DMax = 3` and reach the bins at both
ends, and `MaxCount` ends a histogram that has got one point into a bin.  In
`process` two tasks are enough for one to fail while the other starts, runs or
stops; three conversions make a measurement, its backup, and a second backup that
meets the first one's name; `MCDsetReqs` has the requests of `s_conv_data` and those
of `tests/hdf5conv.c`, offsets from both ends.

### Fairness

`TesCore!FairSpec` has weak fairness for the coordinator and for each task, since
they are threads that the system schedules, and strong fairness for `SigHn`: a zloop
serves every reader that is ready before it polls again, so requests and timers
cannot keep a task from a waiting `SIG_WAKEUP` for ever.  Clients and the kernel's
reception owe nothing.  `AioBuf!FairSpec` has weak fairness for the queue loops and
for the kernel's end of an accepted write.  `Capture` is checked for safety only. 
`AvgFairness`: time passes, and a zloop serves a timer that is due.
`JitterFairness`: the FPGA's ticks go on.  `ForkFairness`: the parent and the first
child are scheduled, and `poll` returns when its timeout is over; the second child
owes nothing before it has reported, since its initializer may hang.
`LifecycleFairness`: the coordinator and the threads are scheduled, and a zloop
serves a reader that stays ready; no handler has to fail, and nobody has to send a
signal.

`FrameIsRead` is about one ring.  With several, `s_task_dispatch` stays with a
ring for as long as it finds frames there (a TO DO in the code), and the others
may wait for ever.

Deadlock is checked in every run.  `Ended` lets a task or a process that is over
stay so.  `Halted` lets `TesCore` stop where the daemon
has ended, hangs, or has been given up by netmap.

## 4. Proofs

For every number of tasks, rings, slots, every modulus and bound:

* `TesRing_proofs`: `EarlierIdIsNearest` and `CompareIdsIsSign` say that the
  comparisons, written by cases on the two sides of the wrap-around point,
  compare distances from the head.
* `TesCore_proofs`: `TypeCorrect`, `SyncedTasksKeepSlots`, `DispatchAssertion`,
  `SyncedTasksKeepContract`, `UnreadFramesKept`, `RequestsReadOnce`.
* `AioBuf_proofs`: `ZoneAssertions`, `BytesAccounted` and the refinement
  `BufferIsAppendFile`.
* `Process_proofs`: `LaunchIsReported`, `StopsInOrder`, `ConversionsKeepData` and
  `ProcessAssertsHold`, for any number of conversions and datasets too, any
  clock, any file sizes and any offsets and lengths that are asked for.
* `Capture_proofs`: `CaptureTypes`, `RequestsAnswered`, `JobsStartClean`,
  `StreamsConsistent`, `TickIndexRight`, `StatsOfOneJob`, `StreamsWhole`,
  `JobsComplete`, for any number of files, jobs and frames and streams of any size.
* `Streams_proofs`: `HistAssertions`, `HistogramsInOrder`, `HistogramsNotMixed`,
  `WholeHistogramsPublished`; `OneAnswerPerJob`, `WholeTracesAnswered`,
  `GoodTracesServed`, for streams of any number and length and any buffer.
* `Jitter_proofs`: `PointsHaveRoom`, `DelaysRight`, `ConfigurationStable`, for any
  number of channels, bins and points and frames of any length.
* `Tasks_proofs`: `CountsOfOneJob` and `GapsCounted` for every modulus of the
  sequence numbers; `TasksAssertions` for the tasks together, from the proofs
  about each (`TasksAlone`: what a task does beside the others, it can do alone).

`ZoneAssertions`, `HistAssertions`, `PointsHaveRoom`, `TasksAssertions` and
`LaunchIsReported` do not say that no assertion fails or that the parent is always
told the truth, which is false (section 3).  They say that this goes wrong in the
cases the property names and in no other.

Assumptions: `NumSlots >= 2`, at least one task and one ring
(`CoreAssumption`), `1 <= MTU < BufSize`, `MinSize + MTU <= BufSize`
(`AioAssumption`), at least one task, conversion and dataset
(`LifecycleAssumption`, `ConvAssumption`), types of the constants of the tasks
(`CaptureAssumption`, `FpgaAssumption`, `AvgAssumption`, `InfoAssumption`), a
buffer for at least one frame (`HistAssumption`), and room for at least one point
and a ghost (`JitterAssumption`).

`SyncedInRange` is not inductive.  The coordinator releases up to what it
collected earlier, while tasks go on, so the invariant `CoreInv` adds that the
heads collected so far are no later, seen from the ring's head, than the heads
of the synced tasks already looked at (`ScanInv`), wherever the coordinator is
between reading a task and releasing a ring.  It holds on because a task only
moves its heads forward, within the tail, and because a task that begins to be
synced does so outside a pass with its heads equal to the rings'
(`ActivationInv`).  The lemmas on distances in `TesRing_proofs` carry the
arithmetic: releasing up to a nearer slot, receiving a frame and reading the
first frame all keep a head in range.

`ZoneConsistent` is about the moment between two frames and the abort only. 
`AioInv` follows the zone through the queue loops: used bytes are within the zone
and end at the cursor (`ZoneInv`), bytes are enqueued exactly when a write is under
way or has failed (`AioStateInv`), the zone holds the bytes after those in the file,
going round (`MemInv`), and the file is a beginning of what was appended, as long as
the outcome of the last write says (`FileInv`).  Each step then maps to a step or a
stutter of `AppendFile`.

`LaunchReported` is about the parent's last step; `ForkInv` follows the byte in
the pipe from the second child to the first and its exit code from there to the
parent (`PipeInv`).  `OldDataKept` needs that the client's group is linked to the
present version while its datasets are written (`ConvInv`); the copy before the
delete does the rest.  `OrderlyStop` speaks of the moment the interface is closed;
`StopInv` says which signals a thread can have sent by when: SIG_INIT is the first
and only `s_task_start` meets it, SIG_DIED means an error, zactor's own signal is
the last thing a thread does (`SignalInv`); and that the tasks `tasks_destroy` has
passed have stopped (`OrderInv`).  So whichever signal `zactor_destroy` takes for
the last one, the thread has failed or is gone.

`StatsNotMixed` and `IdleIsClean` are about the disk and the memory at all times,
also after a kill.  `CaptureInv` says which files are open, to whom they belong and
whether they are empty at each step of a job (`OpenFiles`), that there is no stats
file while data are written, and that a stream which is being followed is unbroken,
or a loss or a bad frame is known (`Followed`).  `OkMeansCaptured` compares the
counters with the history `got`; the counters are zero once a file has been opened,
because `s_open` asserts it, and `CountInv` keeps the two equal from then on.  Between
jobs it says nothing of them: a status query may leave any.  `TickIndex` rests on a
number left in the entry by an earlier tick being no later than the present tick's
own frame.

`HistOneStream` and `AvgWhole` need to know what is in the buffer while it is
being filled: the frames in it are numbered from the header on, the number of the
last is the one the dispatcher remembers, and they belong to the stream the sender
is in, unless frames were lost (`BufferInv`, `RecordedInv`).  `HistPublished` and
`AvgServed` are about the last frame of a stream that came whole; `IntactInv` and
`UnbrokenInv` say that the buffer then holds all frames before it.  `HistAsserts`
needs the number of frames in the buffer, which is that of the bins and a bare header.

`InfoSpan` rests on `GapLost`: a difference of sequence numbers, corrected by the
modulus when it is negative, is the number of frames lost, up to whole turns.  It
is proved from the uniqueness of quotient and remainder.

`JitterDelays` counts the events of other channels in a window with `Cardinality`,
which no step preserves visibly.  `JitterInv` numbers them instead: there is an
increasing list of the events that the points belong to, all of them or as many as
there is room for (`Numbering`), and each point has the delays of its event
(`PointOf`).  A tick keeps the list, an event of another channel appends to it, a
reference event or a publication empties it.  In the end the list is the one by
counting (`CountedAll`, `NthCounted`).  `Elapsed` and `Loop` are recursive
functions: that they exist and what they compute is shown by induction over the set
of the lengths for which the claim holds (`SetInduction`), because a set, unlike an
operator, can be given to the provers; `EventStep` is the step of the induction for
`Loop`, so the invariant holds after a frame of any length.

Only model-checked: liveness (`FrameIsRead`, `SlotsAreReleased`, `LoopsEnd`,
`AvgAnswered`, `JitterPublishes`, `Settles`), which the prover does not do.  All
other properties of the passing runs are stated by a theorem.

## 5. Plan

Done: all modules of section 2, and proofs of every safety and action property that
the passing runs check.

Next:

1. Facts on which liveness rests and which are safety: measures that each turn of
   the busy loops and of the stopping sequence decreases.
2. Lemmas that tie the small tasks to `TesCore`: what `Packet` delivers is what
   they assume of the dispatcher.

## 6. Not modelled

Field access of packets (bit manipulation), path names, logging, option parsing,
CPU affinity, the preparation of the interface (only its result), the hdf5 library
beyond the links of its groups, overlapping conversions into one file, the client
(one request, and printing) and the programs under `tests/`.
