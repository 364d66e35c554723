------------------------------ MODULE Capture ------------------------------
(***************************************************************************)
(* The capture task: jobs, their files, and what the packet handler makes  *)
(* of the frames.  One base name and measurement; how bytes get into a     *)
(* file is AioBuf's subject, so here a job only knows whether one of its   *)
(* writes has failed.  The task is one thread; its handlers are cut where  *)
(* they change the disk, because the process may be killed there.          *)
(***************************************************************************)
EXTENDS Integers, FiniteSets

CONSTANTS
  NumFiles,    \* stream and index files of a job (NUM_DSETS)
  Requests,    \* what clients ask for
  MaxSize,     \* bound: size of a trace or histogram
  MaxFrames,   \* bound: frames recorded in a job
  MaxJobs,     \* bound: captures begun
  ShortLens,   \* bound: counters that a short write of the stats may leave
  Faults       \* what may go wrong: "lost", "bad", "write", "disk", "kill"

Files == 1 .. NumFiles
NoFile == [job |-> 0]

ASSUME CaptureAssumption ==
  /\ NumFiles \in Nat \ {0}
  /\ \A q \in Requests :
       /\ q.valid \in BOOLEAN /\ q.overwrite \in BOOLEAN
       /\ q.ticks \in Nat /\ q.events \in Nat
       /\ q.mode \in {"auto", "caponly", "convonly"}
  /\ MaxSize \in Nat /\ MaxFrames \in Nat /\ MaxJobs \in Nat
  /\ ShortLens \subseteq 0 .. 2
  /\ Faults \subseteq {"lost", "bad", "write", "disk", "kill"}

VARIABLES
  pc,          \* where the task's thread is
  req,         \* the request being served
  client,      \* "waiting" for an answer, or the last answer
  status,      \* status that the job will be answered with
  recording,   \* a tick has been seen
  st,          \* struct s_stats_t: ticks, events, frames
  stream,      \* cur_stream: size, cur_size, is_event, discard
  tick,        \* cur_tick: start_frame, stop_frame, nframes
  fds,         \* files that are open
  data,        \* disk: the stream and index files
  stat,        \* disk: the stats file
  src,         \* FPGA: kind of stream whose parts it sends, or "none"
  miss,        \* frames have been lost since the last one received
  job,         \* history: number of captures begun
  got,         \* history: good ticks and events recorded in this job
  tickAt,      \* history: frame number of the last good tick
  evFirst,     \* history: of the first good event frame since then, or 0
  evLast,      \* history: of the last one
  intact,      \* history: the ongoing stream is an unbroken beginning
  gap,         \* history: a frame of it has been lost
  spoilt,      \* history: a bad frame came since its header
  failed       \* history: a write of this job has failed

disk    == <<data, stat>>
fpga    == <<src, miss>>
memory  == <<recording, st, stream, tick>>
events  == <<tickAt, evFirst, evLast>>
history == <<got, events, intact, gap, spoilt, failed>>
vars    == <<pc, req, client, status, memory, fds, disk, fpga, job, history>>

NoStats  == [ticks |-> 0, events |-> 0, frames |-> 0]
NoStream == [size |-> 0, cur_size |-> 0, is_event |-> FALSE, discard |-> FALSE]
NoTick   == [start_frame |-> 0, stop_frame |-> 0, nframes |-> 0]
NoReq    == [valid |-> FALSE, ticks |-> 0, events |-> 0, mode |-> "auto",
             overwrite |-> FALSE]

\* Faulty variant: the task goes on recording
FreshRecording ==
  /\ st' = NoStats /\ stream' = NoStream /\ tick' = NoTick /\ UNCHANGED recording

\* s_stats_send clears what the job has kept in memory
Fresh ==
  /\ recording' = FALSE /\ st' = NoStats /\ stream' = NoStream /\ tick' = NoTick

Init ==
  /\ pc = "idle" /\ req = NoReq /\ client = "none" /\ status = "OK"
  /\ recording = FALSE /\ st = NoStats /\ stream = NoStream /\ tick = NoTick
  /\ fds = {} /\ data = [f \in Files |-> NoFile] /\ stat = NoFile
  /\ src = "none" /\ miss = FALSE
  /\ job = 0 /\ got = [ticks |-> 0, events |-> 0]
  /\ tickAt = 0 /\ evFirst = 0 /\ evLast = 0
  /\ intact = FALSE /\ gap = FALSE /\ spoilt = FALSE /\ failed = FALSE

-----------------------------------------------------------------------------
(***************************************************************************)
(* Requests.                                                               *)
(***************************************************************************)

\* s_is_req_valid: if events are asked for, ticks default to 1
MinTicks(q)  == IF q.events # 0 /\ q.ticks = 0 THEN 1 ELSE q.ticks
NoCapture(q) == MinTicks(q) = 0
Valid(q) ==
  /\ q.valid
  /\ ~(q.mode = "convonly" /\ ~NoCapture(q))
  /\ ~(q.mode = "caponly" /\ NoCapture(q))
NoConvert(q) == (NoCapture(q) /\ q.mode # "convonly") \/ q.mode = "caponly"

\* what hdf5_conv may return besides OK; as built it deletes no files
ConvErrors == {"EINV", "EABORT", "EFAIL"}

\* s_stats_read: a short file still overwrites the first counters
ReadStats ==
  [ticks  |-> IF stat.n >= 1 THEN stat.st.ticks ELSE st.ticks,
   events |-> IF stat.n >= 2 THEN stat.st.events ELSE st.events,
   frames |-> IF stat.n >= 3 THEN stat.st.frames ELSE st.frames]

\* s_send_err leaves the job's data as it is
SendErr(code) == client' = code /\ UNCHANGED memory

\* The status or convert query of task_cap_req_hn
Query(q) ==
  \/ ~NoConvert(q) /\ \E e \in ConvErrors : SendErr(e)
  \/ stat.n < 3 /\ st' = ReadStats /\ client' = "EFAIL"
     /\ UNCHANGED <<recording, stream, tick>>
  \/ stat.n = 3 /\ Fresh /\ client' = "OK"

\* task_cap_req_hn up to s_open.  The front end is muted while a job lasts.
ReqHn ==
  /\ pc = "idle"
  /\ \E q \in Requests :
       \/ /\ \/ ~Valid(q) /\ SendErr("EINV")
             \/ Valid(q) /\ "disk" \in Faults
                /\ \E e \in {"EPERM", "EFAIL"} : SendErr(e)
             \/ Valid(q) /\ NoCapture(q) /\ stat = NoFile /\ SendErr("EABORT")
             \/ Valid(q) /\ NoCapture(q) /\ stat # NoFile /\ Query(q)
          /\ UNCHANGED <<pc, req, job, history>>
       \/ /\ Valid(q) /\ ~NoCapture(q) /\ job < MaxJobs
          /\ pc' = "open" /\ req' = q /\ client' = "waiting" /\ job' = job + 1
          /\ got' = [ticks |-> 0, events |-> 0]
          /\ tickAt' = 0 /\ evFirst' = 0 /\ evLast' = 0
          /\ intact' = FALSE /\ gap' = FALSE /\ spoilt' = FALSE /\ failed' = FALSE
          /\ UNCHANGED memory
  /\ UNCHANGED <<status, fds, disk, fpga>>

\* Frames are appended to the open files
Written(files) ==
  [f \in Files |->
     IF f \in fds THEN [files[f] EXCEPT !.content = "part"] ELSE files[f]]

\* s_close_aiobuf on every open file
Closed(files) ==
  [f \in Files |->
     IF f \in fds
       THEN [files[f] EXCEPT !.open = FALSE,
               !.content = IF @ = "part" /\ ~failed' THEN "whole" ELSE @]
       ELSE files[f]]

\* Faulty variant: nobody is told
GiveUpSilent(code, files) ==
  /\ UNCHANGED <<client, memory>>
  /\ data' = Closed(files) /\ fds' = {}
  /\ pc' = "idle" /\ req' = NoReq

\* The job cannot begin: answer and close what was opened
GiveUp(code, files) ==
  /\ SendErr(code)
  /\ data' = Closed(files) /\ fds' = {}
  /\ pc' = "idle" /\ req' = NoReq

\* The process dies: files stay as they are
Die ==
  /\ pc' = "down" /\ req' = NoReq /\ fds' = {}
  /\ client' = IF client = "waiting" THEN "none" ELSE client
  /\ Fresh
  /\ UNCHANGED <<status, disk, fpga, job, history>>

\* Faulty variant: s_open asserts nothing of the statistics
StatsClearAny == TRUE

\* The assertions of s_open about the statistics
StatsClear == st = NoStats

\* s_open aborts the daemon if they fail
OpenAssert == pc = "open" /\ ~StatsClear /\ Die

\* s_open, one file at a time
OpenFile ==
  LET f == Cardinality(fds) + 1
  IN
  /\ pc = "open" /\ StatsClear
  /\ UNCHANGED history
  /\ \/ /\ req.overwrite \/ data[f] = NoFile
        /\ data' = [data EXCEPT ![f] = [job |-> job, open |-> TRUE, content |-> "empty"]]
        /\ fds' = fds \cup {f}
        /\ pc' = IF f = NumFiles THEN "unlink" ELSE "open"
        /\ UNCHANGED <<req, client, memory>>
     \/ /\ ~req.overwrite /\ data[f] # NoFile
        /\ GiveUp("EABORT", data)
     \/ /\ "disk" \in Faults      \* after unlink, if that was done
        /\ IF req.overwrite
             THEN \E d \in {data[f], NoFile} :
                    GiveUp("EFAIL", [data EXCEPT ![f] = d])
             ELSE GiveUp("EABORT", data)
  /\ UNCHANGED <<status, stat, fpga, job>>

\* Faulty variant: the old stats file stays
UnlinkStatNot ==
  /\ pc = "unlink"
  /\ pc' = "active"
  /\ src' \in {"none", "trace", "mca"} /\ miss' = FALSE
  /\ UNCHANGED <<req, client, status, memory, disk, fds, job, history>>

\* task_cap_req_hn removes the old stats file and activates the task
UnlinkStat ==
  /\ pc = "unlink"
  /\ UNCHANGED history
  /\ \/ /\ stat' = NoFile /\ pc' = "active"
        /\ src' \in {"none", "trace", "mca"} /\ miss' = FALSE
        /\ UNCHANGED <<req, client, memory, data, fds>>
     \/ /\ stat # NoFile /\ "disk" \in Faults
        /\ GiveUp("EFAIL", data) /\ UNCHANGED <<stat, fpga>>
  /\ UNCHANGED <<status, job>>

-----------------------------------------------------------------------------
(***************************************************************************)
(* Frames.  A trace or histogram is a stream of frames: a header, which    *)
(* gives the stream's size, then parts.  A frame that is not valid (err)   *)
(* is bad; tespkt_is_valid refuses a header longer than its stream.        *)
(***************************************************************************)
Kinds == {"trace", "mca"}

Short(type) == [type |-> type, header |-> FALSE, size |-> 0, len |-> 1]

Headers ==
  {h \in [type : Kinds, header : {TRUE}, size : 1 .. MaxSize, len : 1 .. MaxSize] :
     h.len <= h.size}

Parts == [type : {src} \cap Kinds, header : {FALSE}, size : {0}, len : 1 .. MaxSize]

\* What the FPGA may send next
Frames == {Short("tick"), Short("event")} \cup Headers \cup Parts

IsStream(fr) == fr.type \in Kinds
NextSrc(fr)  == IF fr.header THEN fr.type ELSE src

\* A frame is lost on the way
Lose ==
  /\ "lost" \in Faults /\ pc = "active"
  /\ \E fr \in Frames :
       /\ src' = NextSrc(fr)
       /\ intact' = (intact /\ ~IsStream(fr))
       /\ gap' = (gap \/ (stream.size > 0 /\ IsStream(fr)))
  /\ miss' = TRUE
  /\ UNCHANGED <<pc, req, client, status, memory, fds, disk, job, got, events,
                 spoilt, failed>>

\* Faulty variant: a part is taken for the next one although frames are missing
ContinuesAfterLoss(fr) ==
  /\ IsStream(fr) /\ (fr.type = "trace") = stream.is_event
  /\ stream.size > 0 /\ ~fr.header

Continues(fr) ==
  /\ IsStream(fr) /\ (fr.type = "trace") = stream.is_event
  /\ stream.size > 0 /\ ~fr.header /\ ~miss

\* Tested before an interrupted stream is reset
Starts(fr) == IsStream(fr) /\ fr.header /\ stream.size = 0

\* cur_stream after the frame, up to the test for its end
Extend(fr) ==
  IF Starts(fr)
    THEN [size |-> fr.size, cur_size |-> fr.len, is_event |-> fr.type = "trace",
          discard |-> FALSE]
    ELSE [stream EXCEPT !.cur_size = @ + fr.len]

\* Faulty variant: the sizes are kept
DiscardedKeeps(s) == [s EXCEPT !.discard = TRUE]

Discarded(s) == [s EXCEPT !.size = 0, !.cur_size = 0, !.discard = TRUE]

Ends(fr) ==
  (Starts(fr) \/ Continues(fr)) /\ Extend(fr).cur_size = Extend(fr).size

\* Faulty variant: extra bytes are not noticed
NextStreamExtra(fr) ==
  IF Starts(fr) \/ Continues(fr)
    THEN IF Ends(fr) THEN [Extend(fr) EXCEPT !.size = 0, !.cur_size = 0]
         ELSE Extend(fr)
    ELSE IF stream.size > 0 \/ IsStream(fr) THEN Discarded(stream) ELSE stream

\* cur_stream after a good frame: it starts or continues a stream, which may
\* get too many bytes or end; or it interrupts one; or its beginning was
\* missed
NextStream(fr) ==
  IF Starts(fr) \/ Continues(fr)
    THEN IF Extend(fr).cur_size > Extend(fr).size THEN Discarded(Extend(fr))
         ELSE IF Ends(fr) THEN [Extend(fr) EXCEPT !.size = 0, !.cur_size = 0]
         ELSE Extend(fr)
    ELSE IF stream.size > 0 \/ IsStream(fr) THEN Discarded(stream) ELSE stream

\* Events that a good frame adds: one in a short event frame (abstracting
\* tespkt_event_nums), one at the end of a trace
NumEvents(fr) ==
  IF fr.type = "event" \/ (fr.type = "trace" /\ Ends(fr)) THEN 1 ELSE 0

\* Faulty variant: the number of event frames is not reset at a tick
NextTickNoReset(fr) ==
  IF fr.type \in {"event", "trace"}
    THEN IF tick.nframes = 0
           THEN [tick EXCEPT !.start_frame = st.frames, !.nframes = 1]
           ELSE [tick EXCEPT !.stop_frame = st.frames, !.nframes = @ + 1]
    ELSE tick

\* cur_tick after a good frame
NextTick(fr) ==
  IF fr.type = "tick"
    THEN [tick EXCEPT !.nframes = 0]
    ELSE IF fr.type = "mca"
    THEN tick
    ELSE IF tick.nframes = 0
    THEN [tick EXCEPT !.start_frame = st.frames, !.nframes = 1]
    ELSE [tick EXCEPT !.stop_frame = st.frames, !.nframes = @ + 1]

\* What a frame does to the counters, and to the history
Count(fr, bad) ==
  LET t == IF fr.type = "tick" /\ ~bad THEN 1 ELSE 0
      e == IF bad THEN 0 ELSE NumEvents(fr)
  IN
  /\ st' = [ticks |-> st.ticks + t, events |-> st.events + e, frames |-> st.frames + 1]
  /\ got' = [ticks |-> got.ticks + t, events |-> got.events + e]
  /\ tickAt' = IF t = 1 THEN st.frames ELSE tickAt
  /\ IF fr.type \in {"event", "trace"} /\ ~bad
       THEN evFirst' = (IF evFirst = 0 THEN st.frames ELSE evFirst) /\ evLast' = st.frames
       ELSE IF t = 1
       THEN evFirst' = 0 /\ evLast' = 0
       ELSE UNCHANGED <<evFirst, evLast>>

\* The history of the ongoing stream
Follow(fr, bad) ==
  LET ongoing == stream'.size > 0
  IN
  /\ intact' = (ongoing /\ \/ Starts(fr) /\ ~bad
                           \/ intact /\ (IsStream(fr) => Continues(fr) /\ ~bad))
  /\ gap' = (ongoing /\ gap)
  /\ spoilt' = (ongoing /\ (spoilt \/ bad))

\* Enough is captured: one tick more than asked for, the starting one
Done(fr, bad) ==
  fr.type = "tick" /\ ~bad /\ st'.ticks > MinTicks(req) /\ st'.events >= req.events

\* s_close after s_flush, and the status of the job
Finish ==
  /\ data' = Closed(Written(data)) /\ fds' = {}
  /\ status' = IF MinTicks(req) > st'.ticks \/ req.events > st'.events
                 THEN "EWRT" ELSE "OK"
  /\ pc' = "stats"

\* task_cap_pkt_hn for a frame that is recorded.  A write may fail when a
\* batch is queued, which ends the job, or in s_flush, which nobody notices.
Record(fr, bad) ==
  /\ st.frames < MaxFrames
  /\ recording' = TRUE
  /\ Count(fr, bad)
  /\ tick' = IF bad THEN tick ELSE NextTick(fr)
  /\ stream' = IF bad THEN stream ELSE NextStream(fr)
  /\ Follow(fr, bad)
  /\ \E error, flushed \in BOOLEAN :
       /\ "write" \notin Faults => ~error /\ flushed
       /\ IF Done(fr, bad) \/ error
            THEN failed' = (error \/ ~flushed) /\ Finish
            ELSE /\ flushed /\ failed' = FALSE
                 /\ data' = Written(data)
                 /\ UNCHANGED <<pc, status, fds>>

\* task_cap_pkt_hn: nothing is recorded before the first tick
PktHn ==
  /\ pc = "active"
  /\ \E fr \in Frames, bad \in BOOLEAN :
       /\ bad => "bad" \in Faults
       /\ src' = NextSrc(fr) /\ miss' = FALSE
       /\ IF recording \/ fr.type = "tick"
            THEN Record(fr, bad)
            ELSE UNCHANGED <<pc, status, memory, fds, data, history>>
  /\ UNCHANGED <<req, client, stat, job>>

-----------------------------------------------------------------------------
(***************************************************************************)
(* The end of a job.                                                       *)
(***************************************************************************)

\* s_stats_write: the file must not exist; a write may be short
StatsWrite ==
  /\ pc \in {"stats", "finstats"}
  /\ \/ /\ stat = NoFile
        /\ stat' = [job |-> job, n |-> 3, st |-> st]
        /\ UNCHANGED status
     \/ /\ stat = NoFile
        /\ \E n \in ShortLens : stat' = [job |-> job, n |-> n, st |-> st]
        /\ status' = IF status = "OK" THEN "EFIN" ELSE status
     \/ /\ stat # NoFile \/ "disk" \in Faults
        /\ UNCHANGED stat
        /\ status' = IF status = "OK" THEN "EFIN" ELSE status
  /\ pc' = IF pc = "stats" THEN "reply" ELSE "finreply"
  /\ UNCHANGED <<req, client, memory, fds, data, fpga, job, history>>

\* s_conv_data, if all is well and it was asked for, then s_stats_send and
\* TASK_SLEEP
Reply ==
  /\ pc = "reply"
  /\ \/ client' = status
     \/ status = "OK" /\ ~NoConvert(req) /\ client' \in ConvErrors
  /\ Fresh
  /\ pc' = "idle" /\ req' = NoReq
  /\ UNCHANGED <<status, fds, disk, fpga, job, history>>

\* The daemon stops: task_cap_fin ends the job
Fin ==
  /\ \/ /\ pc = "idle"
        /\ pc' = "down"
        /\ UNCHANGED <<failed, status, fds, data>>
     \/ /\ pc = "active"
        /\ pc' = "finstats" /\ status' = "EWRT"
        /\ failed' \in {FALSE} \cup {e \in BOOLEAN : "write" \in Faults}
        /\ data' = Closed(data) /\ fds' = {}
  /\ UNCHANGED <<req, client, memory, stat, fpga, job, got, events, intact,
                 gap, spoilt>>

\* task_cap_fin's answer
FinReply ==
  /\ pc = "finreply"
  /\ client' = "EWRT"
  /\ Fresh
  /\ pc' = "down" /\ req' = NoReq
  /\ UNCHANGED <<status, fds, disk, fpga, job, history>>

\* The process is killed
Kill == "kill" \in Faults /\ pc # "down" /\ Die

\* task_cap_init
Restart ==
  /\ pc = "down"
  /\ pc' = "idle" /\ Fresh
  /\ UNCHANGED <<req, client, status, fds, disk, fpga, job, history>>

Next == ReqHn \/ OpenAssert \/ OpenFile \/ UnlinkStat \/ Lose \/ PktHn \/ StatsWrite
        \/ Reply \/ Fin \/ FinReply \/ Kill \/ Restart

Spec == Init /\ [][Next]_vars

-----------------------------------------------------------------------------
FileType ==
  [job : 1 .. MaxJobs, open : BOOLEAN, content : {"empty", "part", "whole"}]
StatsType == [ticks : Nat, events : Nat, frames : Nat]
Codes == {"OK", "EINV", "EABORT", "EPERM", "EFAIL", "EWRT", "EFIN"}

TypeOK ==
  /\ pc \in {"idle", "open", "unlink", "active", "stats", "reply", "finstats",
             "finreply", "down"}
  /\ req \in Requests \cup {NoReq}
  /\ client \in Codes \cup {"none", "waiting"}
  /\ status \in {"OK", "EWRT", "EFIN"}
  /\ recording \in BOOLEAN
  /\ st \in StatsType
  /\ stream \in [size : 0 .. MaxSize, cur_size : 0 .. MaxSize, is_event : BOOLEAN,
                  discard : BOOLEAN]
  /\ tick \in [start_frame : 0 .. MaxFrames, stop_frame : 0 .. MaxFrames,
                nframes : 0 .. MaxFrames]
  /\ fds \subseteq Files
  /\ data \in [Files -> FileType \cup {NoFile}]
  /\ stat \in [job : 1 .. MaxJobs, n : 0 .. 3, st : StatsType] \cup {NoFile}
  /\ src \in Kinds \cup {"none"} /\ miss \in BOOLEAN

(***************************************************************************)
(* Every request gets its answer before the next one is received, or       *)
(* before the task ends: the client's REQ socket could not go on without   *)
(* it.                                                                     *)
(***************************************************************************)
Answered == pc \in {"idle", "down"} => client # "waiting"

(***************************************************************************)
(* The assertions of task_cap_req_hn, s_open and s_open_aiobuf about what  *)
(* the last job, however it ended, leaves behind: no open file, no stream, *)
(* no tick, and the task is not recording.                                 *)
(***************************************************************************)
IdleIsClean ==
  pc = "idle" =>
    /\ fds = {} /\ ~recording
    /\ stream.size = 0 /\ stream.cur_size = 0 /\ tick.nframes = 0

(***************************************************************************)
(* The packet handler's assertions about the ongoing stream.               *)
(***************************************************************************)
StreamAsserts ==
  IF stream.size > 0
    THEN 0 < stream.cur_size /\ stream.cur_size < stream.size /\ ~stream.discard
    ELSE stream.cur_size = 0

(***************************************************************************)
(* What the trace and MCA indices name is one whole trace or histogram: a  *)
(* frame completes a stream of several frames only if all of them, from    *)
(* the header on, are parts of one stream of the FPGA and none is missing. *)
(* Bad frames are excepted: they do not interrupt a stream.                *)
(***************************************************************************)
Completes ==
  /\ st'.frames > st.frames
  /\ stream.size > 0 /\ stream'.size = 0 /\ ~stream'.discard

StreamWhole == [][Completes => (intact /\ ~miss) \/ spoilt]_vars

(***************************************************************************)
(* An entry of the tick index, which is cur_tick.idx when the next good    *)
(* tick comes, is not cleared between ticks: with one event frame its      *)
(* stop_frame, and with none both its numbers, are those of an earlier     *)
(* tick.  It can still be read by one who knows the tick's own frame: a    *)
(* start_frame up to that means no events, otherwise it is the first event *)
(* frame, and the larger of the two numbers is the last one.               *)
(***************************************************************************)
TickIndex ==
  recording =>
    IF tick.start_frame <= tickAt
      THEN evFirst = 0
      ELSE /\ evFirst = tick.start_frame
           /\ evLast = IF tick.stop_frame > tick.start_frame
                         THEN tick.stop_frame ELSE tick.start_frame

(***************************************************************************)
(* "A job will only terminate at receiving a tick, and only if both the    *)
(* minimum number of ticks and the minimum number of non-tick events has   *)
(* been recorded": unless a write has failed, a job answered with OK has   *)
(* recorded, since its own beginning, the starting tick and as many ticks  *)
(* and events as were asked for.  A status query of a cut stats file       *)
(* leaves another job's counters behind; only the assertions of s_open     *)
(* keep the next job from counting on from them.                           *)
(***************************************************************************)
OkMeansCaptured ==
  pc \in {"stats", "reply"} /\ status = "OK" /\ ~failed =>
    got.ticks > MinTicks(req) /\ got.events >= req.events

(***************************************************************************)
(* A status query never reports one job's statistics over another job's    *)
(* frames, nor those of a job whose files are still open, wherever the     *)
(* process was killed: beside a stats file there are only that job's       *)
(* closed files, or files without a frame.                                 *)
(***************************************************************************)
StatsNotMixed ==
  stat # NoFile =>
    \A f \in Files :
      \/ data[f] = NoFile
      \/ data[f].content = "empty"
      \/ data[f].job = stat.job /\ ~data[f].open

-----------------------------------------------------------------------------
(***************************************************************************)
(* What the documentation and the assertions say, and the code does not do.*)
(***************************************************************************)

(***************************************************************************)
(* "writing finished successfully": a job is answered with OK only if none *)
(* of its writes has failed.                                               *)
(***************************************************************************)
OkMeansWritten == pc = "reply" /\ status = "OK" => ~failed

(***************************************************************************)
(* The stream's size "would also be reset if an error (e.g. missed frames) *)
(* occurs": no stream goes on after frames of it were missed.              *)
(***************************************************************************)
GapsReset == stream.size > 0 /\ ~miss => ~gap

(***************************************************************************)
(* s_open asserts that the statistics are zero when a capture begins.  The *)
(* daemon aborts there after a status query of a cut stats file.           *)
(***************************************************************************)
StatsStartZero == pc = "open" => st = NoStats

(***************************************************************************)
(* The comments of struct s_tidx_t: stop_frame is the "frame number of     *)
(* last non-tick event" of the tick.  With one event frame it is not.      *)
(***************************************************************************)
TickEntryExact == recording /\ evFirst > 0 => tick.stop_frame = evLast
=============================================================================
