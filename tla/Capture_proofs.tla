--------------------------- MODULE Capture_proofs ---------------------------
(***************************************************************************)
(* Proofs about the capture task, for any files, requests, bounds and      *)
(* faults.                                                                 *)
(***************************************************************************)
EXTENDS Capture, FiniteSetTheorems, TLAPS

(***************************************************************************)
(* The inductive invariant has three parts: the thread and its client, the *)
(* job's data in memory with its history, and the files.                   *)
(***************************************************************************)
ThreadInv ==
  /\ pc \in {"idle", "open", "unlink", "active", "stats", "reply", "finstats",
             "finreply", "down"}
  /\ req \in Requests \cup {NoReq}
  /\ pc \in {"open", "unlink", "active", "stats", "reply"} => req \in Requests
  /\ client \in Codes \cup {"none", "waiting"}
  /\ status \in {"OK", "EWRT", "EFIN"}
  /\ src \in Kinds \cup {"none"} /\ miss \in BOOLEAN
  /\ Answered

StreamType ==
  [size : 0 .. MaxSize, cur_size : 0 .. MaxSize, is_event : BOOLEAN, discard : BOOLEAN]
TickType ==
  [start_frame : 0 .. MaxFrames, stop_frame : 0 .. MaxFrames, nframes : 0 .. MaxFrames]

\* Numbers of frames are within their bound, and the last good tick's is
\* that of a frame of this job
FrameNumbers ==
  /\ st.frames <= MaxFrames
  /\ tick.nframes <= st.frames
  /\ recording => tickAt < st.frames
  /\ pc \in {"open", "unlink", "active"} /\ ~recording =>
       tickAt = 0 /\ evFirst = 0 /\ evLast = 0

\* What cur_tick says of the event frames since the last good tick; what it
\* has left of earlier ones is before that tick
EventSpan ==
  recording =>
    /\ tick.start_frame < st.frames /\ tick.stop_frame < st.frames
    /\ tick.nframes = 0 => /\ evFirst = 0 /\ evLast = 0
                           /\ tick.start_frame <= tickAt /\ tick.stop_frame <= tickAt
    /\ tick.nframes > 0 => tickAt < tick.start_frame /\ evFirst = tick.start_frame
    /\ tick.nframes = 1 => evLast = tick.start_frame /\ tick.stop_frame <= tickAt
    /\ tick.nframes > 1 => evLast = tick.stop_frame /\ tick.start_frame < tick.stop_frame

\* An ongoing stream is unbroken, unless that is known
Followed == stream.size > 0 => intact \/ spoilt \/ miss

MemoryInv ==
  /\ recording \in BOOLEAN /\ st \in StatsType /\ stream \in StreamType
  /\ tick \in TickType
  /\ got \in [ticks : Nat, events : Nat]
  /\ tickAt \in Nat /\ evFirst \in Nat /\ evLast \in Nat
  /\ intact \in BOOLEAN /\ spoilt \in BOOLEAN
  /\ ~recording => stream = NoStream /\ tick = NoTick
  /\ pc \in {"idle", "open", "unlink", "down"} => ~recording
  /\ StreamAsserts
  /\ Followed
  /\ FrameNumbers
  /\ EventSpan

StatType == [job : 1 .. MaxJobs, n : 0 .. 3, st : StatsType]

\* Which files are open, and what is in this job's
OpenFiles ==
  /\ pc = "open" => \E k \in 0 .. NumFiles - 1 : fds = 1 .. k
  /\ pc \in {"unlink", "active"} => fds = Files
  /\ pc \notin {"open", "unlink", "active"} => fds = {}
  /\ \A f \in fds : /\ data[f] \in FileType /\ data[f].job = job
                    /\ pc \in {"open", "unlink"} => data[f].content = "empty"
  /\ pc \in {"stats", "finstats"} =>
       \A f \in Files : data[f] \in FileType /\ data[f].job = job /\ ~data[f].open

FilesInv ==
  /\ fds \subseteq Files
  /\ data \in [Files -> FileType \cup {NoFile}]
  /\ stat \in StatType \cup {NoFile}
  /\ job \in 0 .. MaxJobs
  /\ pc \notin {"idle", "down"} => job >= 1
  /\ OpenFiles
  /\ pc \in {"active", "stats", "finstats"} => stat = NoFile
  /\ stat # NoFile => stat.st.frames <= MaxFrames
  /\ StatsNotMixed

CaptureInv == ThreadInv /\ MemoryInv /\ FilesInv

\* Once s_open has found the statistics clear, they are this job's
CountInv ==
  /\ pc = "open" => got.ticks = 0 /\ got.events = 0
  /\ pc = "open" /\ fds # {} => StatsClear
  /\ pc \in {"unlink", "active", "stats", "reply"} =>
       st.ticks = got.ticks /\ st.events = got.events
  /\ OkMeansCaptured

-----------------------------------------------------------------------------
(***************************************************************************)
(* The task's data when it is clear, and the shape of a frame.             *)
(***************************************************************************)
LEMMA ClearFields ==
  /\ NoStats \in StatsType /\ NoStats.ticks = 0 /\ NoStats.events = 0 /\ NoStats.frames = 0
  /\ NoStream \in StreamType /\ NoStream.size = 0 /\ NoStream.cur_size = 0
  /\ NoTick \in TickType /\ NoTick.nframes = 0
  <1>1. MaxSize \in Nat /\ MaxFrames \in Nat
    BY CaptureAssumption
  <1>2. 0 \in 0 .. MaxSize /\ 0 \in 0 .. MaxFrames
    BY <1>1
  <1>3. NoStats \in StatsType /\ NoStats.ticks = 0 /\ NoStats.events = 0 /\ NoStats.frames = 0
    BY DEF NoStats, StatsType
  <1>4. NoStream \in StreamType /\ NoStream.size = 0 /\ NoStream.cur_size = 0
    BY <1>2 DEF NoStream, StreamType
  <1>5. NoTick \in TickType /\ NoTick.nframes = 0
    BY <1>2 DEF NoTick, TickType
  <1> QED BY <1>3, <1>4, <1>5

LEMMA FrameFields ==
  ASSUME NEW fr \in Frames
  PROVE  /\ fr.len \in Nat \ {0}
         /\ fr.type \in {"tick", "event", "trace", "mca"}
         /\ fr.header => fr.size \in 1 .. MaxSize /\ fr.len <= fr.size
         /\ fr.type = "tick" => ~fr.header
         /\ NextSrc(fr) \in Kinds \cup {src}
  <1>1. CASE fr = Short("tick") \/ fr = Short("event")
    BY <1>1 DEF Short, NextSrc
  <1>2. CASE fr \in Headers
    BY <1>2, CaptureAssumption DEF Headers, Kinds, NextSrc
  <1>3. CASE fr \in Parts
    BY <1>3, CaptureAssumption DEF Parts, Kinds, NextSrc
  <1> QED BY <1>1, <1>2, <1>3 DEF Frames

(***************************************************************************)
(* cur_stream after a frame of a stream, up to the test for its end: it    *)
(* has not been discarded, and it has got bytes.                           *)
(***************************************************************************)
LEMMA ExtendFields ==
  ASSUME MemoryInv, NEW fr \in Frames, Starts(fr) \/ Continues(fr)
  PROVE  /\ Extend(fr).size \in 1 .. MaxSize /\ Extend(fr).cur_size \in Nat \ {0}
         /\ Extend(fr).is_event \in BOOLEAN /\ Extend(fr).discard = FALSE
         /\ Extend(fr) = [size |-> Extend(fr).size, cur_size |-> Extend(fr).cur_size,
                          is_event |-> Extend(fr).is_event, discard |-> Extend(fr).discard]
  <1>1. fr.len \in Nat \ {0} /\ (fr.header => fr.size \in 1 .. MaxSize)
    BY FrameFields
  <1>2. /\ stream \in StreamType /\ StreamAsserts /\ MaxSize \in Nat
    BY CaptureAssumption DEF MemoryInv
  <1>3. CASE Starts(fr)
    BY <1>1, <1>3 DEF Extend, Starts
  <1>4. CASE ~Starts(fr)
    <2>1. /\ stream.size \in 0 .. MaxSize /\ stream.cur_size \in 0 .. MaxSize
          /\ stream.is_event \in BOOLEAN /\ stream.discard \in BOOLEAN
      BY <1>2 DEF StreamType
    <2>2. stream.size > 0 /\ stream.cur_size > 0 /\ stream.discard = FALSE
      BY <1>2, <1>4, <2>1 DEF Continues, StreamAsserts
    <2>3. stream = [size |-> stream.size, cur_size |-> stream.cur_size,
                    is_event |-> stream.is_event, discard |-> stream.discard]
      BY <1>2 DEF StreamType
    <2>4. Extend(fr) = [size |-> stream.size, cur_size |-> stream.cur_size + fr.len,
                        is_event |-> stream.is_event, discard |-> stream.discard]
      BY <1>4, <2>3 DEF Extend
    <2> QED BY <1>1, <1>2, <2>1, <2>2, <2>4
  <1> QED BY <1>3, <1>4

LEMMA DiscardedFields ==
  ASSUME NEW s \in [size : Nat, cur_size : Nat, is_event : BOOLEAN, discard : BOOLEAN]
  PROVE  /\ Discarded(s) \in StreamType
         /\ Discarded(s).size = 0 /\ Discarded(s).cur_size = 0
         /\ Discarded(s).discard = TRUE
  <1>1. 0 \in 0 .. MaxSize
    BY CaptureAssumption
  <1>2. /\ Discarded(s).size = 0 /\ Discarded(s).cur_size = 0
        /\ Discarded(s).discard = TRUE /\ Discarded(s).is_event \in BOOLEAN
        /\ Discarded(s) \in [size : Nat, cur_size : Nat, is_event : BOOLEAN,
                             discard : BOOLEAN]
    BY DEF Discarded
  <1> QED BY <1>1, <1>2 DEF StreamType

(***************************************************************************)
(* The stream after a good frame.                                          *)
(***************************************************************************)
LEMMA NextStreamFields ==
  ASSUME MemoryInv, NEW fr \in Frames, NEW s, s = NextStream(fr)
  PROVE  /\ s \in StreamType
         /\ IF s.size > 0 THEN /\ 0 < s.cur_size /\ s.cur_size < s.size /\ ~s.discard
                               /\ Starts(fr) \/ Continues(fr)
                          ELSE s.cur_size = 0
         /\ stream.size > 0 /\ s.size = 0 /\ ~s.discard => Continues(fr)
  <1> DEFINE x == Extend(fr)
  <1>0. stream \in StreamType /\ StreamAsserts /\ MaxSize \in Nat
    BY CaptureAssumption DEF MemoryInv
  <1>1. CASE Starts(fr) \/ Continues(fr)
    <2>1. /\ x.size \in 1 .. MaxSize /\ x.cur_size \in Nat \ {0}
          /\ x.is_event \in BOOLEAN /\ x.discard = FALSE
          /\ x = [size |-> x.size, cur_size |-> x.cur_size,
                  is_event |-> x.is_event, discard |-> x.discard]
      BY <1>1, ExtendFields
    <2>2. CASE x.cur_size > x.size
      <3>1. s = Discarded(x)
        BY <1>1, <2>2 DEF NextStream
      <3>2. s \in StreamType /\ s.size = 0 /\ s.cur_size = 0 /\ s.discard = TRUE
        <4> HIDE DEF x
        <4>1. x \in [size : Nat, cur_size : Nat, is_event : BOOLEAN, discard : BOOLEAN]
          <5>1. x.size \in Nat /\ x.cur_size \in Nat
            BY <1>0, <2>1
          <5>2. x.discard \in BOOLEAN
            BY <2>1
          <5> QED BY <2>1, <5>1, <5>2
        <4> QED BY <3>1, <4>1, DiscardedFields
      <3> QED BY <3>2
    <2>3. CASE x.cur_size = x.size
      <3>1. s = [x EXCEPT !.size = 0, !.cur_size = 0]
        BY <1>1, <2>1, <2>3 DEF NextStream, Ends
      <3>2. s = [size |-> 0, cur_size |-> 0, is_event |-> x.is_event, discard |-> FALSE]
        <4> HIDE DEF x
        <4> QED BY <2>1, <3>1
      <3>3. s \in StreamType /\ s.size = 0 /\ s.cur_size = 0
        <4> HIDE DEF x
        <4> QED BY <1>0, <2>1, <3>2 DEF StreamType
      <3>4. stream.size > 0 => Continues(fr)
        BY <1>1 DEF Starts
      <3> QED BY <3>3, <3>4
    <2>4. CASE x.cur_size < x.size
      <3>1. s = x
        BY <1>1, <2>1, <2>4 DEF NextStream, Ends
      <3>2. s \in StreamType
        <4> HIDE DEF x
        <4>1. x.size \in 0 .. MaxSize /\ x.cur_size \in 0 .. MaxSize
          BY <1>0, <2>1, <2>4
        <4>2. x.discard \in BOOLEAN
          BY <2>1
        <4> QED BY <2>1, <3>1, <4>1, <4>2 DEF StreamType
      <3> QED BY <1>1, <2>1, <2>4, <3>1, <3>2
    <2> QED BY <2>1, <2>2, <2>3, <2>4
  <1>2. CASE ~(Starts(fr) \/ Continues(fr)) /\ (stream.size > 0 \/ IsStream(fr))
    <2>1. s = Discarded(stream)
      BY <1>2 DEF NextStream
    <2>2. stream \in [size : Nat, cur_size : Nat, is_event : BOOLEAN, discard : BOOLEAN]
      BY <1>0 DEF StreamType
    <2>3. s \in StreamType /\ s.size = 0 /\ s.cur_size = 0 /\ s.discard = TRUE
      BY <2>1, <2>2, DiscardedFields
    <2> QED BY <2>3
  <1>3. CASE ~(Starts(fr) \/ Continues(fr)) /\ ~(stream.size > 0 \/ IsStream(fr))
    <2>1. s = stream
      BY <1>3 DEF NextStream
    <2> QED BY <1>0, <1>3, <2>1 DEF StreamAsserts, StreamType
  <1> QED BY <1>1, <1>2, <1>3

(***************************************************************************)
(* cur_tick after a good frame: a first event frame of the tick, one more, *)
(* or none.                                                                *)
(***************************************************************************)
LEMMA NextTickFields ==
  ASSUME MemoryInv, NEW fr \in Frames, st.frames < MaxFrames, NEW t, t = NextTick(fr)
  PROVE  /\ t \in TickType
         /\ fr.type = "tick" =>
              /\ t.nframes = 0
              /\ t.start_frame = tick.start_frame /\ t.stop_frame = tick.stop_frame
         /\ fr.type \in {"event", "trace"} =>
              \/ /\ tick.nframes = 0 /\ t.start_frame = st.frames /\ t.nframes = 1
                 /\ t.stop_frame = tick.stop_frame
              \/ /\ tick.nframes > 0 /\ t.start_frame = tick.start_frame
                 /\ t.stop_frame = st.frames /\ t.nframes = tick.nframes + 1
  <1>1. tick \in TickType /\ MaxFrames \in Nat /\ st.frames \in Nat /\ tick.nframes <= st.frames
    BY CaptureAssumption DEF MemoryInv, FrameNumbers, StatsType
  <1>2. /\ tick.start_frame \in 0 .. MaxFrames /\ tick.stop_frame \in 0 .. MaxFrames
        /\ tick.nframes \in 0 .. MaxFrames
        /\ tick = [start_frame |-> tick.start_frame, stop_frame |-> tick.stop_frame,
                   nframes |-> tick.nframes]
    BY <1>1 DEF TickType
  <1>3. /\ st.frames \in 0 .. MaxFrames /\ tick.nframes + 1 \in 0 .. MaxFrames
        /\ 0 \in 0 .. MaxFrames /\ 1 \in 0 .. MaxFrames
    BY <1>1, <1>2
  <1>4. CASE fr.type = "tick"
    <2>1. t = [start_frame |-> tick.start_frame, stop_frame |-> tick.stop_frame,
               nframes |-> 0]
      BY <1>2, <1>4 DEF NextTick
    <2> QED BY <1>2, <1>3, <1>4, <2>1 DEF TickType
  <1>5. CASE fr.type = "mca"
    BY <1>1, <1>5 DEF NextTick
  <1>6. CASE fr.type \notin {"tick", "mca"} /\ tick.nframes = 0
    <2>1. t = [start_frame |-> st.frames, stop_frame |-> tick.stop_frame, nframes |-> 1]
      BY <1>2, <1>6 DEF NextTick
    <2> QED BY <1>2, <1>3, <1>6, <2>1 DEF TickType
  <1>7. CASE fr.type \notin {"tick", "mca"} /\ tick.nframes # 0
    <2>1. t = [start_frame |-> tick.start_frame, stop_frame |-> st.frames,
               nframes |-> tick.nframes + 1]
      BY <1>2, <1>7 DEF NextTick
    <2> QED BY <1>2, <1>3, <1>7, <2>1 DEF TickType
  <1> QED BY <1>4, <1>5, <1>6, <1>7

-----------------------------------------------------------------------------
(***************************************************************************)
(* The thread and its client.                                              *)
(***************************************************************************)
LEMMA ThreadStep == ThreadInv /\ [Next]_vars => ThreadInv'
  <1> SUFFICES ASSUME ThreadInv, [Next]_vars PROVE ThreadInv'
    OBVIOUS
  <1> USE DEF ThreadInv, Answered
  <1>1. CASE ReqHn
    <2>1. PICK q \in Requests :
            \/ /\ \/ \E e \in Codes : SendErr(e)
                  \/ Query(q)
               /\ UNCHANGED <<pc, req>>
            \/ pc' = "open" /\ req' = q /\ client' = "waiting"
      BY <1>1 DEF ReqHn, Codes
    <2>2. pc = "idle" /\ UNCHANGED <<status, fpga>>
      BY <1>1 DEF ReqHn
    <2>3. Query(q) => client' \in Codes
      BY DEF Query, SendErr, ConvErrors, Codes
    <2> QED BY <2>1, <2>2, <2>3 DEF SendErr, Codes, fpga
  <1>2. CASE OpenFile
    BY <1>2 DEF OpenFile, GiveUp, SendErr, Codes, fpga
  <1>3. CASE UnlinkStat
    BY <1>3 DEF UnlinkStat, GiveUp, SendErr, Codes, fpga, Kinds
  <1>4. CASE Lose
    <2>1. src' \in Kinds \cup {src}
      BY <1>4, FrameFields DEF Lose
    <2> QED BY <1>4, <2>1 DEF Lose
  <1>5. CASE PktHn
    <2>1. src' \in Kinds \cup {src} /\ miss' = FALSE /\ UNCHANGED <<req, client>>
      BY <1>5, FrameFields DEF PktHn
    <2>2. pc = "active" /\ pc' \in {"active", "stats"}
          /\ status' \in {"OK", "EWRT", "EFIN"}
      BY <1>5 DEF PktHn, Record, Finish
    <2> QED BY <2>1, <2>2
  <1>6. CASE StatsWrite
    BY <1>6 DEF StatsWrite, fpga
  <1>7. CASE Reply
    BY <1>7 DEF Reply, ConvErrors, Codes, fpga
  <1>8. CASE Fin
    BY <1>8 DEF Fin, fpga
  <1>9. CASE FinReply
    BY <1>9 DEF FinReply, Codes, fpga
  <1>10. CASE Kill \/ OpenAssert
    BY <1>10 DEF Kill, OpenAssert, Die, fpga
  <1>11. CASE Restart
    BY <1>11 DEF Restart, fpga
  <1>12. CASE UNCHANGED vars
    BY <1>12 DEF vars, fpga
  <1> QED
    BY <1>1, <1>2, <1>3, <1>4, <1>5, <1>6, <1>7, <1>8, <1>9, <1>10, <1>11, <1>12 DEF Next

-----------------------------------------------------------------------------
(***************************************************************************)
(* The data in memory.  Most steps leave it clear.                         *)
(***************************************************************************)
HistoryType ==
  /\ got \in [ticks : Nat, events : Nat]
  /\ tickAt \in Nat /\ evFirst \in Nat /\ evLast \in Nat
  /\ intact \in BOOLEAN /\ spoilt \in BOOLEAN

LEMMA ClearMemory ==
  ASSUME ~recording', recording' \in BOOLEAN, stream' = NoStream, tick' = NoTick,
         st' \in StatsType, st'.frames <= MaxFrames, HistoryType',
         pc' \in {"open", "unlink", "active"} => tickAt' = 0 /\ evFirst' = 0 /\ evLast' = 0
  PROVE  MemoryInv'
  <1>1. /\ stream' \in StreamType /\ stream'.size = 0 /\ stream'.cur_size = 0
        /\ tick' \in TickType /\ tick'.nframes = 0
    BY ClearFields
  <1>2. st'.frames \in Nat
    BY DEF StatsType
  <1>3. StreamAsserts' /\ Followed' /\ EventSpan'
    BY <1>1 DEF StreamAsserts, Followed, EventSpan
  <1>4. FrameNumbers'
    BY <1>1, <1>2 DEF FrameNumbers
  <1> QED BY <1>1, <1>3, <1>4 DEF MemoryInv, HistoryType

\* What is known of a task that does not record
LEMMA IdleMemory ==
  ASSUME MemoryInv, ~recording
  PROVE  /\ recording = FALSE /\ stream = NoStream /\ tick = NoTick /\ st \in StatsType
         /\ st.frames <= MaxFrames /\ HistoryType
  BY DEF MemoryInv, FrameNumbers, HistoryType

LEMMA FreshMemory ==
  ASSUME MemoryInv, Fresh, UNCHANGED history, pc' \in {"idle", "down"}
  PROVE  MemoryInv'
  <1>1. /\ ~recording' /\ recording' \in BOOLEAN /\ stream' = NoStream /\ tick' = NoTick
        /\ st' = NoStats
    BY DEF Fresh
  <1>2. st' \in StatsType /\ st'.frames = 0 /\ MaxFrames \in Nat
    BY <1>1, ClearFields, CaptureAssumption
  <1>3. HistoryType'
    BY DEF MemoryInv, HistoryType, history, events
  <1> QED BY <1>1, <1>2, <1>3, ClearMemory

\* Nothing in memory changes, and the task does not record
LEMMA KeepsClear ==
  ASSUME MemoryInv, ~recording, UNCHANGED <<memory, history>>,
         pc' \in {"open", "unlink", "active"} => pc \in {"open", "unlink", "active"}
  PROVE  MemoryInv'
  <1>1. /\ recording = FALSE /\ stream = NoStream /\ tick = NoTick /\ st \in StatsType
        /\ st.frames <= MaxFrames /\ HistoryType
    BY IdleMemory
  <1>2. pc' \in {"open", "unlink", "active"} => tickAt = 0 /\ evFirst = 0 /\ evLast = 0
    BY DEF MemoryInv, FrameNumbers
  <1>3. UNCHANGED <<recording, st, stream, tick, got, tickAt, evFirst, evLast, intact, spoilt>>
    BY DEF memory, history, events
  <1>4. HistoryType'
    BY <1>1, <1>3 DEF HistoryType
  <1> QED BY <1>1, <1>2, <1>3, <1>4, ClearMemory

(***************************************************************************)
(* A frame is recorded.                                                    *)
(***************************************************************************)
LEMMA RecordMemory ==
  ASSUME MemoryInv, ThreadInv, NEW fr \in Frames, NEW bad \in BOOLEAN,
         pc = "active", recording \/ fr.type = "tick", Record(fr, bad)
  PROVE  MemoryInv'
  <1> DEFINE t == IF fr.type = "tick" /\ ~bad THEN 1 ELSE 0
             e == IF bad THEN 0 ELSE NumEvents(fr)
  <1>0. /\ st \in StatsType /\ stream \in StreamType /\ tick \in TickType
        /\ got \in [ticks : Nat, events : Nat]
        /\ tickAt \in Nat /\ evFirst \in Nat /\ evLast \in Nat
        /\ st.frames < MaxFrames /\ MaxFrames \in Nat /\ st.frames \in Nat
        /\ st.ticks \in Nat /\ st.events \in Nat
        /\ StreamAsserts /\ Followed /\ FrameNumbers /\ EventSpan
        /\ intact \in BOOLEAN /\ spoilt \in BOOLEAN
    BY CaptureAssumption DEF MemoryInv, StatsType, Record
  <1>1. t \in Nat /\ e \in Nat
    BY DEF NumEvents
  <1>2. /\ st' = [ticks |-> st.ticks + t, events |-> st.events + e,
                  frames |-> st.frames + 1]
        /\ got' = [ticks |-> got.ticks + t, events |-> got.events + e]
        /\ tickAt' = IF t = 1 THEN st.frames ELSE tickAt
        /\ IF fr.type \in {"event", "trace"} /\ ~bad
             THEN /\ evFirst' = (IF evFirst = 0 THEN st.frames ELSE evFirst)
                  /\ evLast' = st.frames
             ELSE IF t = 1
             THEN evFirst' = 0 /\ evLast' = 0
             ELSE UNCHANGED <<evFirst, evLast>>
        /\ recording' = TRUE
        /\ tick' = IF bad THEN tick ELSE NextTick(fr)
        /\ stream' = IF bad THEN stream ELSE NextStream(fr)
        /\ Follow(fr, bad)
    BY DEF Record, Count
  <1>3. pc' \in {"active", "stats"}
    BY DEF Record, Finish
  <1>4. tickAt <= st.frames
    <2>1. recording => tickAt < st.frames
      BY <1>0 DEF FrameNumbers
    <2>2. ~recording => tickAt = 0
      BY <1>0 DEF FrameNumbers
    <2> QED BY <1>0, <2>1, <2>2
  <1>5. /\ st' \in StatsType /\ st'.frames = st.frames + 1
        /\ got' \in [ticks : Nat, events : Nat]
        /\ tickAt' \in Nat /\ evFirst' \in Nat /\ evLast' \in Nat
        /\ tickAt' <= st.frames
    <2> HIDE DEF t, e
    <2>1. st' \in StatsType /\ st'.frames = st.frames + 1
      BY <1>0, <1>1, <1>2 DEF StatsType
    <2>2. got' \in [ticks : Nat, events : Nat]
      BY <1>0, <1>1, <1>2
    <2>3. tickAt' \in Nat /\ tickAt' <= st.frames
      BY <1>0, <1>2, <1>4
    <2>4. evFirst' \in Nat /\ evLast' \in Nat
      BY <1>0, <1>2
    <2> QED BY <2>1, <2>2, <2>3, <2>4
  <1>6. stream' \in StreamType /\ StreamAsserts'
    <2>1. CASE bad
      BY <1>0, <1>2, <2>1 DEF StreamAsserts
    <2>2. CASE ~bad
      <3>1. stream' = NextStream(fr)
        BY <1>2, <2>2
      <3> QED BY <3>1, NextStreamFields DEF StreamAsserts
    <2> QED BY <2>1, <2>2
  <1>7. intact' \in BOOLEAN /\ spoilt' \in BOOLEAN /\ Followed'
    <2>1. intact' \in BOOLEAN /\ spoilt' \in BOOLEAN
      BY <1>2 DEF Follow
    <2>2. ASSUME stream'.size > 0 PROVE intact' \/ spoilt'
      <3>1. CASE bad
        BY <1>2, <2>2, <3>1 DEF Follow
      <3>2. CASE ~bad /\ Starts(fr)
        BY <1>2, <2>2, <3>2 DEF Follow
      <3>3. CASE ~bad /\ ~Starts(fr)
        <4>1. stream' = NextStream(fr)
          BY <1>2, <3>3
        <4>2. Continues(fr)
          BY <2>2, <3>3, <4>1, NextStreamFields
        <4>3. stream.size > 0 /\ ~miss
          BY <4>2 DEF Continues
        <4>4. intact \/ spoilt
          BY <1>0, <4>3 DEF Followed
        <4> QED BY <1>2, <2>2, <3>3, <4>2, <4>4 DEF Follow
      <3> QED BY <3>1, <3>2, <3>3
    <2> QED BY <2>1, <2>2 DEF Followed
  <1>8. /\ tick' \in TickType /\ tick'.nframes <= st'.frames /\ EventSpan'
    <2>0. /\ tick.nframes \in Nat /\ tick.start_frame \in Nat /\ tick.stop_frame \in Nat
          /\ tick.nframes <= st.frames
      BY <1>0 DEF TickType, FrameNumbers
    <2>1. /\ tick.start_frame <= st.frames /\ tick.stop_frame <= st.frames
          /\ ~recording => /\ tick.nframes = 0 /\ tick.start_frame = 0
                           /\ tick.stop_frame = 0 /\ tickAt = 0 /\ evFirst = 0 /\ evLast = 0
      <3>1. CASE recording
        BY <1>0, <2>0, <3>1 DEF EventSpan
      <3>2. CASE ~recording
        <4>1. tick = NoTick /\ tickAt = 0 /\ evFirst = 0 /\ evLast = 0
          BY <3>2 DEF MemoryInv, FrameNumbers
        <4>2. tick.nframes = 0 /\ tick.start_frame = 0 /\ tick.stop_frame = 0
          BY <4>1 DEF NoTick
        <4> QED BY <1>0, <4>1, <4>2
      <3> QED BY <3>1, <3>2
    <2>2. CASE bad \/ fr.type = "mca"
      <3>1. tick' = tick /\ UNCHANGED <<tickAt, evFirst, evLast>>
        BY <1>2, <2>2 DEF NextTick
      <3>2. CASE recording
        BY <1>0, <1>2, <1>5, <2>0, <3>1, <3>2 DEF EventSpan
      <3>3. CASE ~recording
        BY <1>0, <1>2, <1>5, <2>0, <2>1, <3>1, <3>3 DEF EventSpan
      <3> QED BY <3>2, <3>3
    <2>3. CASE ~bad /\ fr.type = "tick"
      <3>1. /\ tick' \in TickType /\ tick'.nframes = 0
            /\ tick'.start_frame = tick.start_frame /\ tick'.stop_frame = tick.stop_frame
        BY <1>0, <1>2, <2>3, NextTickFields
      <3>2. tickAt' = st.frames /\ evFirst' = 0 /\ evLast' = 0
        BY <1>2, <2>3
      <3> QED BY <1>0, <1>5, <2>0, <2>1, <3>1, <3>2 DEF EventSpan
    <2>4. CASE ~bad /\ fr.type \in {"event", "trace"}
      <3>1. /\ tick' \in TickType
            /\ \/ /\ tick.nframes = 0 /\ tick'.start_frame = st.frames /\ tick'.nframes = 1
                  /\ tick'.stop_frame = tick.stop_frame
               \/ /\ tick.nframes > 0 /\ tick'.start_frame = tick.start_frame
                  /\ tick'.stop_frame = st.frames /\ tick'.nframes = tick.nframes + 1
        BY <1>0, <1>2, <2>4, NextTickFields
      <3>2. recording /\ tickAt' = tickAt /\ evLast' = st.frames
            /\ evFirst' = IF evFirst = 0 THEN st.frames ELSE evFirst
        BY <1>2, <2>4
      <3>3. tickAt < st.frames
        BY <1>0, <3>2 DEF FrameNumbers
      <3>4. CASE tick.nframes = 0
        BY <1>0, <1>5, <2>0, <3>1, <3>2, <3>3, <3>4 DEF EventSpan
      <3>5. CASE tick.nframes > 0
        <4>1. /\ tick.start_frame < st.frames /\ tickAt < tick.start_frame
              /\ evFirst = tick.start_frame
          BY <1>0, <3>2, <3>5 DEF EventSpan
        <4>2. evFirst' = tick.start_frame
          BY <1>0, <2>0, <3>2, <4>1
        <4>3. tick'.nframes > 1
          BY <2>0, <3>1, <3>5
        <4> QED BY <1>0, <1>5, <2>0, <3>1, <3>2, <3>3, <3>5, <4>1, <4>2, <4>3 DEF EventSpan
      <3> QED BY <2>0, <3>4, <3>5
    <2> QED BY <2>2, <2>3, <2>4, FrameFields
  <1>9. FrameNumbers'
    BY <1>0, <1>2, <1>5, <1>8 DEF FrameNumbers
  <1> QED BY <1>2, <1>3, <1>5, <1>6, <1>7, <1>8, <1>9 DEF MemoryInv

LEMMA MemoryStep == CaptureInv /\ [Next]_vars => MemoryInv'
  <1> SUFFICES ASSUME CaptureInv, [Next]_vars PROVE MemoryInv'
    OBVIOUS
  <1>0. MemoryInv /\ ThreadInv /\ FilesInv
    BY DEF CaptureInv
  <1>1. CASE ReqHn
    <2>1. pc = "idle" /\ ~recording /\ UNCHANGED <<fpga, disk>>
      BY <1>0, <1>1 DEF ReqHn, MemoryInv
    <2>2. CASE UNCHANGED <<memory, history, pc>>
      BY <1>0, <2>1, <2>2, KeepsClear
    <2>3. CASE Fresh /\ UNCHANGED <<history, pc>>
      BY <1>0, <2>1, <2>3, FreshMemory
    <2>4. CASE /\ stat # NoFile /\ st' = ReadStats
               /\ UNCHANGED <<recording, stream, tick, history, pc>>
      <3>1. /\ recording = FALSE /\ stream = NoStream /\ tick = NoTick /\ st \in StatsType
            /\ st.frames <= MaxFrames /\ HistoryType
        BY <1>0, <2>1, IdleMemory
      <3>2. stat \in StatType /\ stat.st.frames <= MaxFrames
        BY <1>0, <2>4 DEF FilesInv
      <3>3. stat.st \in StatsType
        BY <3>2 DEF StatType
      <3>4. st' \in StatsType /\ st'.frames <= MaxFrames
        BY <2>4, <3>1, <3>2, <3>3 DEF ReadStats, StatsType
      <3>5. HistoryType'
        BY <2>4, <3>1 DEF HistoryType, history, events
      <3> QED BY <2>1, <2>4, <3>1, <3>4, <3>5, ClearMemory
    <2>5. CASE /\ pc' = "open" /\ got' = [ticks |-> 0, events |-> 0]
               /\ tickAt' = 0 /\ evFirst' = 0 /\ evLast' = 0
               /\ intact' = FALSE /\ spoilt' = FALSE /\ UNCHANGED memory
      <3>1. /\ recording = FALSE /\ stream = NoStream /\ tick = NoTick /\ st \in StatsType
            /\ st.frames <= MaxFrames
        BY <1>0, <2>1, IdleMemory
      <3>2. HistoryType'
        BY <2>5 DEF HistoryType
      <3> QED BY <2>5, <3>1, <3>2, ClearMemory DEF memory
    <2> QED BY <1>1, <2>2, <2>3, <2>4, <2>5 DEF ReqHn, Query, SendErr
  <1>2. CASE OpenFile
    <2>1. ~recording /\ pc = "open" /\ UNCHANGED <<memory, history>>
      BY <1>0, <1>2 DEF OpenFile, GiveUp, SendErr, MemoryInv
    <2> QED BY <1>0, <2>1, KeepsClear
  <1>3. CASE UnlinkStat
    <2>1. ~recording /\ pc = "unlink" /\ UNCHANGED <<memory, history>>
      BY <1>0, <1>3 DEF UnlinkStat, GiveUp, SendErr, MemoryInv
    <2> QED BY <1>0, <2>1, KeepsClear
  <1>4. CASE Lose
    <2>1. /\ intact' \in BOOLEAN /\ miss' = TRUE
          /\ UNCHANGED <<pc, recording, st, stream, tick, got, tickAt, evFirst, evLast,
                        spoilt>>
      BY <1>4 DEF Lose, memory, events
    <2> QED BY <1>0, <2>1 DEF MemoryInv, StreamAsserts, Followed, FrameNumbers, EventSpan
  <1>5. CASE PktHn
    <2>1. PICK fr \in Frames, bad \in BOOLEAN :
            IF recording \/ fr.type = "tick"
              THEN Record(fr, bad)
              ELSE UNCHANGED <<pc, status, memory, fds, data, history>>
      BY <1>5 DEF PktHn
    <2>2. pc = "active"
      BY <1>5 DEF PktHn
    <2>3. CASE recording \/ fr.type = "tick"
      BY <1>0, <2>1, <2>2, <2>3, RecordMemory
    <2>4. CASE ~(recording \/ fr.type = "tick")
      BY <1>0, <2>1, <2>2, <2>4, KeepsClear
    <2> QED BY <2>3, <2>4
  <1>6. CASE StatsWrite
    <2>1. /\ pc' \in {"reply", "finreply"}
          /\ UNCHANGED <<recording, st, stream, tick, got, tickAt, evFirst, evLast,
                        intact, spoilt, miss>>
      BY <1>6 DEF StatsWrite, memory, history, events, fpga
    <2> QED BY <1>0, <2>1 DEF MemoryInv, StreamAsserts, Followed, FrameNumbers, EventSpan
  <1>7. CASE Reply
    BY <1>0, <1>7, FreshMemory DEF Reply
  <1>8. CASE Fin
    <2>1. /\ UNCHANGED <<recording, st, stream, tick, got, tickAt, evFirst, evLast,
                        intact, spoilt, miss>>
          /\ \/ pc = "idle" /\ pc' = "down"
             \/ pc = "active" /\ pc' = "finstats"
      BY <1>8 DEF Fin, memory, events, fpga
    <2> QED BY <1>0, <2>1 DEF MemoryInv, StreamAsserts, Followed, FrameNumbers, EventSpan
  <1>9. CASE FinReply
    BY <1>0, <1>9, FreshMemory DEF FinReply
  <1>10. CASE Kill \/ OpenAssert
    BY <1>0, <1>10, FreshMemory DEF Kill, OpenAssert, Die
  <1>11. CASE Restart
    BY <1>0, <1>11, FreshMemory DEF Restart
  <1>12. CASE UNCHANGED vars
    <2>1. UNCHANGED <<pc, recording, st, stream, tick, got, tickAt, evFirst, evLast,
                        intact, spoilt, miss>>
      BY <1>12 DEF vars, memory, history, events, fpga
    <2> QED BY <1>0, <2>1 DEF MemoryInv, StreamAsserts, Followed, FrameNumbers, EventSpan
  <1> QED
    BY <1>1, <1>2, <1>3, <1>4, <1>5, <1>6, <1>7, <1>8, <1>9, <1>10, <1>11, <1>12 DEF Next

-----------------------------------------------------------------------------
(***************************************************************************)
(* The files.                                                              *)
(***************************************************************************)
LEMMA NoFileNot ==
  ASSUME NEW x \in FileType \cup StatType
  PROVE  x # NoFile
  <1>1. x.job \in 1 .. MaxJobs
    BY DEF FileType, StatType
  <1>2. NoFile.job = 0
    BY DEF NoFile
  <1> QED BY <1>1, <1>2, CaptureAssumption

\* Closing the open files changes neither whose they are nor, if they have
\* no frame, that
LEMMA ClosedFields ==
  ASSUME NEW files \in [Files -> FileType \cup {NoFile}],
         \A f \in fds : files[f] \in FileType
  PROVE  /\ Closed(files) \in [Files -> FileType \cup {NoFile}]
         /\ \A f \in Files : f \notin fds => Closed(files)[f] = files[f]
         /\ \A f \in Files \cap fds :
              /\ Closed(files)[f] \in FileType /\ Closed(files)[f].job = files[f].job
              /\ ~Closed(files)[f].open
              /\ files[f].content = "empty" => Closed(files)[f].content = "empty"
  <1> DEFINE c == Closed(files)
  <1>1. ASSUME NEW f \in Files, f \in fds
        PROVE  /\ c[f] \in FileType /\ c[f].job = files[f].job /\ c[f].open = FALSE
               /\ files[f].content = "empty" => c[f].content = "empty"
    <2> DEFINE x == IF files[f].content = "part" /\ ~failed' THEN "whole" ELSE files[f].content
    <2>1. files[f] \in FileType
      BY <1>1
    <2>2. c[f] = [files[f] EXCEPT !.open = FALSE, !.content = x]
      BY <1>1 DEF Closed
    <2>3. x \in {"empty", "part", "whole"} /\ (files[f].content = "empty" => x = "empty")
      BY <2>1 DEF FileType
    <2> HIDE DEF x, c
    <2> QED BY <2>1, <2>2, <2>3 DEF FileType
  <1>2. \A f \in Files : f \notin fds => c[f] = files[f]
    BY DEF Closed
  <1>3. c \in [Files -> FileType \cup {NoFile}]
    <2>1. \A f \in Files : c[f] \in FileType \cup {NoFile}
      BY <1>1, <1>2
    <2>2. c = [f \in Files |-> c[f]]
      BY DEF Closed
    <2> HIDE DEF c
    <2> QED BY <2>1, <2>2
  <1> QED BY <1>1, <1>2, <1>3

\* Appending frames keeps whose the open files are
LEMMA WrittenFields ==
  ASSUME NEW files \in [Files -> FileType \cup {NoFile}],
         \A f \in fds : files[f] \in FileType
  PROVE  /\ Written(files) \in [Files -> FileType \cup {NoFile}]
         /\ \A f \in Files \cap fds :
              Written(files)[f] \in FileType /\ Written(files)[f].job = files[f].job
  <1> DEFINE w == Written(files)
  <1>1. ASSUME NEW f \in Files, f \in fds
        PROVE  w[f] \in FileType /\ w[f].job = files[f].job
    <2>1. files[f] \in FileType /\ w[f] = [files[f] EXCEPT !.content = "part"]
      BY <1>1 DEF Written
    <2> HIDE DEF w
    <2> QED BY <2>1 DEF FileType
  <1>2. \A f \in Files : f \notin fds => w[f] = files[f]
    BY DEF Written
  <1>3. w \in [Files -> FileType \cup {NoFile}]
    <2>1. \A f \in Files : w[f] \in FileType \cup {NoFile}
      BY <1>1, <1>2
    <2>2. w = [f \in Files |-> w[f]]
      BY DEF Written
    <2> HIDE DEF w
    <2> QED BY <2>1, <2>2
  <1> QED BY <1>1, <1>3

\* A job is given up before its stats file is removed: its files have no
\* frame, so that they do not disturb an old stats file
LEMMA GiveUpFiles ==
  ASSUME FilesInv, pc \in {"open", "unlink"}, UNCHANGED <<stat, job>>, NEW code,
         NEW files \in [Files -> FileType \cup {NoFile}], GiveUp(code, files),
         \A f \in Files : files[f] = data[f] \/ (f \notin fds /\ files[f] = NoFile)
  PROVE  FilesInv'
  <1>1. data' = Closed(files) /\ fds' = {} /\ pc' = "idle"
    BY DEF GiveUp
  <1>2. \A f \in fds : /\ f \in Files /\ data[f] \in FileType /\ data[f].content = "empty"
                       /\ data[f] # NoFile /\ files[f] = data[f]
    BY NoFileNot DEF FilesInv, OpenFiles
  <1>3. /\ data' \in [Files -> FileType \cup {NoFile}]
        /\ \A f \in Files : f \notin fds => data'[f] = files[f]
        /\ \A f \in fds : data'[f].content = "empty"
    BY <1>1, <1>2, ClosedFields
  <1>4. StatsNotMixed'
    <2> SUFFICES ASSUME stat # NoFile, NEW f \in Files
                 PROVE  \/ data'[f] = NoFile
                        \/ data'[f].content = "empty"
                        \/ data'[f].job = stat.job /\ ~data'[f].open
      BY DEF StatsNotMixed
    <2>1. CASE f \in fds
      BY <1>3, <2>1
    <2>2. CASE f \notin fds
      BY <1>3, <2>2 DEF FilesInv, StatsNotMixed
    <2> QED BY <2>1, <2>2
  <1>5. OpenFiles'
    BY <1>1 DEF OpenFiles
  <1> QED BY <1>1, <1>3, <1>4, <1>5 DEF FilesInv

LEMMA OpenFileFiles == FilesInv /\ OpenFile => FilesInv'
  <1> SUFFICES ASSUME FilesInv, OpenFile PROVE FilesInv'
    OBVIOUS
  <1>0. /\ fds \subseteq Files /\ data \in [Files -> FileType \cup {NoFile}]
        /\ job \in 1 .. MaxJobs /\ NumFiles \in Nat \ {0} /\ MaxJobs \in Nat
        /\ stat \in StatType \cup {NoFile}
        /\ stat # NoFile => stat.st.frames <= MaxFrames
        /\ OpenFiles /\ StatsNotMixed /\ pc = "open" /\ UNCHANGED <<stat, job>>
    BY CaptureAssumption DEF FilesInv, OpenFile
  <1>1. PICK k \in 0 .. NumFiles - 1 : fds = 1 .. k
    BY <1>0 DEF OpenFiles
  <1> DEFINE f == Cardinality(fds) + 1
  <1>2. f = k + 1 /\ f \in Files /\ f \notin fds /\ fds \cup {f} = 1 .. f
    <2>1. Cardinality(1 .. k) = k
      <3>1. 1 \in Int /\ k \in Int
        BY <1>0
      <3>2. Cardinality(1 .. k) = IF 1 > k THEN 0 ELSE k - 1 + 1
        BY <3>1, FS_Interval
      <3> QED BY <1>0, <3>2
    <2> QED BY <1>0, <1>1, <2>1 DEF Files
  <1>3. CASE /\ data' = [data EXCEPT ![f] = [job |-> job, open |-> TRUE, content |-> "empty"]]
             /\ fds' = fds \cup {f}
             /\ pc' = IF f = NumFiles THEN "unlink" ELSE "open"
    <2> HIDE DEF f
    <2> DEFINE new == [job |-> job, open |-> TRUE, content |-> "empty"]
    <2>1. new \in FileType /\ new.job = job /\ new.content = "empty"
      BY <1>0 DEF FileType
    <2> HIDE DEF new
    <2>2. /\ data' \in [Files -> FileType \cup {NoFile}] /\ data'[f] = new
          /\ \A g \in Files : g # f => data'[g] = data[g]
      BY <1>0, <1>2, <1>3, <2>1 DEF new
    <2>3. OpenFiles'
      <3>1. fds' = 1 .. f /\ (f = NumFiles => fds' = Files)
        BY <1>2, <1>3 DEF Files
      <3>2. f # NumFiles => f \in 0 .. NumFiles - 1
        BY <1>0, <1>2 DEF Files
      <3>3. ASSUME NEW g \in fds'
            PROVE  data'[g] \in FileType /\ data'[g].job = job /\ data'[g].content = "empty"
        BY <1>0, <1>2, <1>3, <2>1, <2>2, <3>3 DEF OpenFiles
      <3> QED BY <1>0, <1>3, <3>1, <3>2, <3>3 DEF OpenFiles
    <2>4. StatsNotMixed'
      BY <1>0, <2>1, <2>2 DEF StatsNotMixed
    <2>5. fds' \subseteq Files /\ pc' \in {"open", "unlink"}
      BY <1>0, <1>2, <1>3
    <2> QED BY <1>0, <2>2, <2>3, <2>4, <2>5 DEF FilesInv
  <1>4. ASSUME NEW code, GiveUp(code, data) PROVE FilesInv'
    BY <1>0, <1>4, GiveUpFiles
  <1>5. ASSUME NEW code, NEW d \in {data[f], NoFile}, GiveUp(code, [data EXCEPT ![f] = d])
        PROVE  FilesInv'
    <2> HIDE DEF f
    <2> DEFINE files == [data EXCEPT ![f] = d]
    <2>1. /\ files \in [Files -> FileType \cup {NoFile}]
          /\ \A g \in Files : files[g] = data[g] \/ (g \notin fds /\ files[g] = NoFile)
      BY <1>0, <1>2
    <2> HIDE DEF files
    <2>2. GiveUp(code, files)
      BY <1>5 DEF files
    <2> QED BY <1>0, <2>1, <2>2, GiveUpFiles
  <1> QED BY <1>3, <1>4, <1>5 DEF OpenFile

\* The files at the end of a job: all of this job, and closed
LEMMA CloseFiles ==
  ASSUME FilesInv, pc = "active", NEW files \in [Files -> FileType \cup {NoFile}],
         \A f \in Files : files[f] \in FileType /\ files[f].job = job,
         data' = Closed(files), fds' = {}, pc' \in {"stats", "finstats"},
         UNCHANGED <<stat, job>>
  PROVE  FilesInv'
  <1>1. fds = Files /\ stat = NoFile /\ job \in 0 .. MaxJobs /\ job >= 1
    BY DEF FilesInv, OpenFiles
  <1>2. /\ data' \in [Files -> FileType \cup {NoFile}]
        /\ \A f \in Files :
             data'[f] \in FileType /\ data'[f].job = job /\ ~data'[f].open
    BY <1>1, ClosedFields
  <1>3. OpenFiles'
    BY <1>2 DEF OpenFiles
  <1>4. StatsNotMixed'
    BY <1>1 DEF StatsNotMixed
  <1> QED BY <1>1, <1>2, <1>3, <1>4 DEF FilesInv

LEMMA FilesStep == CaptureInv /\ [Next]_vars => FilesInv'
  <1> SUFFICES ASSUME CaptureInv, [Next]_vars PROVE FilesInv'
    OBVIOUS
  <1>0. FilesInv /\ st \in StatsType /\ st.frames <= MaxFrames
    BY DEF CaptureInv, MemoryInv, FrameNumbers
  <1>1. CASE ReqHn
    <2>1. /\ pc = "idle" /\ UNCHANGED <<fds, data, stat>> /\ MaxJobs \in Nat
          /\ \/ UNCHANGED <<pc, job>>
             \/ pc' = "open" /\ job' = job + 1 /\ job < MaxJobs
      BY <1>1, CaptureAssumption DEF ReqHn, disk
    <2>2. fds = {} /\ job \in 0 .. MaxJobs
      BY <1>0, <2>1 DEF FilesInv, OpenFiles
    <2>3. fds = 1 .. 0 /\ 0 \in 0 .. NumFiles - 1
      BY <2>2, CaptureAssumption
    <2>4. OpenFiles'
      BY <2>1, <2>2, <2>3 DEF OpenFiles
    <2>5. job' \in 0 .. MaxJobs /\ (pc' = "open" => job' >= 1)
      BY <2>1, <2>2
    <2> QED BY <1>0, <2>1, <2>4, <2>5 DEF FilesInv, StatsNotMixed
  <1>2. CASE OpenFile
    BY <1>0, <1>2, OpenFileFiles
  <1>3. CASE UnlinkStat
    <2>1. CASE stat' = NoFile /\ pc' = "active" /\ UNCHANGED <<data, fds, job>>
      BY <1>0, <1>3, <2>1 DEF UnlinkStat, FilesInv, OpenFiles, StatsNotMixed
    <2>2. CASE GiveUp("EFAIL", data) /\ UNCHANGED <<stat, job>>
      <3>1. pc = "unlink" /\ data \in [Files -> FileType \cup {NoFile}]
        BY <1>0, <1>3 DEF UnlinkStat, FilesInv
      <3> QED BY <1>0, <2>2, <3>1, GiveUpFiles
    <2> QED BY <1>3, <2>1, <2>2 DEF UnlinkStat
  <1>4. CASE Lose
    BY <1>0, <1>4 DEF Lose, disk, FilesInv, OpenFiles, StatsNotMixed
  <1>5. CASE PktHn
    <2>0. /\ pc = "active" /\ UNCHANGED <<stat, job>> /\ fds = Files
          /\ data \in [Files -> FileType \cup {NoFile}]
          /\ \A f \in Files : data[f] \in FileType /\ data[f].job = job
      BY <1>0, <1>5 DEF PktHn, FilesInv, OpenFiles
    <2>1. CASE UNCHANGED <<pc, fds, data>>
      BY <1>0, <2>0, <2>1 DEF FilesInv, OpenFiles, StatsNotMixed
    <2>2. /\ Written(data) \in [Files -> FileType \cup {NoFile}]
          /\ \A f \in Files : Written(data)[f] \in FileType /\ Written(data)[f].job = job
      BY <2>0, WrittenFields
    <2>3. CASE data' = Written(data) /\ UNCHANGED <<pc, fds>>
      BY <1>0, <2>0, <2>2, <2>3 DEF FilesInv, OpenFiles, StatsNotMixed
    <2>4. CASE data' = Closed(Written(data)) /\ fds' = {} /\ pc' = "stats"
      BY <1>0, <2>0, <2>2, <2>4, CloseFiles
    <2> QED BY <1>5, <2>1, <2>3, <2>4 DEF PktHn, Record, Finish
  <1>6. CASE StatsWrite
    <2>1. /\ pc \in {"stats", "finstats"} /\ pc' \in {"reply", "finreply"}
          /\ UNCHANGED <<fds, data, job>>
      BY <1>6 DEF StatsWrite
    <2>2. /\ fds = {} /\ job \in 1 .. MaxJobs /\ stat = NoFile
          /\ \A f \in Files : data[f].job = job /\ ~data[f].open
      BY <1>0, <2>1, CaptureAssumption DEF FilesInv, OpenFiles
    <2>3. OpenFiles'
      BY <2>1, <2>2 DEF OpenFiles
    <2>4. CASE stat' = NoFile
      BY <1>0, <2>1, <2>2, <2>3, <2>4 DEF FilesInv, StatsNotMixed
    <2>5. ASSUME NEW n \in 0 .. 3, stat' = [job |-> job, n |-> n, st |-> st]
          PROVE  FilesInv'
      <3>1. stat' \in StatType /\ stat'.job = job /\ stat'.st = st
        BY <1>0, <2>2, <2>5 DEF StatType
      <3>2. StatsNotMixed'
        BY <2>1, <2>2, <3>1 DEF StatsNotMixed
      <3> QED BY <1>0, <2>1, <2>2, <2>3, <3>1, <3>2 DEF FilesInv
    <2>6. ShortLens \subseteq 0 .. 3 /\ 3 \in 0 .. 3
      BY CaptureAssumption
    <2> QED BY <1>6, <2>2, <2>4, <2>5, <2>6 DEF StatsWrite
  <1>7. CASE Reply
    BY <1>0, <1>7 DEF Reply, disk, FilesInv, OpenFiles, StatsNotMixed
  <1>8. CASE Fin
    <2>1. CASE pc = "idle" /\ pc' = "down" /\ UNCHANGED <<fds, data, stat, job>>
      BY <1>0, <2>1 DEF FilesInv, OpenFiles, StatsNotMixed
    <2>2. CASE /\ pc = "active" /\ pc' = "finstats" /\ data' = Closed(data) /\ fds' = {}
               /\ UNCHANGED <<stat, job>>
      <3>1. /\ data \in [Files -> FileType \cup {NoFile}]
            /\ \A f \in Files : data[f] \in FileType /\ data[f].job = job
        BY <1>0, <2>2 DEF FilesInv, OpenFiles
      <3> QED BY <1>0, <2>2, <3>1, CloseFiles
    <2> QED BY <1>8, <2>1, <2>2 DEF Fin
  <1>9. CASE FinReply
    BY <1>0, <1>9 DEF FinReply, disk, FilesInv, OpenFiles, StatsNotMixed
  <1>10. CASE Kill \/ OpenAssert
    BY <1>0, <1>10 DEF Kill, OpenAssert, Die, disk, FilesInv, OpenFiles, StatsNotMixed
  <1>11. CASE Restart
    BY <1>0, <1>11 DEF Restart, disk, FilesInv, OpenFiles, StatsNotMixed
  <1>12. CASE UNCHANGED vars
    BY <1>0, <1>12 DEF vars, disk, FilesInv, OpenFiles, StatsNotMixed
  <1> QED
    BY <1>1, <1>2, <1>3, <1>4, <1>5, <1>6, <1>7, <1>8, <1>9, <1>10, <1>11, <1>12 DEF Next

-----------------------------------------------------------------------------
LEMMA CaptureInvInit == Init => CaptureInv
  <1> SUFFICES ASSUME Init PROVE CaptureInv
    OBVIOUS
  <1>1. /\ pc = "idle" /\ req = NoReq /\ client = "none" /\ status = "OK"
        /\ ~recording /\ recording \in BOOLEAN
        /\ st = NoStats /\ stream = NoStream /\ tick = NoTick
        /\ fds = {} /\ data = [f \in Files |-> NoFile] /\ stat = NoFile
        /\ src = "none" /\ miss \in BOOLEAN
        /\ job = 0 /\ got = [ticks |-> 0, events |-> 0]
        /\ tickAt = 0 /\ evFirst = 0 /\ evLast = 0
        /\ intact \in BOOLEAN /\ spoilt \in BOOLEAN
    BY DEF Init
  <1>2. ThreadInv
    BY <1>1 DEF ThreadInv, Answered
  <1>3. MemoryInv
    <2>1. /\ st \in StatsType /\ st.frames = 0 /\ stream \in StreamType
          /\ stream.size = 0 /\ stream.cur_size = 0
          /\ tick \in TickType /\ tick.nframes = 0 /\ MaxFrames \in Nat
      BY <1>1, ClearFields, CaptureAssumption
    <2>2. StreamAsserts /\ Followed /\ FrameNumbers /\ EventSpan
      BY <1>1, <2>1 DEF StreamAsserts, Followed, FrameNumbers, EventSpan
    <2>3. got \in [ticks : Nat, events : Nat]
      BY <1>1
    <2> QED BY <1>1, <2>1, <2>2, <2>3 DEF MemoryInv
  <1>4. FilesInv
    <2>1. OpenFiles /\ StatsNotMixed
      BY <1>1 DEF OpenFiles, StatsNotMixed
    <2> QED BY <1>1, <2>1, CaptureAssumption DEF FilesInv
  <1> QED BY <1>2, <1>3, <1>4 DEF CaptureInv

LEMMA CaptureInvariant == Spec => []CaptureInv
  <1>1. CaptureInv /\ [Next]_vars => CaptureInv'
    BY ThreadStep, MemoryStep, FilesStep DEF CaptureInv
  <1> QED BY <1>1, CaptureInvInit, PTL DEF Spec

(***************************************************************************)
(* The task's variables have their types: in particular the sizes of a     *)
(* stream and the frame numbers of a tick stay within their fields.        *)
(***************************************************************************)
THEOREM CaptureTypes == Spec => []TypeOK
  <1>1. CaptureInv => TypeOK
    BY DEF CaptureInv, ThreadInv, MemoryInv, FilesInv, TypeOK, StreamType, TickType, StatType
  <1> QED BY <1>1, CaptureInvariant, PTL

(***************************************************************************)
(* Every request is answered before the next is received or the task ends, *)
(* whichever step fails.                                                   *)
(***************************************************************************)
THEOREM RequestsAnswered == Spec => []Answered
  <1>1. CaptureInv => Answered
    BY DEF CaptureInv, ThreadInv
  <1> QED BY <1>1, CaptureInvariant, PTL

(***************************************************************************)
(* However a job ended, the next finds no open file, no stream and no tick,*)
(* as task_cap_req_hn and s_open assert.                                   *)
(***************************************************************************)
THEOREM JobsStartClean == Spec => []IdleIsClean
  <1>1. CaptureInv => IdleIsClean
    BY ClearFields
    DEF CaptureInv, ThreadInv, MemoryInv, FilesInv, OpenFiles, IdleIsClean
  <1> QED BY <1>1, CaptureInvariant, PTL

(***************************************************************************)
(* The packet handler's assertions about the ongoing stream hold, for      *)
(* streams of any size and any losses.                                     *)
(***************************************************************************)
THEOREM StreamsConsistent == Spec => []StreamAsserts
  <1>1. CaptureInv => StreamAsserts
    BY DEF CaptureInv, MemoryInv
  <1> QED BY <1>1, CaptureInvariant, PTL

(***************************************************************************)
(* An entry of the tick index, though parts of it may be left over from an *)
(* earlier tick, says which event frames its tick has to a reader who      *)
(* knows the tick's own frame.                                             *)
(***************************************************************************)
THEOREM TickIndexRight == Spec => []TickIndex
  <1>1. CaptureInv => TickIndex
    <2> SUFFICES ASSUME MemoryInv, recording PROVE TickIndex
      BY DEF CaptureInv, TickIndex
    <2>1. /\ tick.nframes \in Nat /\ tick.start_frame \in Nat /\ tick.stop_frame \in Nat
          /\ tickAt \in Nat /\ EventSpan
      BY CaptureAssumption DEF MemoryInv, TickType
    <2>2. CASE tick.nframes = 0
      BY <2>1, <2>2 DEF EventSpan, TickIndex
    <2>3. CASE tick.nframes = 1
      BY <2>1, <2>3 DEF EventSpan, TickIndex
    <2>4. CASE tick.nframes > 1
      BY <2>1, <2>4 DEF EventSpan, TickIndex
    <2> QED BY <2>1, <2>2, <2>3, <2>4
  <1> QED BY <1>1, CaptureInvariant, PTL

(***************************************************************************)
(* Wherever the process is killed, a stats file lies beside its own job's  *)
(* closed files, or files without a frame.                                 *)
(***************************************************************************)
THEOREM StatsOfOneJob == Spec => []StatsNotMixed
  <1>1. CaptureInv => StatsNotMixed
    BY DEF CaptureInv, FilesInv
  <1> QED BY <1>1, CaptureInvariant, PTL

(***************************************************************************)
(* An indexed trace or histogram is whole: a stream of several frames is   *)
(* completed only if none of its frames is missing, bad frames excepted.   *)
(***************************************************************************)
THEOREM StreamsWhole == Spec => StreamWhole
  <1> DEFINE P == Completes => (intact /\ ~miss) \/ spoilt
  <1>1. CaptureInv /\ [Next]_vars => P
    <2> SUFFICES ASSUME CaptureInv, [Next]_vars, Completes
                 PROVE  (intact /\ ~miss) \/ spoilt
      OBVIOUS
    <2>0. /\ st'.frames > st.frames /\ stream.size > 0 /\ stream'.size = 0
          /\ ~stream'.discard
      BY DEF Completes
    <2>1. MemoryInv /\ recording
      BY <2>0, ClearFields DEF CaptureInv, MemoryInv
    <2>2. pc \notin {"idle", "open", "unlink", "down"} /\ stream' # stream
      BY <2>0, <2>1 DEF MemoryInv
    <2>3. ~Fresh
      <3>1. Fresh => st'.frames = 0
        BY ClearFields DEF Fresh
      <3>2. st.frames \in Nat
        BY <2>1 DEF MemoryInv, StatsType
      <3> QED BY <2>0, <3>1, <3>2
    <2>4. PktHn
      BY <2>2, <2>3
      DEF Next, vars, ReqHn, OpenFile, UnlinkStat, Lose, StatsWrite, Reply, Fin, FinReply,
          Kill, OpenAssert, Die, Restart, memory
    <2>5. PICK fr \in Frames, bad \in BOOLEAN : Record(fr, bad)
      BY <2>1, <2>4 DEF PktHn
    <2>6. stream' = NextStream(fr)
      BY <2>2, <2>5 DEF Record
    <2>7. Continues(fr)
      BY <2>0, <2>1, <2>6, NextStreamFields
    <2>8. ~miss /\ (intact \/ spoilt)
      BY <2>0, <2>1, <2>7 DEF Continues, MemoryInv, Followed
    <2> QED BY <2>8
  <1> QED BY <1>1, CaptureInvariant, PTL DEF Spec, StreamWhole

-----------------------------------------------------------------------------
(***************************************************************************)
(* What a job has counted.                                                 *)
(***************************************************************************)
LEMMA EndedCount ==
  ASSUME pc' \in {"idle", "down", "finstats", "finreply"}
  PROVE  CountInv'
  BY DEF CountInv, OkMeansCaptured

\* The job goes on, and its counters stay as they are
LEMMA KeepsCount ==
  ASSUME CountInv, UNCHANGED <<st, got>>, pc \in {"unlink", "active"},
         pc' \in {"unlink", "active"}
  PROVE  CountInv'
  BY DEF CountInv, OkMeansCaptured

LEMMA RecordCount ==
  ASSUME CaptureInv, CountInv, NEW fr \in Frames, NEW bad \in BOOLEAN,
         pc = "active", Record(fr, bad), UNCHANGED req
  PROVE  CountInv'
  <1> DEFINE t == IF fr.type = "tick" /\ ~bad THEN 1 ELSE 0
             e == IF bad THEN 0 ELSE NumEvents(fr)
  <1>1. /\ st' = [ticks |-> st.ticks + t, events |-> st.events + e,
                  frames |-> st.frames + 1]
        /\ got' = [ticks |-> got.ticks + t, events |-> got.events + e]
    BY DEF Record, Count
  <1>2. st.ticks = got.ticks /\ st.events = got.events
    BY DEF CountInv
  <1>3. st'.ticks = got'.ticks /\ st'.events = got'.events
    <2> HIDE DEF t, e
    <2> QED BY <1>1, <1>2
  <1>4. \/ pc' = "active"
        \/ /\ pc' = "stats"
           /\ ~failed' => Done(fr, bad)
    BY DEF Record, Finish
  <1>5. OkMeansCaptured'
    BY <1>3, <1>4 DEF OkMeansCaptured, Done
  <1> QED BY <1>1, <1>3, <1>4, <1>5 DEF CountInv

LEMMA CountStep == CaptureInv /\ CountInv /\ [Next]_vars => CountInv'
  <1> SUFFICES ASSUME CaptureInv, CountInv, [Next]_vars PROVE CountInv'
    OBVIOUS
  <1>0. MemoryInv /\ ThreadInv /\ FilesInv
    BY DEF CaptureInv
  <1>1. CASE ReqHn
    <2>1. pc = "idle" /\ fds = {} /\ UNCHANGED fds
      BY <1>0, <1>1 DEF ReqHn, FilesInv, OpenFiles
    <2>2. CASE pc' = pc
      BY <2>1, <2>2, EndedCount
    <2>3. CASE pc' = "open" /\ got' = [ticks |-> 0, events |-> 0]
      <3>1. got'.ticks = 0 /\ got'.events = 0
        BY <2>3
      <3> QED BY <2>1, <2>3, <3>1 DEF CountInv, OkMeansCaptured
    <2> QED BY <1>1, <2>2, <2>3 DEF ReqHn
  <1>2. CASE OpenFile
    <2>1. /\ pc = "open" /\ pc' \in {"open", "unlink", "idle"} /\ StatsClear
          /\ UNCHANGED <<st, got>>
      BY <1>2 DEF OpenFile, GiveUp, SendErr, memory, history
    <2>2. st.ticks = 0 /\ st.events = 0 /\ got.ticks = 0 /\ got.events = 0
      BY <2>1, ClearFields DEF StatsClear, CountInv
    <2> QED BY <2>1, <2>2 DEF CountInv, OkMeansCaptured, StatsClear
  <1>3. CASE UnlinkStat
    <2>1. /\ pc = "unlink" /\ pc' \in {"active", "idle"} /\ UNCHANGED <<st, got>>
      BY <1>3 DEF UnlinkStat, GiveUp, SendErr, memory, history
    <2> QED BY <2>1, KeepsCount, EndedCount
  <1>4. CASE Lose
    <2>1. pc = "active" /\ UNCHANGED <<st, got, pc>>
      BY <1>4 DEF Lose, memory
    <2> QED BY <2>1, KeepsCount
  <1>5. CASE PktHn
    <2>1. PICK fr \in Frames, bad \in BOOLEAN :
            \/ Record(fr, bad)
            \/ UNCHANGED <<pc, memory, history>>
      BY <1>5 DEF PktHn
    <2>2. pc = "active" /\ UNCHANGED req
      BY <1>5 DEF PktHn
    <2>3. CASE Record(fr, bad)
      BY <2>2, <2>3, RecordCount
    <2>4. CASE UNCHANGED <<pc, memory, history>>
      BY <2>2, <2>4, KeepsCount DEF memory, history
    <2> QED BY <2>1, <2>3, <2>4
  <1>6. CASE StatsWrite
    <2>1. /\ \/ pc = "stats" /\ pc' = "reply"
             \/ pc = "finstats" /\ pc' = "finreply"
          /\ UNCHANGED <<st, got, req, failed>>
          /\ status' = "OK" => status = "OK"
      BY <1>6 DEF StatsWrite, memory, history
    <2> QED BY <2>1 DEF CountInv, OkMeansCaptured
  <1>7. CASE Reply \/ FinReply \/ Restart
    BY <1>7, EndedCount DEF Reply, FinReply, Restart
  <1>8. CASE Fin
    BY <1>8, EndedCount DEF Fin
  <1>9. CASE Kill \/ OpenAssert
    BY <1>9, EndedCount DEF Kill, OpenAssert, Die
  <1>10. CASE UNCHANGED vars
    BY <1>10 DEF vars, memory, history, CountInv, OkMeansCaptured, StatsClear
  <1> QED
    BY <1>1, <1>2, <1>3, <1>4, <1>5, <1>6, <1>7, <1>8, <1>9, <1>10 DEF Next

(***************************************************************************)
(* A job answered with OK none of whose writes failed has recorded, since  *)
(* its own beginning, the starting tick and as many ticks and events as    *)
(* were asked for, whatever jobs came before it and whatever counters a    *)
(* status query of a cut stats file has left: s_open asserts that there    *)
(* are none.                                                               *)
(***************************************************************************)
THEOREM JobsComplete == Spec => []OkMeansCaptured
  <1>1. Init => CountInv
    BY DEF Init, CountInv, OkMeansCaptured
  <1>2. CaptureInv /\ CountInv /\ [Next]_vars => CountInv'
    BY CountStep
  <1>3. CountInv => OkMeansCaptured
    BY DEF CountInv
  <1> QED BY <1>1, <1>2, <1>3, CaptureInvariant, PTL DEF Spec

=============================================================================
