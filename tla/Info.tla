-------------------------------- MODULE Info --------------------------------
(***************************************************************************)
(* The info task (tesd_task_info.c): it counts the frames that come during *)
(* the time a client asks for.                                             *)
(***************************************************************************)
EXTENDS Integers

CONSTANTS
  FSeqMod,     \* frame sequence numbers are taken modulo this (2^16)
  Losses,      \* bound: how many frames may be lost in a row
  EventNums,   \* bound: what tespkt_event_nums may return
  MaxSpan      \* bound: frames sent during a job

ASSUME InfoAssumption ==
  /\ FSeqMod \in Nat \ {0}
  /\ Losses \subseteq Nat /\ EventNums \subseteq Nat /\ MaxSpan \in Nat

VARIABLES
  ijob,      \* "none", "active", "stuck" or "gone", as in AvgTrace; "crashed"
  info,      \* struct s_data_t
  iseq,      \* sequence number of the next frame sent
  iprev,     \* prev_fseq
  fresh,     \* just_activated: no frame has been dispatched since
  ireply,    \* the last answer's status; with OK it carries info
  seen,      \* history: frames read in this job, by kind
  nevents,   \* history: events in them
  span,      \* history: frames sent in this job from the first one read on
  wrapped    \* history: FSeqMod frames or more were lost in a row

ivars == <<ijob, info, iseq, iprev, fresh, ireply, seen, nevents, span, wrapped>>

Kinds == {"bad", "tick", "mcahdr", "mcapart", "trhdr", "trdp", "trpart", "event"}

Zero == [received |-> 0, missed |-> 0, bad |-> 0, ticks |-> 0, mcas |-> 0,
         traces |-> 0, events |-> 0]

NoneSeen == [k \in Kinds |-> 0]

InfoInit ==
  /\ ijob = "none"
  /\ info = Zero
  /\ iseq = 0 /\ iprev = 0 /\ fresh = FALSE
  /\ ireply = "none"
  /\ seen = NoneSeen /\ nevents = 0 /\ span = 0 /\ wrapped = FALSE

-----------------------------------------------------------------------------
\* task_info_req_hn: a timeout of zero is refused; a timer that cannot be
\* set ends the task's loop
InfoReq ==
  /\ ijob = "none"
  /\ \/ /\ ireply' = "EINV"
        /\ UNCHANGED <<ijob, fresh>>
     \/ /\ ijob' \in {"active", "gone"}
        /\ fresh' = TRUE
        /\ ireply' = "none"
  /\ UNCHANGED <<info, iseq, iprev, seen, nevents, span, wrapped>>

\* Faulty variant: the counters are not reset
InfoTimeoutKeeps ==
  /\ ijob = "active"
  /\ ijob' \in {"none", "stuck"}
  /\ ireply' = "OK"
  /\ seen' = NoneSeen /\ nevents' = 0 /\ span' = 0 /\ wrapped' = FALSE
  /\ UNCHANGED <<info, iseq, iprev, fresh>>

\* s_timeout_hn; task_deactivate may fail and leave the task active
InfoTimeout ==
  /\ ijob = "active"
  /\ ijob' \in {"none", "stuck"}
  /\ ireply' = "OK"
  /\ info' = Zero
  /\ seen' = NoneSeen /\ nevents' = 0 /\ span' = 0 /\ wrapped' = FALSE
  /\ UNCHANGED <<iseq, iprev, fresh>>

\* task_info_pkt_hn on a frame of a kind, after gap missed ones; n is what
\* tespkt_event_nums returns for it
Counted(kind, gap, n) ==
  LET i == [info EXCEPT !.received = @ + 1, !.missed = @ + gap] IN
  CASE kind = "bad"               -> [i EXCEPT !.bad = @ + 1]
    [] kind = "tick"              -> [i EXCEPT !.ticks = @ + 1]
    [] kind = "mcahdr"            -> [i EXCEPT !.mcas = @ + 1]
    [] kind \in {"trhdr", "trdp"} -> [i EXCEPT !.traces = @ + 1]
    [] OTHER                      -> [i EXCEPT !.events = @ + n]

\* A part of a trace has no events.  Of a part of a histogram the handler
\* asks the same, and the length is divided by what stands for an event
\* size, so any number may come out.
EventsOf(kind) == CASE kind = "trpart"  -> {0}
                    [] kind = "mcapart" -> EventNums
                    [] OTHER            -> EventNums \ {0}

\* Faulty variant: the frame itself is counted as missed
GapBeforeInclusive(cur) == IF fresh THEN 0 ELSE (cur - iprev) % FSeqMod

\* The gap before frame cur as s_task_dispatch takes it; right after
\* activation s_task_next_ring has set prev_fseq to the frame before cur
GapBefore(cur) == IF fresh THEN 0 ELSE (cur - iprev - 1) % FSeqMod

\* A frame is read, after some that were lost
InfoFrame ==
  /\ ijob \in {"active", "stuck"}
  /\ \E lost \in Losses, kind \in Kinds : \E n \in EventsOf(kind) :
       LET cur == (iseq + lost) % FSeqMod
           new == IF fresh THEN 1 ELSE lost + 1
       IN
       /\ span + new <= MaxSpan
       /\ span' = span + new
       /\ wrapped' = (wrapped \/ (~fresh /\ lost >= FSeqMod))
       /\ info' = Counted(kind, GapBefore(cur), n)
       /\ seen' = [seen EXCEPT ![kind] = @ + 1]
       /\ nevents' = IF kind = "event" THEN nevents + n ELSE nevents
       /\ iprev' = cur /\ iseq' = (cur + 1) % FSeqMod
  /\ fresh' = FALSE
  /\ UNCHANGED <<ijob, ireply>>

\* A part of a histogram in which the event size is zero: the division in
\* tespkt_event_nums ends the daemon (SIGFPE)
InfoCrash ==
  /\ ijob \in {"active", "stuck"}
  /\ ijob' = "crashed"
  /\ UNCHANGED <<info, iseq, iprev, fresh, ireply, seen, nevents, span, wrapped>>

\* Frames pass while the task is not active
InfoUnread ==
  /\ ijob = "none"
  /\ iseq' = (iseq + 1) % FSeqMod
  /\ UNCHANGED <<ijob, info, iprev, fresh, ireply, seen, nevents, span, wrapped>>

InfoNext == InfoReq \/ InfoTimeout \/ InfoFrame \/ InfoCrash \/ InfoUnread

InfoSpec == InfoInit /\ [][InfoNext]_ivars

-----------------------------------------------------------------------------
InfoTypeOK ==
  /\ ijob \in {"none", "active", "stuck", "gone", "crashed"}
  /\ info \in [DOMAIN Zero -> Nat]
  /\ iseq \in 0 .. FSeqMod - 1 /\ iprev \in 0 .. FSeqMod - 1
  /\ fresh \in BOOLEAN
  /\ ireply \in {"none", "OK", "EINV"}
  /\ seen \in [Kinds -> Nat] /\ nevents \in Nat /\ span \in Nat
  /\ wrapped \in BOOLEAN

(***************************************************************************)
(* The client gets the counts of its own job: every frame read is received *)
(* once and counted under one heading, whatever earlier jobs read, also    *)
(* when a task that could not be deactivated goes on reading.  No event is *)
(* left out, and other frames are not counted as events as long as no part *)
(* of a histogram comes; what happens then is InfoEventsExact.             *)
(***************************************************************************)
Total(s) == s["bad"] + s["tick"] + s["mcahdr"] + s["mcapart"] + s["trhdr"]
              + s["trdp"] + s["trpart"] + s["event"]

InfoCountsJob ==
  ijob \in {"active", "stuck"} =>
    /\ info.received = Total(seen)
    /\ info.bad = seen["bad"] /\ info.ticks = seen["tick"]
    /\ info.mcas = seen["mcahdr"] /\ info.traces = seen["trhdr"] + seen["trdp"]
    /\ info.events >= nevents
    /\ seen["mcapart"] = 0 => info.events = nevents

(***************************************************************************)
(* Received and missed frames together are all the frames sent from the    *)
(* first to the last one read, across the wrap-around of the sequence      *)
(* numbers and whatever passed before the job, except that a multiple of   *)
(* 2^16 frames lost in a row goes unnoticed.                               *)
(***************************************************************************)
InfoSpan ==
  ijob = "active" =>
    /\ (info.received + info.missed) % FSeqMod = span % FSeqMod
    /\ ~wrapped => info.received + info.missed = span

-----------------------------------------------------------------------------
(***************************************************************************)
(* "No. of other events: this is the number of (non-tick, non-trace)       *)
(* events."  The handler counts the parts of histograms as such.           *)
(***************************************************************************)
InfoEventsExact == ijob \in {"active", "stuck"} => info.events = nevents
=============================================================================
