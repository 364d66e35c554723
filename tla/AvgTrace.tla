------------------------------ MODULE AvgTrace ------------------------------
(***************************************************************************)
(* The average trace task (tesd_task_avgtr.c): a client asks for the next  *)
(* average trace and says how long it will wait; the task answers with the *)
(* trace, with an error, or when the timer goes off.  Its front end is not *)
(* polled while a job lasts (automute), so there is one job at a time.     *)
(*                                                                         *)
(* Frames carry one unit of payload, so a trace of len frames has size     *)
(* len.  Time is counted in units of which a second has PerSec.            *)
(***************************************************************************)
EXTENDS Fpga, Integers, Sequences

CONSTANTS
  Timeouts,   \* bound: timeouts, in seconds, that clients ask for
  PerSec,     \* units of time in a second (1000)
  Width       \* delays are computed modulo this (2^32)

ASSUME AvgAssumption ==
  /\ Timeouts \subseteq Nat
  /\ PerSec \in Nat \ {0} /\ Width \in Nat \ {0}

VARIABLES
  asrc,      \* the frame that will be sent next
  job,       \* "none", "active", "stuck" (see Deactivated) or "gone"
  timer,     \* the zloop timer: time left, or -1
  trace,     \* struct s_data_t: the trace being put together
  aprev,     \* prev_pseq_tr
  client,    \* the client: "idle" or "waiting" for its answer
  asked,     \* history: the timeout asked for last
  waited,    \* history: time since then
  reply,     \* the last answer, with lost
  alost,     \* history: frames were lost or others seen since the header
  stale,     \* history: the job began with an unfinished trace
  unbroken   \* history: this trace's frames so far came good during the job

avars == <<asrc, job, timer, trace, aprev, client, asked, waited, reply, alost,
           stale, unbroken>>

NoTimer == -1
NoTrace == [recording |-> FALSE, size |-> 0, buf |-> <<>>]

Answer(s, b) ==
  [status |-> s, buf |-> b, lost |-> alost /\ trace.recording]

AvgInit ==
  /\ asrc \in FirstFrames
  /\ job = "none" /\ timer = NoTimer /\ client = "idle"
  /\ trace = NoTrace
  /\ aprev = 0
  /\ asked = 0 /\ waited = 0
  /\ reply = [status |-> "none", buf |-> <<>>, lost |-> FALSE]
  /\ alost = FALSE /\ stale = FALSE /\ unbroken = FALSE

\* The packet handler is called: task->active
Running == job \in {"active", "stuck"}

\* task_deactivate.  If the front end cannot be polled again the task stays
\* active, and no caller looks at the result.
Deactivated(j) == j \in {"none", "stuck"}

\* A REP socket sends only to a client that waits
Send(s, b) == reply' = IF client = "waiting" THEN Answer(s, b) ELSE reply

-----------------------------------------------------------------------------
\* 1000 * timeout, in 32 bits
Delay(t) == (PerSec * t) % Width

\* task_avgtr_req_hn.  A timer that cannot be set ends the task's loop, with
\* no answer and no SIG_DIED.
AvgReq ==
  /\ job = "none" /\ client = "idle"
  /\ \E t \in Timeouts :
       /\ asked' = t /\ waited' = 0
       /\ \/ /\ t = 0
             /\ reply' = Answer("EINV", <<>>)
             /\ UNCHANGED <<job, timer, client, stale>>
          \/ /\ t > 0
             /\ client' = "waiting" /\ stale' = trace.recording
             /\ \/ job' = "active" /\ timer' = Delay(t)
                \/ job' = "gone" /\ UNCHANGED timer
             /\ UNCHANGED reply
  /\ unbroken' = FALSE
  /\ UNCHANGED <<asrc, trace, aprev, alost>>

Elapse ==
  /\ timer > 0
  /\ timer' = timer - 1
  /\ waited' = waited + 1
  /\ UNCHANGED <<asrc, job, trace, aprev, client, asked, reply, alost, stale,
                 unbroken>>

\* Faulty variant: the client is not told if a trace is being recorded
AvgTimeoutSilent ==
  /\ timer = 0 /\ job # "gone"
  /\ timer' = NoTimer
  /\ Deactivated(job')
  /\ IF trace.recording THEN UNCHANGED <<client, reply>>
                        ELSE client' = "idle" /\ Send("ETOUT", <<>>)
  /\ UNCHANGED <<asrc, trace, aprev, asked, waited, alost, stale, unbroken>>

\* s_timeout_hn: a timer that is set fires, whatever the job does.  The
\* trace being recorded stays as it is.
AvgTimeout ==
  /\ timer = 0 /\ job # "gone"
  /\ timer' = NoTimer
  /\ Deactivated(job')
  /\ client' = "idle"
  /\ Send("ETOUT", <<>>)
  /\ UNCHANGED <<asrc, trace, aprev, asked, waited, alost, stale, unbroken>>

-----------------------------------------------------------------------------
\* A header begins a trace, unless one is being recorded
Starts(f) == IsHeader(f) /\ ~trace.recording

\* Faulty variant: the size is taken to be without the header
StartedShort(f) ==
  IF Starts(f) THEN [trace EXCEPT !.recording = TRUE, !.size = f.len - 1] ELSE trace

Started(f) ==
  IF Starts(f) THEN [trace EXCEPT !.recording = TRUE, !.size = f.len] ELSE trace

\* Faulty variant: the sequence is not checked
InSequenceAlways(tr, f) == TRUE

InSequence(tr, f) == tr.buf = <<>> \/ f.pseq = aprev + 1

\* Faulty variant: the timer is not cancelled
FinishLeavesTimer(status, b) ==
  /\ trace' = NoTrace
  /\ Deactivated(job') /\ client' = "idle"
  /\ Send(status, b)
  /\ UNCHANGED timer

\* The end of task_avgtr_pkt_hn: answer, reset, TASK_SLEEP
Finish(status, b) ==
  /\ trace' = NoTrace
  /\ Deactivated(job') /\ client' = "idle" /\ timer' = NoTimer
  /\ Send(status, b)

\* task_avgtr_pkt_hn on an average trace frame
AvgPkt(f, err) ==
  LET tr == Started(f)
      b  == Append(tr.buf, f)
  IN
  \/ /\ ~tr.recording
     /\ UNCHANGED <<trace, job, client, timer, reply>>
  \/ /\ tr.recording /\ (err \/ ~InSequence(tr, f))
     /\ Finish("EERR", <<>>)
  \/ /\ tr.recording /\ ~err /\ InSequence(tr, f)
     /\ IF Len(b) = tr.size
          THEN Finish("OK", b)
          ELSE trace' = [tr EXCEPT !.buf = b] /\ UNCHANGED <<job, client, timer, reply>>

\* A frame of an average trace arrives or is lost; an inactive task sees
\* nothing
AvgFrame ==
  LET f == asrc IN
  /\ Sends(f) /\ job # "gone"
  /\ asrc' \in NextFrames(f)
  /\ \E fate \in Fates :
       LET seen == Running /\ fate # "lost" IN
       /\ alost' = IF seen THEN alost /\ ~Starts(f) ELSE TRUE
       /\ unbroken' = (/\ seen /\ fate = "good" /\ client = "waiting"
                       /\ IF IsHeader(f) THEN Starts(f) ELSE unbroken)
       /\ aprev' = IF seen THEN f.pseq ELSE aprev
       /\ IF seen THEN AvgPkt(f, fate = "bad")
                  ELSE UNCHANGED <<trace, job, client, timer, reply>>
  /\ UNCHANGED <<asked, waited, stale>>

\* A long trace of another kind: only its sequence number is noted
OtherTrace ==
  /\ Running
  /\ \E p \in {n - 1 : n \in Lens} : aprev' = p
  /\ alost' = TRUE /\ unbroken' = FALSE
  /\ UNCHANGED <<asrc, job, timer, trace, client, asked, waited, reply, stale>>

AvgNext == AvgReq \/ Elapse \/ AvgTimeout \/ AvgFrame \/ OtherTrace

AvgSpec == AvgInit /\ [][AvgNext]_avars

\* Time passes, and a zloop serves a timer that is due
AvgFairness == WF_avars(Elapse) /\ WF_avars(AvgTimeout)

-----------------------------------------------------------------------------
AvgTypeOK ==
  /\ asrc \in Frames
  /\ job \in {"none", "active", "stuck", "gone"} /\ client \in {"idle", "waiting"}
  /\ timer \in Nat \cup {NoTimer}
  /\ trace \in [recording : BOOLEAN, size : Nat, buf : Seq(Frames)]
  /\ aprev \in Nat /\ asked \in Nat /\ waited \in Nat
  /\ reply \in [status : {"none", "OK", "EERR", "ETOUT", "EINV"},
                buf : Seq(Frames), lost : BOOLEAN]
  /\ alost \in BOOLEAN /\ stale \in BOOLEAN /\ unbroken \in BOOLEAN

(***************************************************************************)
(* The last frame and the timer do not both answer, nor does a timer       *)
(* outlive its job: a timer is set exactly while a job lasts, and a job    *)
(* lasts only while its client waits.                                      *)
(***************************************************************************)
AvgOneAnswer ==
  /\ timer # NoTimer <=> job = "active"
  /\ job = "active" => client = "waiting"
  /\ client = "waiting" => job \in {"active", "gone"}

(***************************************************************************)
(* A trace that is answered with OK is one whole trace of the sender,      *)
(* unless frames were lost in its middle or other long traces came between *)
(* them, also if the job took over what an earlier one left when it timed  *)
(* out.                                                                    *)
(***************************************************************************)
WholeTrace(b) ==
  /\ Len(b) = b[1].len
  /\ \A k \in 1 .. Len(b) : b[k].id = b[1].id /\ b[k].pseq = k - 1

AvgWhole ==
  reply.status = "OK" => reply.lost \/ WholeTrace(reply.buf)

(***************************************************************************)
(* A trace all of whose frames come good during a job, from its header on, *)
(* answers the job.                                                        *)
(***************************************************************************)
AvgServed ==
  [][unbroken' /\ IsLast(asrc) /\ asrc' # asrc
       => reply'.status = "OK" /\ client' = "idle" /\ WholeTrace(reply'.buf)]_avars

(***************************************************************************)
(* Every client is answered, unless the task's timer could not be set.     *)
(***************************************************************************)
AvgAnswered == client = "waiting" ~> client = "idle" \/ job = "gone"

-----------------------------------------------------------------------------
(***************************************************************************)
(* dbg_assert ( ! trace->recording ) in the request handler: a job does    *)
(* not begin with what another left.                                       *)
(***************************************************************************)
AvgStartsClean == ~stale

(***************************************************************************)
(* A client is not told of a timeout before the number of seconds that it  *)
(* asked for is over.  The delay in milliseconds is computed in 32 bits.   *)
(***************************************************************************)
AvgFullWait ==
  [][reply' # reply /\ reply'.status = "ETOUT" => waited >= PerSec * asked]_avars
=============================================================================
