------------------------------ MODULE TesCore ------------------------------
(***************************************************************************)
(* The heart of tesd: one coordinator thread, which owns the netmap rings, *)
(* and one thread per task, which reads frames straight out of the rings.  *)
(*                                                                         *)
(* Threads share memory without locks.  A task publishes, per ring, the    *)
(* index of the next frame it wants (heads), and two flags, active and     *)
(* busy.  The coordinator reads them, wakes the idle tasks through PAIR    *)
(* pipes, and gives the kernel back every slot that all active tasks are   *)
(* done with.  Each action below is what one thread does between two of    *)
(* its accesses to these variables; the accesses are taken to be           *)
(* sequentially consistent.  Reading a tail and the frames before it is    *)
(* one step: the tail moves forward only, and only the kernel moves it.    *)
(***************************************************************************)
EXTENDS TesRing, FiniteSets

CONSTANTS
  NumTasks,    \* NUM_TASKS: tasks are scanned in the order 1 .. NumTasks
  SubTasks,    \* the tasks driven by an XPUB front end with autosleep
  NumRings,    \* NUM_RINGS
  SeqMod,      \* frame sequence numbers are taken modulo this (2^16)
  MaxGap,      \* bound: frames lost on the wire before a received one
  PipeHWM,     \* bound: signals a PAIR pipe holds before a send blocks
  MaxSubs,     \* bound: subscriptions a front end counts
  Outcomes     \* what a task's pkt_handler may return

Tasks == 1 .. NumTasks
Rings == 0 .. NumRings - 1
Seqs  == 0 .. SeqMod - 1

ASSUME CoreAssumption ==
  /\ NumTasks \in Nat /\ NumTasks >= 1
  /\ NumRings \in Nat /\ NumRings >= 1
  /\ SubTasks \subseteq Tasks
  /\ SeqMod \in Nat /\ SeqMod >= 1
  /\ MaxGap \in Nat /\ PipeHWM \in Nat /\ MaxSubs \in Nat
  /\ Outcomes \subseteq {"more", "sleep", "error"}

VARIABLES
  head,      \* netmap: first slot the program has not given back
  tail,      \* netmap: first slot the kernel has not filled
  buf,       \* netmap: frame sequence number of the frame in each slot
  fseq,      \* netmap: sequence number of the next frame on the wire
  breach,    \* netmap: the head was set to a slot outside head .. tail
  cpc,       \* coordinator: where it is in its loop
  ct,        \* coordinator: loop variable over the tasks
  cr,        \* coordinator: loop variable over the rings
  cheads,    \* coordinator: the static array of tasks_get_heads
  updated,   \* coordinator: an active task has been found
  pc,        \* task: where its thread is
  ring,      \* task: loop variable over the rings, or ring being dispatched
  heads,     \* task: per-ring index of the next frame it wants
  active, busy, just_activated, prev_fseq,   \* task: members of task_t
  pipe,      \* task: number of SIG_WAKEUPs queued in its pipe
  nsubs,     \* task: subscriptions of its XPUB front end
  synced     \* history: see Synced below

netmap == <<head, tail, buf, fseq, breach>>
coord  == <<cpc, ct, cr, cheads, updated>>
task   == <<pc, ring, heads, active, busy, just_activated, prev_fseq,
            pipe, nsubs, synced>>
vars   == <<netmap, coord, task>>

(***************************************************************************)
(* Unsigned arithmetic on frame sequence numbers.                          *)
(***************************************************************************)
ThresGap == SeqMod \div 2 - 1            \* (uint16_t)~0 >> 1
Gap(cur, prev) == (cur - prev - 1) % SeqMod

(***************************************************************************)
(* A task is synced while it has been active since an activation that did  *)
(* not overlap a pass of the coordinator's handler s_new_pkts_hn.          *)
(***************************************************************************)
Activating(t) == pc[t] = "activate"
Synced(t) == active[t] /\ synced[t] /\ ~Activating(t)

SigDied(t)    == pc[t] \in {"died", "gone"}   \* SIG_DIED is in the pipe
Unread(t, r)  == SlotsFrom(heads[t][r], tail[r])

-----------------------------------------------------------------------------
Init ==
  /\ head = [r \in Rings |-> 0]
  /\ tail = [r \in Rings |-> 0]
  /\ buf = [r \in Rings |-> [i \in Slots |-> 0]]
  /\ fseq = 0
  /\ breach = FALSE
  /\ cpc = "poll"
  /\ ct = 1
  /\ cr = 0
  /\ cheads = [r \in Rings |-> 0]
  /\ updated = FALSE
  /\ pc = [t \in Tasks |-> "idle"]
  /\ ring = [t \in Tasks |-> 0]
  /\ heads = [t \in Tasks |-> [r \in Rings |-> 0]]
  /\ active = [t \in Tasks |-> FALSE]
  /\ busy = [t \in Tasks |-> FALSE]
  /\ just_activated = [t \in Tasks |-> FALSE]
  /\ prev_fseq = [t \in Tasks |-> 0]
  /\ pipe = [t \in Tasks |-> 0]
  /\ nsubs = [t \in Tasks |-> 0]
  /\ synced = [t \in Tasks |-> FALSE]

-----------------------------------------------------------------------------
(***************************************************************************)
(* The kernel.  It moves the tail only while the coordinator is in poll,   *)
(* and always leaves one slot unused.  A head outside head .. tail breaks  *)
(* netmap's contract: nothing is received after that.                      *)
(***************************************************************************)
KernelRx(r) ==
  /\ cpc = "poll" /\ ~breach
  /\ Following(tail[r]) # head[r]
  /\ \E gap \in 0 .. MaxGap :
       /\ buf' = [buf EXCEPT ![r][tail[r]] = (fseq + gap) % SeqMod]
       /\ fseq' = (fseq + gap + 1) % SeqMod
  /\ tail' = [tail EXCEPT ![r] = Following(@)]
  /\ UNCHANGED <<head, breach, coord, task>>

-----------------------------------------------------------------------------
(***************************************************************************)
(* The coordinator: tesd.c, and the coordinator API of tesd_tasks.c.       *)
(***************************************************************************)

\* zloop calls s_new_pkts_hn when some ring has frames; a SIG_DIED is seen
\* first, because the pipes were registered before the interface.
BeginPass ==
  /\ cpc = "poll" /\ ~breach
  /\ \A t \in Tasks : ~SigDied(t)
  /\ \E r \in Rings : head[r] # tail[r]
  /\ cpc' = "scan"
  /\ updated' = FALSE
  /\ synced' = [t \in Tasks |-> synced[t] /\ ~Activating(t)]
  /\ UNCHANGED <<netmap, ct, cr, cheads, pc, ring, heads, active, busy,
                 just_activated, prev_fseq, pipe, nsubs>>

\* The coordinator goes on to the next task, or to what follows its loop
NextTask(again, after) ==
  IF ct = NumTasks THEN ct' = 1 /\ cpc' = after ELSE ct' = ct + 1 /\ cpc' = again

\* Faulty variant: only the tasks that would be woken are looked at
ScanTaskIdleOnly ==
  /\ cpc = "scan"
  /\ IF active[ct] /\ ~busy[ct] THEN cpc' = "read" /\ UNCHANGED ct
                                 ELSE NextTask("scan", "wake")
  /\ UNCHANGED <<netmap, cr, cheads, updated, task>>

\* tasks_get_heads: is task ct active?
ScanTask ==
  /\ cpc = "scan"
  /\ IF active[ct] THEN cpc' = "read" /\ UNCHANGED ct ELSE NextTask("scan", "wake")
  /\ UNCHANGED <<netmap, cr, cheads, updated, task>>

\* tasks_get_heads: keep the earlier of heads[cr] and the task's own
ReadHead ==
  /\ cpc = "read"
  /\ cheads' = [cheads EXCEPT ![cr] =
       IF updated THEN EarlierId(head[cr], @, heads[ct][cr]) ELSE heads[ct][cr]]
  /\ IF cr + 1 \in Rings
       THEN cr' = cr + 1 /\ UNCHANGED <<cpc, ct, updated>>
       ELSE cr' = 0 /\ updated' = TRUE /\ NextTask("scan", "wake")
  /\ UNCHANGED <<netmap, task>>

\* tasks_wakeup: reads active, then busy, then signals the task, one by
\* one.  A send blocks while the pipe is full or has no peer.
WakeTask ==
  /\ \/ /\ cpc = "wake" /\ active[ct]
        /\ cpc' = "check" /\ UNCHANGED <<ct, pipe>>
     \/ /\ cpc = "check" /\ ~busy[ct]
        /\ cpc' = "signal" /\ UNCHANGED <<ct, pipe>>
     \/ /\ cpc = "signal" /\ pipe[ct] < PipeHWM /\ pc[ct] # "gone"
        /\ pipe' = [pipe EXCEPT ![ct] = @ + 1]
        /\ NextTask("wake", "release")
     \/ /\ \/ cpc = "wake" /\ ~active[ct]
           \/ cpc = "check" /\ busy[ct]
        /\ NextTask("wake", "release") /\ UNCHANGED pipe
  /\ UNCHANGED <<netmap, cr, cheads, updated, pc, ring, heads, active,
                 busy, just_activated, prev_fseq, nsubs, synced>>

\* Faulty variant: the ring's own head instead of the tasks'
NewHeadStale(r) == IF updated THEN head[r] ELSE tail[r]

NewHead(r) == IF updated THEN cheads[r] ELSE tail[r]

\* goto_buf and release_done_buf for ring cr, skipped when it is empty or
\* when nothing was processed since the last pass
Release ==
  /\ cpc = "release"
  /\ IF head[cr] # tail[cr]
       THEN /\ head' = [head EXCEPT ![cr] = NewHead(cr)]
            /\ breach' = (breach \/ ~InRange(head[cr], NewHead(cr), tail[cr]))
       ELSE UNCHANGED <<head, breach>>
  /\ IF cr + 1 \in Rings
       THEN cr' = cr + 1 /\ UNCHANGED cpc
       ELSE cr' = 0 /\ cpc' = "poll"
  /\ UNCHANGED <<tail, buf, fseq, ct, cheads, updated, task>>

\* s_die_hn ends the coordinator's loop
DieHn ==
  /\ cpc = "poll"
  /\ \E t \in Tasks : SigDied(t)
  /\ cpc' = "ended"
  /\ UNCHANGED <<netmap, ct, cr, cheads, updated, task>>

-----------------------------------------------------------------------------
(***************************************************************************)
(* A task's front ends.  Each runs in the task's own thread.               *)
(***************************************************************************)

\* task_activate up to its first read of a ring's head
BeginActivate(t) ==
  /\ pc' = [pc EXCEPT ![t] = "activate"]
  /\ ring' = [ring EXCEPT ![t] = 0]
  /\ synced' = [synced EXCEPT ![t] = (cpc = "poll")]
  /\ UNCHANGED active

\* task_deactivate
Deactivate(t) ==
  /\ active' = [active EXCEPT ![t] = FALSE]
  /\ synced' = [synced EXCEPT ![t] = FALSE]

\* Faulty variant: the front end is not muted while the task is active
ReqHnUnmuted(t) ==
  /\ t \notin SubTasks
  /\ pc[t] = "idle"
  /\ BeginActivate(t)
  /\ UNCHANGED <<netmap, coord, heads, busy, just_activated, prev_fseq,
                 pipe, nsubs>>

\* a REP front end with automute accepts a request: task_activate
ReqHn(t) ==
  /\ t \notin SubTasks
  /\ pc[t] = "idle" /\ ~active[t]
  /\ BeginActivate(t)
  /\ UNCHANGED <<netmap, coord, heads, busy, just_activated, prev_fseq,
                 pipe, nsubs>>

\* the timers of the avgtr and info tasks: task_deactivate
TimeoutHn(t) ==
  /\ t \notin SubTasks
  /\ pc[t] = "idle" /\ active[t]
  /\ Deactivate(t)
  /\ UNCHANGED <<netmap, coord, pc, ring, heads, busy, just_activated,
                 prev_fseq, pipe, nsubs>>

\* s_sub_hn: n is the number of subscriptions after the message
SubHn(t) ==
  /\ t \in SubTasks /\ pc[t] = "idle"
  /\ \E n \in {nsubs[t] - 1, nsubs[t] + 1} \cap (0 .. MaxSubs) :
       /\ nsubs' = [nsubs EXCEPT ![t] = n]
       /\ \/ n = 1 /\ BeginActivate(t)
          \/ n = 0 /\ Deactivate(t) /\ UNCHANGED <<pc, ring>>
          \/ n > 1 /\ UNCHANGED <<pc, ring, active, synced>>
  /\ UNCHANGED <<netmap, coord, heads, busy, just_activated, prev_fseq, pipe>>

\* task_activate: copy the head of one ring
CopyHead(t) ==
  /\ Activating(t) /\ ring[t] \in Rings
  /\ heads' = [heads EXCEPT ![t][ring[t]] = head[ring[t]]]
  /\ ring' = [ring EXCEPT ![t] = @ + 1]
  /\ UNCHANGED <<netmap, coord, pc, active, busy, just_activated, prev_fseq,
                 pipe, nsubs, synced>>

\* task_activate: set the flags
EndActivate(t) ==
  /\ Activating(t) /\ ring[t] = NumRings
  /\ active' = [active EXCEPT ![t] = TRUE]
  /\ just_activated' = [just_activated EXCEPT ![t] = TRUE]
  /\ pc' = [pc EXCEPT ![t] = "idle"]
  /\ ring' = [ring EXCEPT ![t] = 0]
  /\ UNCHANGED <<netmap, coord, heads, busy, prev_fseq, pipe, nsubs, synced>>

-----------------------------------------------------------------------------
(***************************************************************************)
(* A task's packet loop: s_sig_hn, s_task_next_ring, s_task_dispatch.      *)
(***************************************************************************)

\* s_sig_hn receives SIG_WAKEUP; it ignores one that comes when inactive
SigHn(t) ==
  /\ pc[t] = "idle" /\ pipe[t] > 0
  /\ pipe' = [pipe EXCEPT ![t] = @ - 1]
  /\ busy' = [busy EXCEPT ![t] = TRUE]
  /\ pc' = [pc EXCEPT ![t] = IF active[t] THEN "next" ELSE "end"]
  /\ UNCHANGED <<netmap, coord, ring, heads, active, just_activated,
                 prev_fseq, nsubs, synced>>

\* Faulty variant: rings at their tail are not skipped
NonEmptyAll(t) == Rings

NonEmpty(t) == {r \in Rings : tail[r] # heads[t][r]}

HeadSeq(t, r) == buf[r][heads[t][r]]

\* Right after activation: c[k] is the choice after rings 0 .. k-1.  The
\* difference of sequence numbers is taken between ints, not modulo SeqMod.
FirstChoice(t) ==
  LET c[k \in 0 .. NumRings] ==
        IF k = 0
          THEN [prev |-> prev_fseq[t], ring |-> -1]
          ELSE IF /\ k - 1 \in NonEmpty(t)
                  /\ \/ k = 1
                     \/ HeadSeq(t, k - 1) - c[k - 1].prev > ThresGap
                 THEN [prev |-> (HeadSeq(t, k - 1) - 1) % SeqMod, ring |-> k - 1]
                 ELSE c[k - 1]
  IN  c[NumRings]

\* Later: the ring closest in sequence to the last seen frame; of equal
\* ones the last, but the first one whose gap is zero.
ClosestRings(t) ==
  {r \in NonEmpty(t) : \A s \in NonEmpty(t) :
     LET gr == Gap(HeadSeq(t, r), prev_fseq[t])
         gs == Gap(HeadSeq(t, s), prev_fseq[t])
     IN  \/ gr < gs
         \/ gr = gs /\ IF gr = 0 THEN r <= s ELSE r >= s}

\* s_task_next_ring: the rings it may choose (one, or none)
NextRings(t) ==
  IF just_activated[t] THEN {FirstChoice(t).ring} \cap NonEmpty(t)
                       ELSE ClosestRings(t)

NextRing(t) ==
  /\ pc[t] = "next"
  /\ \/ /\ NextRings(t) = {}
        /\ pc' = [pc EXCEPT ![t] = "end"]
        /\ UNCHANGED <<ring, prev_fseq>>
     \/ \E r \in NextRings(t) :
        /\ pc' = [pc EXCEPT ![t] = "enter"]
        /\ ring' = [ring EXCEPT ![t] = r]
        /\ prev_fseq' = IF just_activated[t]
             THEN [prev_fseq EXCEPT ![t] = (HeadSeq(t, r) - 1) % SeqMod]
             ELSE prev_fseq
  /\ UNCHANGED <<netmap, coord, heads, active, busy, just_activated, pipe,
                 nsubs, synced>>

InDispatch(t) == pc[t] \in {"enter", "loop"}

\* s_task_dispatch: pkt_handler sees one frame.  The head moves past the
\* frame only when the handler wants more.
Packet(t) ==
  LET r == ring[t]
      x == heads[t][r]
  IN
  /\ InDispatch(t) /\ x # tail[r]
  /\ prev_fseq' = [prev_fseq EXCEPT ![t] = buf[r][x]]
  /\ \E rc \in Outcomes :
       \/ /\ rc = "more"
          /\ heads' = [heads EXCEPT ![t][r] = Following(x)]
          /\ pc' = [pc EXCEPT ![t] = "loop"]
          /\ UNCHANGED <<ring, active, just_activated, synced>>
       \/ /\ rc = "sleep"      \* task_deactivate, whose own failure is ignored
          /\ \/ Deactivate(t)
             \/ t \notin SubTasks /\ UNCHANGED <<active, synced>>
          /\ just_activated' = [just_activated EXCEPT ![t] = FALSE]
          /\ pc' = [pc EXCEPT ![t] = "end"]
          /\ ring' = [ring EXCEPT ![t] = 0]
          /\ UNCHANGED heads
       \/ /\ rc = "error"
          /\ just_activated' = [just_activated EXCEPT ![t] = FALSE]
          /\ pc' = [pc EXCEPT ![t] = "fail"]
          /\ ring' = [ring EXCEPT ![t] = 0]
          /\ UNCHANGED <<active, heads, synced>>
  /\ UNCHANGED <<netmap, coord, busy, pipe, nsubs>>

\* s_task_dispatch returns 0 at the tail
DispatchDone(t) ==
  /\ InDispatch(t) /\ heads[t][ring[t]] = tail[ring[t]]
  /\ just_activated' = [just_activated EXCEPT ![t] = FALSE]
  /\ pc' = [pc EXCEPT ![t] = "next"]
  /\ ring' = [ring EXCEPT ![t] = 0]
  /\ UNCHANGED <<netmap, coord, heads, active, busy, prev_fseq, pipe,
                 nsubs, synced>>

\* Faulty variant: busy is not cleared
SigEndStaysBusy(t) ==
  /\ pc[t] \in {"end", "fail"}
  /\ pc' = [pc EXCEPT ![t] = IF pc[t] = "end" THEN "idle" ELSE "dying"]
  /\ UNCHANGED <<netmap, coord, ring, heads, active, busy, just_activated,
                 prev_fseq, pipe, nsubs, synced>>

\* s_sig_hn returns; with an error the task's loop ends
SigEnd(t) ==
  /\ pc[t] \in {"end", "fail"}
  /\ busy' = [busy EXCEPT ![t] = FALSE]
  /\ pc' = [pc EXCEPT ![t] = IF pc[t] = "end" THEN "idle" ELSE "dying"]
  /\ UNCHANGED <<netmap, coord, ring, heads, active, just_activated,
                 prev_fseq, pipe, nsubs, synced>>

\* s_task_shim after its loop: SIG_DIED, then the thread's end of the pipe
\* is destroyed
ShimExit(t) ==
  /\ \/ pc[t] = "dying" /\ pc' = [pc EXCEPT ![t] = "died"]
     \/ pc[t] = "died" /\ pc' = [pc EXCEPT ![t] = "gone"]
  /\ UNCHANGED <<netmap, coord, ring, heads, active, busy, just_activated,
                 prev_fseq, pipe, nsubs, synced>>

-----------------------------------------------------------------------------
CoordStep == BeginPass \/ ScanTask \/ ReadHead \/ WakeTask \/ Release \/ DieHn

\* What a task's thread does without waiting for a client
TaskStep(t) == CopyHead(t) \/ EndActivate(t) \/ SigHn(t) \/ NextRing(t)
               \/ Packet(t) \/ DispatchDone(t) \/ SigEnd(t) \/ ShimExit(t)

\* What depends on clients
ClientStep(t) == ReqHn(t) \/ TimeoutHn(t) \/ SubHn(t)

\* The coordinator waits to signal a task whose end of the pipe is gone
Hung == cpc = "signal" /\ pc[ct] = "gone"

\* The program has stopped or hangs, or netmap has given up on it
Halted == (cpc = "ended" \/ Hung \/ breach) /\ UNCHANGED vars

Next ==
  \/ \E r \in Rings : KernelRx(r)
  \/ CoordStep
  \/ \E t \in Tasks : TaskStep(t) \/ ClientStep(t)
  \/ Halted

Spec == Init /\ [][Next]_vars

(***************************************************************************)
(* Both kinds of thread are scheduled, and a task's zloop serves every     *)
(* reader that is ready before it polls again, so requests and timers      *)
(* cannot keep it from a waiting SIG_WAKEUP for ever.  Clients and the     *)
(* wire owe nothing.                                                       *)
(***************************************************************************)
FairSpec ==
  /\ Spec
  /\ WF_vars(CoordStep)
  /\ \A t \in Tasks : WF_vars(TaskStep(t)) /\ SF_vars(SigHn(t))

-----------------------------------------------------------------------------
NetmapType ==
  /\ head \in [Rings -> Slots] /\ tail \in [Rings -> Slots]
  /\ buf \in [Rings -> [Slots -> Seqs]]
  /\ fseq \in Seqs
  /\ breach \in BOOLEAN

CoordType ==
  /\ cpc \in {"poll", "scan", "read", "wake", "check", "signal", "release",
              "ended"}
  /\ ct \in Tasks
  /\ cr \in Rings
  /\ cheads \in [Rings -> Slots]
  /\ updated \in BOOLEAN

TaskType ==
  /\ pc \in [Tasks -> {"idle", "activate", "next", "enter", "loop", "end",
                       "fail", "dying", "died", "gone"}]
  /\ ring \in [Tasks -> 0 .. NumRings]
  /\ heads \in [Tasks -> [Rings -> Slots]]
  /\ active \in [Tasks -> BOOLEAN] /\ busy \in [Tasks -> BOOLEAN]
  /\ just_activated \in [Tasks -> BOOLEAN] /\ synced \in [Tasks -> BOOLEAN]
  /\ prev_fseq \in [Tasks -> Seqs]
  /\ pipe \in [Tasks -> 0 .. PipeHWM]
  /\ nsubs \in [Tasks -> 0 .. MaxSubs]

(***************************************************************************)
(* Every index stays within its ring and every counter within its bound.   *)
(***************************************************************************)
TypeOK == NetmapType /\ CoordType /\ TaskType

(***************************************************************************)
(* The coordinator never gives the kernel a slot that a synced task has    *)
(* not read (tasks_get_heads and the release in s_new_pkts_hn): the task's *)
(* head lies between the ring's head and its tail.                         *)
(***************************************************************************)
SyncedInRange ==
  \A t \in Tasks, r \in Rings :
    Synced(t) => InRange(head[r], heads[t][r], tail[r])

(***************************************************************************)
(* s_task_dispatch asserts that it is never entered for a ring without     *)
(* unread frames, although the kernel may move the tail after              *)
(* s_task_next_ring has looked at it.                                      *)
(***************************************************************************)
SyncedDispatch ==
  \A t \in Tasks :
    Synced(t) /\ pc[t] = "enter" => heads[t][ring[t]] # tail[ring[t]]

(***************************************************************************)
(* A step never takes an unread frame away from a synced task: a slot it   *)
(* has still to read stays unread with the same frame in it, unless it is  *)
(* the task's first unread slot and the task's packet loop moves past it.  *)
(***************************************************************************)
KeepsUnread(t, r) ==
  \A i \in Unread(t, r) :
    \/ i \in Unread(t, r)' /\ buf'[r][i] = buf[r][i]
    \/ /\ i = heads[t][r] /\ InDispatch(t) /\ ring[t] = r
       /\ heads'[t][r] = Following(i)

UnreadKept ==
  [][\A t \in Tasks, r \in Rings :
       Synced(t) /\ Synced(t)' => KeepsUnread(t, r)]_vars

(***************************************************************************)
(* While a task that serves one request at a time (automute) is active,    *)
(* each of its heads only moves, one slot at a time, past the frame just   *)
(* read: no frame is read twice or skipped in the course of a job.         *)
(***************************************************************************)
HeadsForward(t) ==
  \A r \in Rings : heads'[t][r] \in {heads[t][r], Following(heads[t][r])}

ReqReadsOnce ==
  [][\A t \in Tasks \ SubTasks : active[t] /\ active'[t] => HeadsForward(t)]_vars

(***************************************************************************)
(* As long as one synced task is active, the coordinator keeps to netmap's *)
(* contract, whatever unsynced tasks do: it moves a head only to a slot    *)
(* between the head and the tail.                                          *)
(***************************************************************************)
SyncedKeepsContract ==
  [][breach' /\ ~breach => \A t \in Tasks : ~Synced(t)]_vars

Failing(t) == pc[t] \in {"fail", "dying", "died"}

\* The daemon no longer runs
Stopped == cpc = "ended" \/ Hung \/ breach

(***************************************************************************)
(* A frame that waits for a synced task is read, unless the task is        *)
(* deactivated or dies: the unlocked busy flag loses no wake-up for good,  *)
(* because the interface stays readable until the frame is released.       *)
(* Checked with one ring: of several, s_task_dispatch may stay with one    *)
(* for as long as frames keep coming there.                                *)
(***************************************************************************)
Waiting(t, r, i) == Synced(t) /\ heads[t][r] = i /\ tail[r] # i

FrameIsRead ==
  \A t \in Tasks, r \in Rings, i \in Slots :
    Waiting(t, r, i) ~> ~Waiting(t, r, i) \/ Failing(t) \/ Stopped

(***************************************************************************)
(* The slots of frames that every active task has read go back to the      *)
(* kernel: the coordinator does not stop releasing while tasks make        *)
(* progress.                                                               *)
(***************************************************************************)
Held(i) == head[0] = i /\ tail[0] # i /\ \A t \in Tasks : Synced(t)

SlotsAreReleased ==
  \A i \in Slots :
    Held(i) ~> ~Held(i) \/ Stopped \/ \E t \in Tasks : Failing(t)

-----------------------------------------------------------------------------
(***************************************************************************)
(* What the comments say, and the code does not do.                        *)
(***************************************************************************)

(***************************************************************************)
(* "the coordinator sets the true head to the per-task head which lags     *)
(* behind all others": no active task is left behind by the ring's head.   *)
(***************************************************************************)
HeadLagsAll ==
  \A t \in Tasks, r \in Rings :
    active[t] => InRange(head[r], heads[t][r], tail[r])

(***************************************************************************)
(* s_sub_hn "will deactivate task on last unsubscription and activate it   *)
(* on first subscription": a task that is already active is not activated  *)
(* again, so it never goes back to frames it has read.                     *)
(***************************************************************************)
SubActivatesOnce ==
  [][\A t \in SubTasks : active[t] /\ active'[t] => HeadsForward(t)]_vars

(***************************************************************************)
(* s_task_next_ring right after activation is to "choose the ring by       *)
(* comparing the heads of all rings": it finds a ring when one has frames. *)
(***************************************************************************)
NextRingFound ==
  \A t \in Tasks :
    Synced(t) /\ pc[t] = "next" /\ NonEmpty(t) # {} => NextRings(t) # {}

(***************************************************************************)
(* "when tasks encounter an error the coordinator's loop is terminated":   *)
(* a SIG_DIED ends the daemon.                                             *)
(***************************************************************************)
DeathEndsLoop == \A t \in Tasks : SigDied(t) ~> cpc = "ended" \/ breach
=============================================================================
