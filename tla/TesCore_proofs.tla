--------------------------- MODULE TesCore_proofs ---------------------------
(***************************************************************************)
(* Proofs about TesCore for any number of tasks, rings and slots, any      *)
(* subscription pattern and any outcome of the packet handlers.            *)
(***************************************************************************)
EXTENDS TesCore, TesRing_proofs

(***************************************************************************)
(* The inductive invariant behind SyncedInRange.                           *)
(***************************************************************************)

\* Loop variables at the places where the code (re)starts a loop
LoopVars ==
  /\ cpc \in {"poll", "release"} => ct = 1
  /\ cpc \in {"poll", "scan"} => cr = 0
  /\ \A t \in Tasks : InDispatch(t) => ring[t] \in Rings

\* An activation that still counts as synced has met no pass, so the heads
\* it has copied are the rings' heads; automute lets no request in while a
\* task is active
ActivationInv(t) ==
  /\ Activating(t) /\ t \notin SubTasks => ~active[t]
  /\ Activating(t) /\ synced[t] =>
       /\ cpc \in {"poll", "ended"}
       /\ \A r \in Rings : r < ring[t] => heads[t][r] = head[r]

RangeInv(t) ==
  Synced(t) => \A r \in Rings : InRange(head[r], heads[t][r], tail[r])

DispatchInv(t) ==
  Synced(t) /\ pc[t] = "enter" => heads[t][ring[t]] # tail[ring[t]]

\* The pass has looked at ring r of task t and has yet to release ring r
Scanned(t, r) ==
  \/ cpc \in {"scan", "read"} /\ t < ct
  \/ cpc = "read" /\ t = ct /\ r < cr
  \/ cpc \in {"wake", "check", "signal"}
  \/ cpc = "release" /\ r >= cr

\* What tasks_get_heads has collected so far is no later than the head of
\* any synced task it has looked at
ScanInv(t) ==
  Synced(t) => \A r \in Rings : Scanned(t, r) =>
    /\ updated \/ (cpc = "read" /\ t = ct)
    /\ Dist(head[r], cheads[r]) <= Dist(head[r], heads[t][r])

TaskInv(t) == ActivationInv(t) /\ RangeInv(t) /\ DispatchInv(t) /\ ScanInv(t)

CoreInv == TypeOK /\ LoopVars /\ \A t \in Tasks : TaskInv(t)

-----------------------------------------------------------------------------
\* Frame sequence arithmetic stays within its width
LEMMA ModType ==
  ASSUME NEW x \in Int
  PROVE  x % SeqMod \in Seqs
  BY CoreAssumption DEF Seqs

\* The ranges of the loop variables
LEMMA Ranges ==
  /\ 0 \in Rings /\ 1 \in Tasks /\ 0 \in Slots /\ 0 \in Seqs
  /\ 0 \in 0 .. NumRings
  /\ \A r \in Rings : r \in 0 .. NumRings /\ r + 1 \in 0 .. NumRings
  /\ \A t \in Tasks : t # NumTasks => t + 1 \in Tasks
  /\ 0 \in 0 .. PipeHWM /\ 0 \in 0 .. MaxSubs
  BY CoreAssumption, NumSlotsAssumption DEF Rings, Tasks, Slots, Seqs

\* tasks_get_heads keeps indices of the ring
LEMMA EarlierType ==
  ASSUME NEW h \in Slots, NEW a \in Slots, NEW b \in Slots
  PROVE  EarlierId(h, a, b) \in Slots
  BY EarlierIdIsNearest

\* s_task_next_ring chooses among the rings with unread frames
LEMMA NextRingsNonEmpty ==
  ASSUME NEW t \in Tasks
  PROVE  NextRings(t) \subseteq NonEmpty(t)
  BY DEF NextRings, ClosestRings

(***************************************************************************)
(* Every variable keeps its type: indices stay in the ring, whatever the   *)
(* interleaving of the threads.                                            *)
(***************************************************************************)
LEMMA TypeInit == Init => TypeOK
  <1> SUFFICES ASSUME Init PROVE TypeOK
    OBVIOUS
  <1> USE Ranges DEF Init
  <1>1. [i \in Slots |-> 0] \in [Slots -> Seqs]
    OBVIOUS
  <1>2. NetmapType
    BY <1>1 DEF NetmapType
  <1>3. CoordType
    BY DEF CoordType
  <1>4. [r \in Rings |-> 0] \in [Rings -> Slots]
    OBVIOUS
  <1>5. TaskType
    BY <1>4 DEF TaskType
  <1> QED BY <1>2, <1>3, <1>5 DEF TypeOK

LEMMA NetmapTypeNext ==
  ASSUME TypeOK, LoopVars, [Next]_vars
  PROVE  NetmapType'
  <1> USE DEF TypeOK, NetmapType, netmap
  <1>1. ASSUME NEW r \in Rings, KernelRx(r) PROVE NetmapType'
    <2>1. PICK gap \in 0 .. MaxGap :
            /\ buf' = [buf EXCEPT ![r][tail[r]] = (fseq + gap) % SeqMod]
            /\ fseq' = (fseq + gap + 1) % SeqMod
      BY <1>1 DEF KernelRx
    <2>2. (fseq + gap) % SeqMod \in Seqs /\ (fseq + gap + 1) % SeqMod \in Seqs
      BY ModType, CoreAssumption DEF Seqs
    <2>3. Following(tail[r]) \in Slots
      BY StepType
    <2> QED BY <1>1, <2>1, <2>2, <2>3 DEF KernelRx
  <1>2. CASE Release
    BY <1>2 DEF Release, NewHead, CoordType
  <1>3. CASE UNCHANGED netmap
    BY <1>3
  <1>4. ASSUME NEW t \in Tasks, TaskStep(t) \/ ClientStep(t) PROVE UNCHANGED netmap
    BY <1>4 DEF TaskStep, CopyHead, EndActivate, SigHn, NextRing, Packet,
       DispatchDone, SigEnd, ShimExit, ClientStep, ReqHn, TimeoutHn, SubHn
  <1> QED BY <1>1, <1>2, <1>3, <1>4
      DEF Next, CoordStep, BeginPass, ScanTask, ReadHead, WakeTask, DieHn, Halted, vars

LEMMA CoordTypeNext ==
  ASSUME TypeOK, LoopVars, [Next]_vars
  PROVE  CoordType'
  <1> USE DEF TypeOK, CoordType, coord
  <1>1. CASE BeginPass
    BY <1>1 DEF BeginPass
  <1>2. CASE ScanTask
    BY <1>2, Ranges DEF ScanTask, NextTask
  <1>3. CASE ReadHead
    <2>1. EarlierId(head[cr], cheads[cr], heads[ct][cr]) \in Slots
      BY EarlierType DEF NetmapType, TaskType
    <2>2. cheads' \in [Rings -> Slots]
      BY <1>3, <2>1 DEF ReadHead, TaskType
    <2>3. ct' \in Tasks /\ cr' \in Rings /\ updated' \in BOOLEAN
          /\ cpc' \in {"poll", "scan", "read", "wake", "check", "signal",
                       "release", "ended"}
      BY <1>3, Ranges DEF ReadHead, NextTask
    <2> QED BY <2>2, <2>3
  <1>4. CASE WakeTask
    BY <1>4, Ranges DEF WakeTask, NextTask
  <1>5. CASE Release
    BY <1>5, Ranges DEF Release
  <1>6. CASE DieHn
    BY <1>6 DEF DieHn
  <1>7. CASE UNCHANGED coord
    BY <1>7
  <1>8. ASSUME NEW t \in Tasks, TaskStep(t) \/ ClientStep(t) PROVE UNCHANGED coord
    BY <1>8 DEF TaskStep, CopyHead, EndActivate, SigHn, NextRing, Packet,
       DispatchDone, SigEnd, ShimExit, ClientStep, ReqHn, TimeoutHn, SubHn
  <1> QED BY <1>1, <1>2, <1>3, <1>4, <1>5, <1>6, <1>7, <1>8
      DEF Next, CoordStep, KernelRx, Halted, vars

LEMMA TaskTypeNext ==
  ASSUME TypeOK, LoopVars, [Next]_vars
  PROVE  TaskType'
  <1> USE DEF TypeOK, TaskType, task
  <1>1. CASE BeginPass
    BY <1>1 DEF BeginPass
  <1>2. CASE WakeTask
    <2>1. pipe' \in [Tasks -> 0 .. PipeHWM]
      BY <1>2, CoreAssumption DEF WakeTask, CoordType
    <2> QED BY <1>2, <2>1 DEF WakeTask
  <1>3. ASSUME NEW t \in Tasks, TaskStep(t) PROVE TaskType'
    <2>1. CASE CopyHead(t)
      BY <2>1, Ranges DEF CopyHead, NetmapType
    <2>2. CASE EndActivate(t)
      BY <2>2, Ranges DEF EndActivate
    <2>3. CASE SigHn(t)
      BY <2>3, CoreAssumption DEF SigHn
    <2>4. CASE NextRing(t)
      <3>1. \A r \in NextRings(t) : r \in Rings
        BY NextRingsNonEmpty DEF NonEmpty
      <3>2. \A r \in Rings : (HeadSeq(t, r) - 1) % SeqMod \in Seqs
        BY ModType DEF HeadSeq, Seqs, NetmapType
      <3>3. CASE NextRings(t) = {}
        BY <2>4, <3>3 DEF NextRing
      <3>4. ASSUME NEW r \in NextRings(t),
                   pc' = [pc EXCEPT ![t] = "enter"],
                   ring' = [ring EXCEPT ![t] = r],
                   prev_fseq' = IF just_activated[t]
                     THEN [prev_fseq EXCEPT ![t] = (HeadSeq(t, r) - 1) % SeqMod]
                     ELSE prev_fseq
            PROVE  TaskType'
        <4>1. r \in Rings /\ r \in 0 .. NumRings
          BY <3>1, Ranges
        <4>2. prev_fseq' \in [Tasks -> Seqs]
          BY <3>2, <3>4, <4>1
        <4>3. UNCHANGED <<heads, active, busy, just_activated, pipe, nsubs, synced>>
          BY <2>4 DEF NextRing
        <4> QED BY <3>4, <4>1, <4>2, <4>3
      <3> QED BY <2>4, <3>3, <3>4 DEF NextRing
    <2>5. CASE Packet(t)
      <3>1. ring[t] \in Rings
        BY <2>5 DEF Packet, LoopVars
      <3>2. Following(heads[t][ring[t]]) \in Slots
        BY <3>1, StepType
      <3>3. /\ \/ heads' = [heads EXCEPT ![t][ring[t]] = Following(heads[t][ring[t]])]
               \/ heads' = heads
            /\ ring' = ring \/ ring' = [ring EXCEPT ![t] = 0]
            /\ \E p \in {"loop", "end", "fail"} : pc' = [pc EXCEPT ![t] = p]
            /\ UNCHANGED <<busy, pipe, nsubs>>
        BY <2>5, Zenon DEF Packet
      <3>6. heads' \in [Tasks -> [Rings -> Slots]]
        <4>1. CASE heads' = heads
          BY <4>1
        <4>2. CASE heads' = [heads EXCEPT ![t][ring[t]] = Following(heads[t][ring[t]])]
          <5> DEFINE r == ring[t]
                     v == Following(heads[t][ring[t]])
          <5>1. r \in Rings /\ v \in Slots
            BY <3>1, <3>2
          <5>2. heads' = [heads EXCEPT ![t][r] = v]
            BY <4>2
          <5> HIDE DEF r, v
          <5> QED BY <5>1, <5>2
        <4> QED BY <4>1, <4>2, <3>3
      <3>7. ring' \in [Tasks -> 0 .. NumRings]
        BY <3>3, Ranges
      <3>4. prev_fseq' \in [Tasks -> Seqs]
        BY <2>5, <3>1 DEF Packet, NetmapType
      <3>5. /\ active' \in [Tasks -> BOOLEAN] /\ synced' \in [Tasks -> BOOLEAN]
            /\ just_activated' \in [Tasks -> BOOLEAN]
        BY <2>5 DEF Packet, Deactivate
      <3> QED BY <3>3, <3>4, <3>5, <3>6, <3>7
    <2>6. CASE DispatchDone(t)
      BY <2>6, Ranges DEF DispatchDone
    <2>7. CASE SigEnd(t)
      BY <2>7 DEF SigEnd
    <2>8. CASE ShimExit(t)
      BY <2>8 DEF ShimExit
    <2> QED BY <1>3, <2>1, <2>2, <2>3, <2>4, <2>5, <2>6, <2>7, <2>8 DEF TaskStep
  <1>4. ASSUME NEW t \in Tasks, ClientStep(t) PROVE TaskType'
    <2>1. CASE ReqHn(t)
      BY <2>1, Ranges DEF ReqHn, BeginActivate
    <2>2. CASE TimeoutHn(t)
      BY <2>2 DEF TimeoutHn, Deactivate
    <2>3. CASE SubHn(t)
      <3>1. nsubs' \in [Tasks -> 0 .. MaxSubs]
        BY <2>3 DEF SubHn
      <3>2. \/ BeginActivate(t)
            \/ Deactivate(t) /\ UNCHANGED <<pc, ring>>
            \/ UNCHANGED <<pc, ring, active, synced>>
        BY <2>3, Zenon DEF SubHn
      <3>3. UNCHANGED <<heads, busy, just_activated, prev_fseq, pipe>>
        BY <2>3 DEF SubHn
      <3>4. CASE BeginActivate(t)
        BY <3>1, <3>3, <3>4, Ranges DEF BeginActivate
      <3>5. CASE Deactivate(t) /\ UNCHANGED <<pc, ring>>
        BY <3>1, <3>3, <3>5 DEF Deactivate
      <3>6. CASE UNCHANGED <<pc, ring, active, synced>>
        BY <3>1, <3>3, <3>6
      <3> QED BY <3>2, <3>4, <3>5, <3>6
    <2> QED BY <1>4, <2>1, <2>2, <2>3 DEF ClientStep
  <1>5. CASE UNCHANGED task
    BY <1>5
  <1> QED BY <1>1, <1>2, <1>3, <1>4, <1>5
      DEF Next, KernelRx, CoordStep, ScanTask, ReadHead, Release, DieHn, Halted, vars

LEMMA TypeNext ==
  ASSUME TypeOK, LoopVars, [Next]_vars
  PROVE  TypeOK'
  BY NetmapTypeNext, CoordTypeNext, TaskTypeNext DEF TypeOK

-----------------------------------------------------------------------------
(***************************************************************************)
(* What a step of task t's thread can do to the part of the state that the *)
(* invariant is about.                                                     *)
(***************************************************************************)
Same(t) == UNCHANGED <<pc[t], ring[t], heads[t], active[t], synced[t]>>

\* task_activate begins
Starts(t) ==
  /\ pc'[t] = "activate" /\ ring'[t] = 0 /\ UNCHANGED <<heads[t], active[t]>>
  /\ synced'[t] => cpc = "poll"
  /\ t \notin SubTasks => ~active[t]

\* task_activate copies a ring's head
Copies(t) ==
  /\ Activating(t) /\ ring[t] \in Rings
  /\ ring'[t] = ring[t] + 1
  /\ heads'[t] = [heads[t] EXCEPT ![ring[t]] = head[ring[t]]]
  /\ UNCHANGED <<pc[t], active[t], synced[t]>>

\* task_activate ends
Finishes(t) ==
  /\ Activating(t) /\ ring[t] = NumRings
  /\ pc'[t] = "idle" /\ active'[t] /\ UNCHANGED <<heads[t], synced[t]>>

\* task_deactivate
Stops(t) ==
  /\ ~active'[t] /\ UNCHANGED heads[t]
  /\ pc'[t] \in {"idle", "end"}

\* the packet loop without a frame being consumed
Stays(t) ==
  /\ ~Activating(t) /\ pc'[t] \notin {"activate", "loop"}
  /\ pc'[t] = "enter" => ring'[t] \in NonEmpty(t)
  /\ UNCHANGED <<heads[t], active[t], synced[t]>>

\* the packet loop consumes a frame
Advances(t) ==
  /\ InDispatch(t) /\ pc'[t] = "loop"
  /\ ring[t] \in Rings /\ heads[t][ring[t]] # tail[ring[t]]
  /\ heads'[t] = [heads[t] EXCEPT ![ring[t]] = Following(@)]
  /\ UNCHANGED <<ring[t], active[t], synced[t]>>

LEMMA TaskEffects ==
  ASSUME TypeOK, LoopVars, NEW t \in Tasks, TaskStep(t) \/ ClientStep(t)
  PROVE  /\ UNCHANGED <<netmap, coord>>
         /\ \A u \in Tasks \ {t} : Same(u)
         /\ \/ Starts(t) \/ Copies(t) \/ Finishes(t)
            \/ Stops(t) \/ Stays(t) \/ Advances(t)
  <1> USE DEF TypeOK, TaskType, Same
  <1>1. CASE CopyHead(t)
    <2>1. Copies(t)
      BY <1>1 DEF CopyHead, Copies, NetmapType
    <2> QED BY <1>1, <2>1 DEF CopyHead
  <1>2. CASE EndActivate(t)
    <2>1. Finishes(t)
      BY <1>2 DEF EndActivate, Finishes
    <2> QED BY <1>2, <2>1 DEF EndActivate
  <1>3. CASE SigHn(t)
    <2>1. Stays(t)
      BY <1>3 DEF SigHn, Stays, Activating
    <2> QED BY <1>3, <2>1 DEF SigHn
  <1>4. CASE NextRing(t)
    <2>1. UNCHANGED <<netmap, coord, heads, active, synced>> /\ ~Activating(t)
      BY <1>4 DEF NextRing, Activating
    <2>2. CASE NextRings(t) = {}
      BY <1>4, <2>1, <2>2 DEF NextRing, Stays
    <2>3. ASSUME NEW r \in NextRings(t),
                 pc' = [pc EXCEPT ![t] = "enter"],
                 ring' = [ring EXCEPT ![t] = r]
          PROVE  Stays(t) /\ \A u \in Tasks \ {t} : Same(u)
      <3>1. r \in NonEmpty(t)
        BY NextRingsNonEmpty
      <3> QED BY <2>1, <2>3, <3>1 DEF Stays
    <2> QED BY <1>4, <2>1, <2>2, <2>3 DEF NextRing
  <1>5. CASE Packet(t)
    <2>1. /\ UNCHANGED <<netmap, coord>>
          /\ InDispatch(t) /\ heads[t][ring[t]] # tail[ring[t]]
          /\ ring[t] \in Rings /\ ~Activating(t)
      BY <1>5 DEF Packet, LoopVars, InDispatch, Activating
    <2>2. \/ /\ heads' = [heads EXCEPT ![t][ring[t]] = Following(heads[t][ring[t]])]
             /\ pc' = [pc EXCEPT ![t] = "loop"]
             /\ UNCHANGED <<ring, active, synced>>
          \/ /\ Deactivate(t) \/ UNCHANGED <<active, synced>>
             /\ pc' = [pc EXCEPT ![t] = "end"]
             /\ ring' = [ring EXCEPT ![t] = 0]
             /\ UNCHANGED heads
          \/ /\ pc' = [pc EXCEPT ![t] = "fail"]
             /\ ring' = [ring EXCEPT ![t] = 0]
             /\ UNCHANGED <<active, heads, synced>>
      BY <1>5, Zenon DEF Packet
    <2>3. CASE /\ heads' = [heads EXCEPT ![t][ring[t]] = Following(heads[t][ring[t]])]
               /\ pc' = [pc EXCEPT ![t] = "loop"]
               /\ UNCHANGED <<ring, active, synced>>
      BY <2>1, <2>3 DEF Advances
    <2>4. CASE /\ Deactivate(t) \/ UNCHANGED <<active, synced>>
               /\ pc' = [pc EXCEPT ![t] = "end"]
               /\ ring' = [ring EXCEPT ![t] = 0]
               /\ UNCHANGED heads
      BY <2>1, <2>4 DEF Stays, Stops, Deactivate
    <2>5. CASE /\ pc' = [pc EXCEPT ![t] = "fail"]
               /\ ring' = [ring EXCEPT ![t] = 0]
               /\ UNCHANGED <<active, heads, synced>>
      BY <2>1, <2>5 DEF Stays
    <2> QED BY <2>2, <2>1, <2>3, <2>4, <2>5
  <1>6. CASE DispatchDone(t)
    <2>1. Stays(t)
      BY <1>6 DEF DispatchDone, Stays, InDispatch, Activating
    <2> QED BY <1>6, <2>1 DEF DispatchDone
  <1>7. CASE SigEnd(t)
    <2>1. Stays(t)
      BY <1>7 DEF SigEnd, Stays, Activating
    <2> QED BY <1>7, <2>1 DEF SigEnd
  <1>8. CASE ShimExit(t)
    <2>1. Stays(t)
      BY <1>8 DEF ShimExit, Stays, Activating
    <2> QED BY <1>8, <2>1 DEF ShimExit
  <1>9. CASE ReqHn(t)
    <2>1. Starts(t)
      BY <1>9 DEF ReqHn, BeginActivate, Starts
    <2> QED BY <1>9, <2>1 DEF ReqHn, BeginActivate
  <1>10. CASE TimeoutHn(t)
    <2>1. Stops(t)
      BY <1>10 DEF TimeoutHn, Deactivate, Stops
    <2> QED BY <1>10, <2>1 DEF TimeoutHn, Deactivate
  <1>11. CASE SubHn(t)
    <2>1. UNCHANGED <<netmap, coord, heads>> /\ t \in SubTasks /\ pc[t] = "idle"
      BY <1>11 DEF SubHn
    <2>2. \/ BeginActivate(t)
          \/ Deactivate(t) /\ UNCHANGED <<pc, ring>>
          \/ UNCHANGED <<pc, ring, active, synced>>
      BY <1>11, Zenon DEF SubHn
    <2>3. CASE BeginActivate(t)
      BY <2>1, <2>3 DEF BeginActivate, Starts
    <2>4. CASE Deactivate(t) /\ UNCHANGED <<pc, ring>>
      BY <2>1, <2>4 DEF Deactivate, Stops
    <2>5. CASE UNCHANGED <<pc, ring, active, synced>>
      BY <2>1, <2>5 DEF Stays, Activating
    <2> QED BY <2>1, <2>2, <2>3, <2>4, <2>5
  <1> QED BY <1>1, <1>2, <1>3, <1>4, <1>5, <1>6, <1>7, <1>8, <1>9, <1>10, <1>11
      DEF TaskStep, ClientStep

-----------------------------------------------------------------------------
LEMMA InvInit == Init => CoreInv
  <1> SUFFICES ASSUME Init PROVE CoreInv
    OBVIOUS
  <1>1. TypeOK
    BY TypeInit
  <1>2. LoopVars
    BY DEF Init, LoopVars, InDispatch
  <1>3. ASSUME NEW t \in Tasks PROVE ~Activating(t) /\ ~Synced(t)
    BY DEF Init, Activating, Synced
  <1> QED BY <1>1, <1>2, <1>3
      DEF CoreInv, TaskInv, ActivationInv, RangeInv, DispatchInv, ScanInv

(***************************************************************************)
(* Steps of the tasks' threads.                                            *)
(***************************************************************************)
LEMMA SameKeepsInv ==
  ASSUME NEW t \in Tasks, TaskInv(t), Same(t), UNCHANGED <<netmap, coord>>
  PROVE  TaskInv(t)'
  BY DEF TaskInv, ActivationInv, RangeInv, DispatchInv, ScanInv, Scanned,
     Activating, Synced, Same, netmap, coord

LEMMA TaskKeepsInv ==
  ASSUME CoreInv, NEW t \in Tasks, TaskStep(t) \/ ClientStep(t)
  PROVE  LoopVars' /\ \A u \in Tasks : TaskInv(u)'
  <1>1. /\ UNCHANGED <<netmap, coord>>
        /\ \A u \in Tasks \ {t} : Same(u)
        /\ \/ Starts(t) \/ Copies(t) \/ Finishes(t)
           \/ Stops(t) \/ Stays(t) \/ Advances(t)
    BY TaskEffects DEF CoreInv
  <1> USE DEF CoreInv
  <1>2. \A u \in Tasks \ {t} : TaskInv(u)'
    BY <1>1, SameKeepsInv
  <1>3. LoopVars'
    <2>1. \A u \in Tasks \ {t} : InDispatch(u)' => ring'[u] \in Rings
      BY <1>1 DEF LoopVars, InDispatch, Same
    <2>2. InDispatch(t)' => ring'[t] \in Rings
      BY <1>1 DEF LoopVars, InDispatch, Activating, NonEmpty,
         Starts, Copies, Finishes, Stops, Stays, Advances
    <2> QED BY <1>1, <2>1, <2>2 DEF LoopVars, coord
  <1>4. TaskInv(t)'
    <2> USE DEF TaskInv, netmap, coord
    <2>1. CASE Starts(t)
      BY <1>1, <2>1 DEF Starts, ActivationInv, RangeInv, DispatchInv, ScanInv,
         Activating, Synced, Rings
    <2>2. CASE Copies(t)
      <3>1. Activating(t)' /\ ~Synced(t)'
        BY <2>2 DEF Copies, Activating, Synced
      <3>2. ASSUME NEW r \in Rings, r < ring'[t], synced[t]
            PROVE  heads'[t][r] = head[r]
        <4>1. heads[t] \in [Rings -> Slots]
          BY DEF TypeOK, TaskType
        <4>2. CASE r = ring[t]
          BY <2>2, <4>1, <4>2 DEF Copies
        <4>3. CASE r # ring[t]
          BY <2>2, <3>2, <4>1, <4>3 DEF Copies, ActivationInv, Rings
        <4> QED BY <4>2, <4>3
      <3> QED BY <1>1, <2>2, <3>1, <3>2
          DEF Copies, ActivationInv, RangeInv, DispatchInv, ScanInv
    <2>3. CASE Finishes(t)
      <3>1. ~Activating(t)' /\ pc'[t] # "enter"
        BY <2>3 DEF Finishes, Activating
      <3>2. ASSUME Synced(t)'
            PROVE  /\ cpc \in {"poll", "ended"}
                   /\ \A r \in Rings : heads[t][r] = head[r]
        <4>1. synced[t] /\ Activating(t) /\ ring[t] = NumRings
          BY <2>3, <3>2, Zenon DEF Finishes, Synced
        <4> QED BY <4>1, CoreAssumption DEF ActivationInv, Rings
      <3>3. RangeInv(t)'
        <4> SUFFICES ASSUME Synced(t)', NEW r \in Rings
                     PROVE  InRange(head[r], head[r], tail[r])
          BY <1>1, <2>3, <3>2 DEF RangeInv, Finishes
        <4>1. head[r] \in Slots /\ tail[r] \in Slots
          BY DEF TypeOK, NetmapType
        <4> QED BY <4>1, DistType DEF InRange, Slots
      <3>4. ScanInv(t)'
        BY <1>1, <3>2 DEF ScanInv, Scanned
      <3> QED BY <3>1, <3>3, <3>4 DEF ActivationInv, DispatchInv
    <2>4. CASE Stops(t)
      BY <1>1, <2>4 DEF Stops, ActivationInv, RangeInv, DispatchInv, ScanInv,
         Activating, Synced
    <2>5. CASE Stays(t)
      <3>1. ~Activating(t)' /\ Synced(t)' = Synced(t)
        BY <2>5 DEF Stays, Activating, Synced
      <3>2. DispatchInv(t)'
        BY <1>1, <2>5 DEF Stays, DispatchInv, NonEmpty
      <3>3. RangeInv(t)'
        BY <1>1, <2>5, <3>1 DEF Stays, RangeInv
      <3>4. ScanInv(t)'
        BY <1>1, <2>5, <3>1 DEF Stays, ScanInv, Scanned
      <3> QED BY <3>1, <3>2, <3>3, <3>4 DEF ActivationInv
    <2>6. CASE Advances(t)
      <3>1. ~Activating(t)' /\ pc'[t] # "enter" /\ Synced(t)' = Synced(t)
        BY <2>6 DEF Advances, InDispatch, Activating, Synced
      <3>2. ASSUME Synced(t), NEW r \in Rings
            PROVE  /\ InRange(head[r], heads'[t][r], tail[r])
                   /\ Dist(head[r], heads[t][r]) <= Dist(head[r], heads'[t][r])
        <4> DEFINE x == heads[t][r]
        <4>1. head[r] \in Slots /\ tail[r] \in Slots /\ heads[t] \in [Rings -> Slots]
          BY DEF TypeOK, NetmapType, TaskType
        <4>2. InRange(head[r], x, tail[r])
          BY <3>2 DEF RangeInv
        <4>3. CASE r # ring[t]
          <5>1. heads'[t][r] = x
            BY <2>6, <4>1, <4>3 DEF Advances
          <5>2. x \in Slots
            BY <4>1
          <5>3. Dist(head[r], x) \in Slots
            BY <4>1, <5>2, DistType
          <5> QED BY <4>2, <5>1, <5>3 DEF Slots
        <4>4. CASE r = ring[t]
          <5>1. heads'[t][r] = Following(x) /\ x # tail[r]
            BY <2>6, <4>1, <4>4 DEF Advances
          <5> QED BY <4>1, <4>2, <5>1, NumSlotsAssumption
              DEF InRange, Dist, Following, Slots
        <4> QED BY <4>3, <4>4
      <3>3. RangeInv(t)'
        BY <1>1, <3>1, <3>2 DEF RangeInv
      <3>4. ScanInv(t)'
        <4> SUFFICES ASSUME Synced(t), NEW r \in Rings, Scanned(t, r)
                     PROVE  /\ updated \/ (cpc = "read" /\ t = ct)
                            /\ Dist(head[r], cheads[r]) <= Dist(head[r], heads'[t][r])
          BY <1>1, <3>1 DEF ScanInv, Scanned
        <4>1. /\ head[r] \in Slots /\ cheads[r] \in Slots
              /\ heads[t][r] \in Slots /\ heads'[t][r] \in Slots
          BY <2>6, StepType DEF TypeOK, NetmapType, CoordType, TaskType, Advances
        <4>2. /\ Dist(head[r], cheads[r]) \in Slots
              /\ Dist(head[r], heads[t][r]) \in Slots
              /\ Dist(head[r], heads'[t][r]) \in Slots
          BY <4>1, DistType
        <4> QED BY <3>2, <4>2 DEF ScanInv, Slots
      <3> QED BY <3>1, <3>3, <3>4 DEF ActivationInv, DispatchInv
    <2> QED BY <1>1, <2>1, <2>2, <2>3, <2>4, <2>5, <2>6
  <1> QED BY <1>2, <1>3, <1>4

(***************************************************************************)
(* Steps of the kernel and of the coordinator.                             *)
(***************************************************************************)
LEMMA KernelKeepsInv ==
  ASSUME CoreInv, NEW k \in Rings, KernelRx(k)
  PROVE  LoopVars' /\ \A t \in Tasks : TaskInv(t)'
  <1> USE DEF CoreInv
  <1>1. /\ cpc = "poll" /\ Following(tail[k]) # head[k]
        /\ tail' = [tail EXCEPT ![k] = Following(@)]
        /\ UNCHANGED <<head, coord, task>>
    BY DEF KernelRx
  <1>2. LoopVars'
    BY <1>1 DEF LoopVars, InDispatch, coord, task
  <1>3. ASSUME NEW t \in Tasks PROVE TaskInv(t)'
    <2>1. TaskInv(t)
      OBVIOUS
    <2>2. ActivationInv(t)'
      BY <1>1, <2>1 DEF TaskInv, ActivationInv, Activating, coord, task
    <2>3. ScanInv(t)'
      BY <1>1 DEF ScanInv, Scanned, coord
    <2>4. Synced(t)' = Synced(t)
      BY <1>1 DEF Synced, Activating, task
    <2>5. ASSUME Synced(t), NEW r \in Rings
          PROVE  /\ InRange(head[r], heads[t][r], tail'[r])
                 /\ heads[t][r] # tail[r] => heads[t][r] # tail'[r]
      <3>1. head[r] \in Slots /\ tail[r] \in Slots /\ heads[t][r] \in Slots
        BY DEF TypeOK, NetmapType, TaskType
      <3>2. InRange(head[r], heads[t][r], tail[r])
        BY <2>1, <2>5 DEF TaskInv, RangeInv
      <3>3. CASE r # k
        BY <1>1, <3>2, <3>3 DEF TypeOK, NetmapType
      <3>4. CASE r = k
        <4>1. tail'[r] = Following(tail[r]) /\ Following(tail[r]) # head[r]
          BY <1>1, <3>4 DEF TypeOK, NetmapType
        <4> QED BY <3>1, <3>2, <4>1, NumSlotsAssumption
            DEF InRange, Dist, Following, Slots
      <3> QED BY <3>3, <3>4
    <2>6. RangeInv(t)'
      BY <1>1, <2>4, <2>5 DEF RangeInv, task
    <2>7. DispatchInv(t)'
      BY <1>1, <2>1, <2>4, <2>5 DEF DispatchInv, TaskInv, LoopVars, InDispatch, task
    <2> QED BY <2>2, <2>3, <2>6, <2>7 DEF TaskInv
  <1> QED BY <1>2, <1>3

LEMMA ScanKeepsInv ==
  ASSUME CoreInv, BeginPass \/ ScanTask \/ WakeTask \/ DieHn
  PROVE  LoopVars' /\ \A t \in Tasks : TaskInv(t)'
  <1> USE DEF CoreInv
  <1>1. /\ UNCHANGED <<netmap, cr, cheads, pc, ring, heads, active>>
        /\ \A t \in Tasks : ~Activating(t) => synced'[t] = synced[t]
    BY DEF BeginPass, ScanTask, WakeTask, DieHn, task, TypeOK, TaskType
  <1>2. ASSUME NEW t \in Tasks
        PROVE  Synced(t)' = Synced(t) /\ Activating(t)' = Activating(t)
    BY <1>1 DEF Synced, Activating
  <1>3. LoopVars'
    BY <1>1 DEF LoopVars, InDispatch, BeginPass, ScanTask, WakeTask, DieHn, NextTask
  <1>4. ASSUME NEW t \in Tasks PROVE RangeInv(t)' /\ DispatchInv(t)'
    BY <1>1, <1>2 DEF TaskInv, RangeInv, DispatchInv, netmap
  <1>5. ASSUME NEW t \in Tasks PROVE ActivationInv(t)'
    <2>1. CASE BeginPass
      BY <1>1, <1>2, <2>1 DEF BeginPass, TaskInv, ActivationInv
    <2>2. CASE ScanTask \/ WakeTask
      BY <1>1, <1>2, <2>2 DEF ScanTask, WakeTask, TaskInv, ActivationInv, task
    <2>3. CASE DieHn
      BY <1>1, <1>2, <2>3 DEF DieHn, TaskInv, ActivationInv, task, netmap
    <2> QED BY <2>1, <2>2, <2>3
  <1>6. ASSUME NEW t \in Tasks PROVE ScanInv(t)'
    <2> SUFFICES ASSUME Synced(t), NEW r \in Rings, Scanned(t, r)'
                 PROVE  Scanned(t, r) /\ (updated \/ (cpc = "read" /\ t = ct)
                          => updated' \/ (cpc' = "read" /\ t = ct'))
      BY <1>1, <1>2 DEF TaskInv, ScanInv, netmap
    <2>1. CASE BeginPass
      BY <2>1 DEF BeginPass, Scanned, LoopVars, Tasks
    <2>2. CASE ScanTask
      <3>1. active[t]
        BY DEF Synced
      <3>2. cpc = "scan" /\ cr = 0 /\ UNCHANGED <<cr, updated>>
        BY <2>2 DEF ScanTask, LoopVars
      <3>3. ct \in Tasks /\ CoreAssumption
        BY CoreAssumption DEF TypeOK, CoordType
      <3>4. CASE active[ct]
        BY <2>2, <3>2, <3>3, <3>4 DEF ScanTask, Scanned, Rings
      <3>5. CASE ~active[ct]
        BY <2>2, <3>1, <3>2, <3>3, <3>5, CoreAssumption
           DEF ScanTask, NextTask, Scanned, Tasks
      <3> QED BY <3>4, <3>5
    <2>3. CASE WakeTask
      BY <2>3 DEF WakeTask, NextTask, Scanned
    <2>4. CASE DieHn
      BY <2>4 DEF DieHn, Scanned
    <2> QED BY <2>1, <2>2, <2>3, <2>4
  <1> QED BY <1>3, <1>4, <1>5, <1>6 DEF TaskInv

LEMMA ReadKeepsInv ==
  ASSUME CoreInv, ReadHead
  PROVE  LoopVars' /\ \A t \in Tasks : TaskInv(t)'
  <1> USE DEF CoreInv
  <1>1. cpc = "read" /\ UNCHANGED <<netmap, task>>
    BY DEF ReadHead
  <1>2. LoopVars'
    BY <1>1 DEF ReadHead, NextTask, LoopVars, InDispatch, task
  <1>3. ASSUME NEW t \in Tasks
        PROVE  /\ Synced(t)' = Synced(t)
               /\ ActivationInv(t)' /\ RangeInv(t)' /\ DispatchInv(t)'
    BY <1>1 DEF TaskInv, ActivationInv, RangeInv, DispatchInv, Activating, Synced,
       netmap, task
  <1>4. ASSUME NEW t \in Tasks, NEW r \in Rings, Synced(t),
               t < ct \/ (t = ct /\ r <= cr)
        PROVE  Dist(head[r], cheads'[r]) <= Dist(head[r], heads[t][r])
    <2>1. /\ cr \in Rings /\ ct \in Tasks /\ cheads \in [Rings -> Slots]
          /\ head[r] \in Slots /\ heads[t][r] \in Slots /\ heads[ct][cr] \in Slots
      BY DEF TypeOK, NetmapType, CoordType, TaskType
    <2>2. ASSUME Scanned(t, r)
          PROVE  /\ updated \/ t = ct
                 /\ Dist(head[r], cheads[r]) <= Dist(head[r], heads[t][r])
      BY <1>4, <2>2 DEF TaskInv, ScanInv
    <2>3. CASE r # cr
      <3>1. cheads'[r] = cheads[r]
        BY <2>1, <2>3 DEF ReadHead
      <3>2. Scanned(t, r)
        BY <1>1, <1>4, <2>1, <2>3 DEF Scanned, Rings
      <3> QED BY <2>2, <3>1, <3>2
    <2>4. CASE r = cr
      <3>1. cheads'[r] = IF updated THEN EarlierId(head[r], cheads[r], heads[ct][r])
                                    ELSE heads[ct][r]
        BY <2>1, <2>4 DEF ReadHead
      <3>2. /\ Dist(head[r], heads[t][r]) \in Slots /\ Dist(head[r], cheads[r]) \in Slots
            /\ Dist(head[r], EarlierId(head[r], cheads[r], heads[ct][r])) \in Slots
        BY <2>1, <2>4, DistType, EarlierType
      <3>3. /\ Dist(head[r], EarlierId(head[r], cheads[r], heads[ct][r]))
                  <= Dist(head[r], cheads[r])
            /\ Dist(head[r], EarlierId(head[r], cheads[r], heads[ct][r]))
                  <= Dist(head[r], heads[ct][r])
        BY <2>1, <2>4, EarlierIdIsNearest
      <3>4. CASE t = ct
        BY <3>1, <3>2, <3>3, <3>4 DEF Slots
      <3>5. CASE t < ct
        <4>1. Scanned(t, r)
          BY <1>1, <3>5 DEF Scanned
        <4>2. updated
          BY <2>1, <2>2, <3>5, <4>1 DEF Tasks
        <4> QED BY <2>2, <3>1, <3>2, <3>3, <4>1, <4>2 DEF Slots
      <3> QED BY <1>4, <3>4, <3>5
    <2> QED BY <2>3, <2>4
  <1>5. ASSUME NEW t \in Tasks PROVE ScanInv(t)'
    <2> SUFFICES ASSUME Synced(t), NEW r \in Rings, Scanned(t, r)'
                 PROVE  /\ t < ct \/ (t = ct /\ r <= cr)
                        /\ updated' \/ (cpc' = "read" /\ t = ct')
      BY <1>1, <1>3, <1>4 DEF ScanInv, netmap, task
    <2>1. cr \in Rings /\ ct \in Tasks
      BY DEF TypeOK, CoordType
    <2>2. CASE cr + 1 \in Rings
      <3>1. cr' = cr + 1 /\ UNCHANGED <<cpc, ct, updated>>
        BY <2>2 DEF ReadHead
      <3>2. t < ct \/ (t = ct /\ r <= cr)
        BY <1>1, <2>1, <3>1 DEF Scanned, Rings
      <3>3. CASE t < ct
        <4>1. Scanned(t, r)
          BY <1>1, <3>3 DEF Scanned
        <4>2. t # ct
          BY <2>1, <3>3 DEF Tasks
        <4> QED BY <3>1, <3>2, <4>1, <4>2 DEF TaskInv, ScanInv
      <3>4. CASE t = ct
        BY <1>1, <3>1, <3>2, <3>4
      <3> QED BY <3>2, <3>3, <3>4
    <2>3. CASE cr + 1 \notin Rings
      <3>1. updated'
        BY <2>3 DEF ReadHead
      <3>2. r <= cr
        BY <2>1, <2>3, CoreAssumption DEF Rings
      <3>3. t <= ct
        <4>1. CASE ct = NumTasks
          BY <4>1, CoreAssumption DEF Tasks
        <4>2. CASE ct # NumTasks
          <5>1. cpc' = "scan" /\ ct' = ct + 1
            BY <2>3, <4>2 DEF ReadHead, NextTask
          <5> QED BY <2>1, <5>1 DEF Scanned, Tasks
        <4> QED BY <4>1, <4>2
      <3> QED BY <2>1, <3>1, <3>2, <3>3 DEF Tasks
    <2> QED BY <2>2, <2>3
  <1> QED BY <1>2, <1>3, <1>5 DEF TaskInv

LEMMA ReleaseKeepsInv ==
  ASSUME CoreInv, Release
  PROVE  LoopVars' /\ \A t \in Tasks : TaskInv(t)'
  <1> USE DEF CoreInv
  <1>1. cpc = "release" /\ UNCHANGED <<tail, ct, cheads, updated, task>>
    BY DEF Release
  <1>2. cr \in Rings /\ cr' \in Rings /\ cpc' \in {"release", "poll"}
        /\ head \in [Rings -> Slots]
    BY Ranges DEF Release, TypeOK, CoordType, NetmapType
  <1>3. LoopVars'
    <2>1. \A t \in Tasks : InDispatch(t)' => ring'[t] \in Rings
      BY <1>1 DEF LoopVars, InDispatch, task
    <2>2. cpc' = "poll" => cr' = 0
      BY <1>1 DEF Release
    <2> QED BY <1>1, <1>2, <2>1, <2>2 DEF LoopVars
  <1>4. ASSUME NEW t \in Tasks
        PROVE  /\ Synced(t)' = Synced(t)
               /\ ActivationInv(t)' /\ DispatchInv(t)'
    BY <1>1 DEF TaskInv, ActivationInv, DispatchInv, Activating, Synced, task
  <1>5. ASSUME NEW t \in Tasks, Synced(t), NEW r \in Rings, r >= cr
        PROVE  updated /\ Dist(head[r], cheads[r]) <= Dist(head[r], heads[t][r])
    <2>1. Scanned(t, r)
      BY <1>1, <1>5 DEF Scanned
    <2> QED BY <1>1, <1>5, <2>1 DEF TaskInv, ScanInv
  <1>6. \A r \in Rings \ {cr} : head'[r] = head[r]
    BY <1>2 DEF Release
  <1>7. ASSUME NEW t \in Tasks PROVE RangeInv(t)'
    <2> SUFFICES ASSUME Synced(t), NEW r \in Rings
                 PROVE  InRange(head'[r], heads[t][r], tail[r])
      BY <1>1, <1>4 DEF RangeInv, task
    <2>1. InRange(head[r], heads[t][r], tail[r])
      BY DEF TaskInv, RangeInv
    <2>2. CASE head'[r] = head[r]
      BY <2>1, <2>2
    <2>3. CASE head'[r] # head[r]
      <3>1. r = cr /\ head'[r] = NewHead(r)
        BY <1>2, <1>6, <2>3 DEF Release
      <3>2. updated /\ Dist(head[r], cheads[r]) <= Dist(head[r], heads[t][r])
        BY <1>2, <1>5, <3>1 DEF Rings
      <3>3. head'[r] = cheads[r]
        BY <3>1, <3>2 DEF NewHead
      <3>4. /\ head[r] \in Slots /\ cheads[r] \in Slots
            /\ heads[t][r] \in Slots /\ tail[r] \in Slots
        BY DEF TypeOK, NetmapType, CoordType, TaskType
      <3> QED BY <2>1, <3>2, <3>3, <3>4, ReleaseKeepsRange
    <2> QED BY <2>2, <2>3
  <1>8. ASSUME NEW t \in Tasks PROVE ScanInv(t)'
    <2> SUFFICES ASSUME Synced(t), NEW r \in Rings, Scanned(t, r)'
                 PROVE  /\ updated
                        /\ Dist(head'[r], cheads[r]) <= Dist(head'[r], heads[t][r])
      BY <1>1, <1>4 DEF ScanInv, task
    <2>1. r >= cr + 1
      BY <1>1, <1>2 DEF Scanned, Release
    <2>2. head'[r] = head[r] /\ r >= cr
      BY <1>2, <1>6, <2>1 DEF Rings
    <2> QED BY <1>5, <2>2
  <1> QED BY <1>3, <1>4, <1>7, <1>8 DEF TaskInv

-----------------------------------------------------------------------------
LEMMA InvNext == CoreInv /\ [Next]_vars => CoreInv'
  <1> SUFFICES ASSUME CoreInv, [Next]_vars PROVE CoreInv'
    OBVIOUS
  <1>1. TypeOK'
    BY TypeNext DEF CoreInv
  <1>2. CASE UNCHANGED vars
    <2>1. \A t \in Tasks : Same(t)
      BY <1>2 DEF vars, task, Same
    <2>2. LoopVars'
      BY <1>2 DEF CoreInv, LoopVars, InDispatch, vars, task, coord
    <2> QED BY <1>1, <1>2, <2>1, <2>2, SameKeepsInv DEF CoreInv, vars
  <1>3. CASE \E r \in Rings : KernelRx(r)
    BY <1>1, <1>3, KernelKeepsInv DEF CoreInv
  <1>4. CASE CoordStep
    BY <1>1, <1>4, ScanKeepsInv, ReadKeepsInv, ReleaseKeepsInv DEF CoreInv, CoordStep
  <1>5. CASE \E t \in Tasks : TaskStep(t) \/ ClientStep(t)
    BY <1>1, <1>5, TaskKeepsInv DEF CoreInv
  <1> QED BY <1>2, <1>3, <1>4, <1>5 DEF Next, Halted

LEMMA InvAlways == Spec => []CoreInv
  BY InvInit, InvNext, PTL DEF Spec

(***************************************************************************)
(* Whatever the threads do, every ring index stays in its ring and every   *)
(* counter within its bound.                                               *)
(***************************************************************************)
THEOREM TypeCorrect == Spec => []TypeOK
  <1>1. CoreInv => TypeOK
    BY DEF CoreInv
  <1> QED BY <1>1, InvAlways, PTL

(***************************************************************************)
(* tasks_get_heads and s_new_pkts_hn never give the kernel a slot that a   *)
(* task, activated while the coordinator was polling, has still to read.   *)
(***************************************************************************)
THEOREM SyncedTasksKeepSlots == Spec => []SyncedInRange
  <1>1. CoreInv => SyncedInRange
    BY DEF CoreInv, TaskInv, RangeInv, SyncedInRange
  <1> QED BY <1>1, InvAlways, PTL

(***************************************************************************)
(* The assertion at the top of s_task_dispatch holds for such a task.      *)
(***************************************************************************)
THEOREM DispatchAssertion == Spec => []SyncedDispatch
  <1>1. CoreInv => SyncedDispatch
    BY DEF CoreInv, TaskInv, DispatchInv, SyncedDispatch
  <1> QED BY <1>1, InvAlways, PTL

(***************************************************************************)
(* Only a pass of s_new_pkts_hn with no synced task to protect can set a   *)
(* head outside the range that netmap allows.                              *)
(***************************************************************************)
THEOREM SyncedTasksKeepContract == Spec => SyncedKeepsContract
  <1>1. CoreInv /\ [Next]_vars => [breach' /\ ~breach => \A t \in Tasks : ~Synced(t)]_vars
    <2> SUFFICES ASSUME CoreInv, [Next]_vars, breach', ~breach,
                        NEW t \in Tasks, Synced(t)
                 PROVE  FALSE
      BY DEF vars, netmap
    <2> USE DEF CoreInv
    <2>1. ASSUME NEW u \in Tasks, TaskStep(u) \/ ClientStep(u) PROVE UNCHANGED netmap
      BY <2>1, TaskEffects
    <2>2. Release
      BY <2>1 DEF Next, KernelRx, CoordStep, BeginPass, ScanTask, ReadHead, WakeTask,
         DieHn, Halted, vars, netmap
    <2>3. cpc = "release" /\ ~InRange(head[cr], NewHead(cr), tail[cr])
      BY <2>2 DEF Release
    <2>4. cr \in Rings /\ head[cr] \in Slots /\ tail[cr] \in Slots
          /\ cheads[cr] \in Slots /\ heads[t][cr] \in Slots
      BY DEF TypeOK, NetmapType, CoordType, TaskType
    <2>5. Scanned(t, cr)
      BY <2>3, <2>4 DEF Scanned, Rings
    <2>6. /\ updated /\ Dist(head[cr], cheads[cr]) <= Dist(head[cr], heads[t][cr])
          /\ InRange(head[cr], heads[t][cr], tail[cr])
      BY <2>3, <2>4, <2>5 DEF TaskInv, ScanInv, RangeInv
    <2>7. /\ Dist(head[cr], cheads[cr]) \in Slots
          /\ Dist(head[cr], heads[t][cr]) \in Slots
          /\ Dist(head[cr], tail[cr]) \in Slots
      BY <2>4, DistType
    <2> QED BY <2>3, <2>6, <2>7 DEF InRange, NewHead, Slots
  <1> QED BY <1>1, InvAlways, PTL DEF Spec, SyncedKeepsContract

(***************************************************************************)
(* No step takes an unread frame away from a synced task: not the kernel,  *)
(* which reuses released slots, not the coordinator, not another task.     *)
(***************************************************************************)
THEOREM UnreadFramesKept == Spec => UnreadKept
  <1>1. ASSUME CoreInv, [Next]_vars, NEW t \in Tasks, NEW r \in Rings,
               Synced(t), Synced(t)'
        PROVE  KeepsUnread(t, r)
    <2> USE <1>1 DEF CoreInv
    <2>1. /\ head[r] \in Slots /\ tail \in [Rings -> Slots] /\ tail[r] \in Slots
          /\ heads[t] \in [Rings -> Slots] /\ heads[t][r] \in Slots
          /\ buf \in [Rings -> [Slots -> Seqs]]
      BY DEF TypeOK, NetmapType, TaskType
    <2>2. CASE heads'[t] = heads[t] /\ UNCHANGED <<tail, buf>>
      BY <2>2 DEF KeepsUnread, Unread
    <2>3. ASSUME NEW k \in Rings, KernelRx(k) PROVE KeepsUnread(t, r)
      <3>1. heads' = heads /\ Following(tail[k]) # head[k]
            /\ tail' = [tail EXCEPT ![k] = Following(@)]
        BY <2>3 DEF KernelRx, task
      <3>2. PICK v : buf' = [buf EXCEPT ![k][tail[k]] = v]
        BY <2>3 DEF KernelRx
      <3>3. CASE k # r
        BY <2>1, <3>1, <3>2, <3>3 DEF KeepsUnread, Unread
      <3>4. CASE k = r
        <4>1. InRange(head[r], heads[t][r], tail[r])
          BY DEF TaskInv, RangeInv
        <4>2. /\ tail[r] \notin Unread(t, r)
              /\ Unread(t, r)' = Unread(t, r) \cup {tail[r]}
          BY <2>1, <3>1, <3>4, <4>1, DeliverKeepsRange DEF Unread
        <4>3. \A i \in Slots : i # tail[r] => buf'[r][i] = buf[r][i]
          BY <2>1, <3>2, <3>4
        <4>4. Unread(t, r) \subseteq Slots
          BY DEF Unread, SlotsFrom
        <4> QED BY <4>2, <4>3, <4>4 DEF KeepsUnread
      <3> QED BY <3>3, <3>4
    <2>4. ASSUME NEW u \in Tasks, TaskStep(u) \/ ClientStep(u)
          PROVE  KeepsUnread(t, r)
      <3>1. /\ UNCHANGED <<tail, buf>>
            /\ u # t => heads'[t] = heads[t]
            /\ u = t => \/ Starts(t) \/ Copies(t) \/ Finishes(t)
                        \/ Stops(t) \/ Stays(t) \/ Advances(t)
        BY <2>4, TaskEffects DEF Same, netmap
      <3>2. CASE heads'[t] = heads[t]
        BY <2>2, <3>1, <3>2
      <3>3. CASE heads'[t] # heads[t]
        <4>1. u = t /\ ~Copies(t)
          BY <3>1, <3>3 DEF Copies, Synced
        <4>2. Advances(t)
          BY <3>1, <3>3, <4>1 DEF Starts, Finishes, Stops, Stays
        <4>3. CASE r # ring[t]
          <5>1. heads'[t][r] = heads[t][r]
            BY <2>1, <4>2, <4>3 DEF Advances
          <5> QED BY <3>1, <5>1 DEF KeepsUnread, Unread
        <4>4. CASE r = ring[t]
          <5>1. heads'[t][r] = Following(heads[t][r]) /\ heads[t][r] # tail[r]
                /\ InDispatch(t)
            BY <2>1, <4>2, <4>4 DEF Advances
          <5>2. SlotsFrom(Following(heads[t][r]), tail[r])
                  = SlotsFrom(heads[t][r], tail[r]) \ {heads[t][r]}
            BY <2>1, <5>1, ReadFirst
          <5> QED BY <3>1, <4>4, <5>1, <5>2 DEF KeepsUnread, Unread
        <4> QED BY <4>3, <4>4
      <3> QED BY <3>2, <3>3
    <2> QED BY <2>2, <2>3, <2>4 DEF Next, CoordStep, BeginPass, ScanTask, ReadHead,
               WakeTask, Release, DieHn, Halted, vars, netmap, task
  <1>2. CoreInv /\ [Next]_vars =>
          [\A t \in Tasks, r \in Rings :
             Synced(t) /\ Synced(t)' => KeepsUnread(t, r)]_vars
    BY <1>1
  <1> QED BY <1>2, InvAlways, PTL DEF Spec, UnreadKept

(***************************************************************************)
(* Automute keeps a REP task's heads from being reset in the course of a   *)
(* job: they move only forward, a frame at a time.                         *)
(***************************************************************************)
THEOREM RequestsReadOnce == Spec => ReqReadsOnce
  <1>1. ASSUME CoreInv, [Next]_vars, NEW t \in Tasks \ SubTasks,
               active[t], active'[t]
        PROVE  HeadsForward(t)
    <2> USE <1>1 DEF CoreInv
    <2>1. heads[t] \in [Rings -> Slots]
      BY DEF TypeOK, TaskType
    <2>2. CASE heads'[t] = heads[t]
      BY <2>2 DEF HeadsForward
    <2>3. ASSUME NEW u \in Tasks, TaskStep(u) \/ ClientStep(u)
          PROVE  HeadsForward(t)
      <3>1. /\ u # t => heads'[t] = heads[t]
            /\ u = t => \/ Starts(t) \/ Copies(t) \/ Finishes(t)
                        \/ Stops(t) \/ Stays(t) \/ Advances(t)
        BY <2>3, TaskEffects DEF Same
      <3>2. ~Copies(t)
        BY DEF Copies, TaskInv, ActivationInv
      <3>3. heads'[t] = heads[t] \/ Advances(t)
        BY <3>1, <3>2 DEF Starts, Finishes, Stops, Stays
      <3>4. Advances(t) => HeadsForward(t)
        BY <2>1 DEF Advances, HeadsForward
      <3> QED BY <2>2, <3>3, <3>4
    <2> QED BY <2>2, <2>3 DEF Next, KernelRx, CoordStep, BeginPass, ScanTask, ReadHead,
               WakeTask, Release, DieHn, Halted, vars, task
  <1>2. CoreInv /\ [Next]_vars =>
          [\A t \in Tasks \ SubTasks : active[t] /\ active'[t] => HeadsForward(t)]_vars
    BY <1>1
  <1> QED BY <1>2, InvAlways, PTL DEF Spec, ReqReadsOnce
=============================================================================
