--------------------------- MODULE Process_proofs ---------------------------
(***************************************************************************)
(* Proofs about Process, for any number of tasks, conversions and          *)
(* datasets, any clock, any file sizes and any offsets and lengths.        *)
(***************************************************************************)
EXTENDS Process, TLAPS

-----------------------------------------------------------------------------
(***************************************************************************)
(* The double fork.  LaunchReported speaks of the end only; ForkInv        *)
(* follows the byte in the pipe: who has written it, who has read it, and  *)
(* what has become of the writer since.                                    *)
(***************************************************************************)
PipeInv ==
  /\ pipe = "ERR" => child2 = "lost"
  /\ pipe = "OK" => child2 \in {"run", "over"}
  /\ pipe = "read" => child1 \in {"exit0", "exit1"}
  /\ pipe = "read" /\ child1 = "exit1" => child2 = "lost"
  /\ child1 = "exit0" => pipe = "read" /\ child2 \in {"run", "over"}

ForkInv ==
  /\ ForkTypeOK
  /\ ~Forks => parent = "none" /\ child1 = "none" /\ pipe = "empty"
  /\ parent \in {"none", "fork"} => child1 = "none"
  /\ Forks /\ child1 \in {"none", "setup"} => child2 = "none" /\ pipe = "empty"
  /\ Forks /\ child2 \in {"run", "over"} => pipe \in {"OK", "read"}
  /\ mode = "daemon" /\ child2 \in {"ready", "run", "over"} => pidfile # "old"
  /\ parent = "ok" => child1 \in {"exit0", "killed"}
  /\ parent \in {"failed", "one"} => child1 \in {"none", "exit1"}
  /\ PipeInv

LEMMA ForkInvInit == Init => ForkInv
  BY DEF Init, DaemonInit, ForkInv, ForkTypeOK, PipeInv, Forks, Starting, IsTesd

LEMMA ForkInvForkStep == ForkInv /\ ForkStep => ForkInv'
  <1> SUFFICES ASSUME ForkInv, ForkStep PROVE ForkInv'
    OBVIOUS
  <1> USE DEF ForkInv, ForkTypeOK, PipeInv, Forks, Starting
  <1>1. CASE FirstFork
    BY <1>1 DEF FirstFork
  <1>2. CASE SecondFork
    BY <1>2 DEF SecondFork
  <1>3. CASE WaitSig
    BY <1>3 DEF WaitSig
  <1>4. CASE LateExit
    BY <1>4 DEF LateExit
  <1>5. CASE ParentDone
    BY <1>5 DEF ParentDone
  <1>6. CASE Chdir
    BY <1>6 DEF Chdir, GiveUp, CanSend
  <1>7. CASE Reopen
    BY <1>7 DEF Reopen, GiveUp, CanSend
  <1>8. CASE WritePidfile
    BY <1>8 DEF WritePidfile, GiveUp, CanSend
  <1>9. CASE SendOk
    BY <1>9 DEF SendOk, CanSend
  <1>10. CASE Killed
    BY <1>10 DEF Killed
  <1>11. CASE FirstKilled
    BY <1>11 DEF FirstKilled
  <1> QED
    BY <1>1, <1>2, <1>3, <1>4, <1>5, <1>6, <1>7, <1>8, <1>9, <1>10, <1>11 DEF ForkStep

\* The initializer returns
InitStep ==
  /\ child2 = "init"
  /\ Initialized \/ InitFailed
  /\ UNCHANGED <<mode, parent, child1, pidfile>>

\* The second child ends after it has reported
ExitStep ==
  /\ child2 = "run" /\ child2' = "over"
  /\ UNCHANGED <<mode, parent, child1, pipe, pidfile>>

LEMMA ForkInvSubsteps ==
  ForkInv /\ (InitStep \/ ExitStep \/ UNCHANGED fvars) => ForkInv'
  <1> USE DEF ForkInv, ForkTypeOK, PipeInv, Forks, Starting
  <1>1. ForkInv /\ InitStep => ForkInv'
    BY DEF InitStep, Initialized, InitFailed, GiveUp, CanSend
  <1>2. ForkInv /\ ExitStep => ForkInv'
    BY DEF ExitStep
  <1>3. ForkInv /\ UNCHANGED fvars => ForkInv'
    BY DEF fvars
  <1> QED
    BY <1>1, <1>2, <1>3

\* What the threads do to the processes
LEMMA LifecycleSubsteps ==
  LifecycleNext => InitStep \/ ExitStep \/ UNCHANGED fvars
  <1> SUFFICES ASSUME LifecycleNext PROVE InitStep \/ ExitStep \/ UNCHANGED fvars
    OBVIOUS
  <1> USE DEF ExitStep, Exit, Running, fvars
  <1>1. CASE TesdInit
    BY <1>1 DEF TesdInit, InitStep
  <1>2. CASE CoordStep
    BY <1>2 DEF CoordStep, DropPrivileges, StartTask, AwaitTask, Register, DieHn,
                StopTask, Join, CloseIf
  <1>3. CASE LoopEnds \/ AwaitCut \/ JoinCut
    BY <1>3 DEF LoopEnds, AwaitCut, JoinCut
  <1>4. CASE \E t \in Tasks : ThreadStep(t) \/ HandlerFails(t)
    BY <1>4 DEF ThreadStep, HandlerFails, ThreadInit, AutoActivate, SigStop, Died,
                Fin, Gone
  <1> QED
    BY <1>1, <1>2, <1>3, <1>4 DEF LifecycleNext

\* What a conversion does to the processes, and when it may start anew
LEMMA ForkInvConv == ForkInv /\ ConvNext => ForkInv'
  <1> SUFFICES ASSUME ForkInv, ConvNext PROVE ForkInv'
    OBVIOUS
  <1>1. CASE Refuse
    BY <1>1 DEF Refuse, IsConv, ForkInv, ForkTypeOK, PipeInv, Forks, Starting
  <1>2. CASE OpenFile
    <2>1. InitStep \/ UNCHANGED fvars
      BY <1>2 DEF OpenFile, InitReturns, InitStep, Initializing
    <2> QED
      BY <2>1, ForkInvSubsteps
  <1>3. CASE CreateGroup
    <2>1. InitStep \/ UNCHANGED fvars
      BY <1>3 DEF CreateGroup, InitReturns, InitStep, Initializing
    <2> QED
      BY <2>1, ForkInvSubsteps
  <1>4. CASE MapNext
    <2>1. InitStep \/ UNCHANGED fvars
      BY <1>4 DEF MapNext, InitReturns, InitStep, Initializing
    <2> QED
      BY <2>1, ForkInvSubsteps
  <1>5. CASE WriteNext
    <2>1. ExitStep \/ UNCHANGED fvars
      BY <1>5 DEF WriteNext, WriteReturns, ExitStep, Writing
    <2> QED
      BY <2>1, ForkInvSubsteps
  <1>6. CASE ConvReturns
    <2>1. UNCHANGED fvars
      BY <1>6 DEF ConvReturns
    <2> QED
      BY <2>1, ForkInvSubsteps
  <1>7. CASE NextConv
    BY <1>7 DEF NextConv, IsConv, ForkInv, ForkTypeOK, PipeInv, Forks, Starting
  <1> QED
    BY <1>1, <1>2, <1>3, <1>4, <1>5, <1>6, <1>7 DEF ConvNext

LEMMA ForkInvNext == ForkInv /\ [Next]_pvars => ForkInv'
  <1> SUFFICES ASSUME ForkInv, [Next]_pvars PROVE ForkInv'
    OBVIOUS
  <1>1. CASE ForkStep
    BY <1>1, ForkInvForkStep
  <1>2. CASE LifecycleNext
    BY <1>2, LifecycleSubsteps, ForkInvSubsteps
  <1>3. CASE ConvNext
    BY <1>3, ForkInvConv
  <1>4. CASE UNCHANGED pvars
    BY <1>4, ForkInvSubsteps DEF pvars
  <1> QED
    BY <1>1, <1>2, <1>3, <1>4 DEF Next, Ended

LEMMA ForkInvInvariant == Spec => []ForkInv
  BY ForkInvInit, ForkInvNext, PTL DEF Spec

(***************************************************************************)
(* What the parent of daemonize or fork_and_run is told and what becomes   *)
(* of the second child differ only if a signal ends the first child, or if *)
(* the OK comes between the first child's timeout and its exit, wherever   *)
(* else one of the processes fails or is killed.                           *)
(***************************************************************************)
THEOREM LaunchIsReported == Spec => []LaunchReported
  <1>1. ForkInv => LaunchReported
    BY DEF ForkInv, PipeInv, ForkTypeOK, Forks, LaunchReported
  <1> QED
    BY <1>1, ForkInvInvariant, PTL

-----------------------------------------------------------------------------
(***************************************************************************)
(* The conversion.  OldDataKept is not inductive: a version becomes whole  *)
(* while the client's group is linked to it, which is so from the moment   *)
(* s_crt_grp has created the group until the datasets are written.         *)
(***************************************************************************)
ConvInv ==
  /\ ConvTypeOK
  /\ hpc \in {"open", "group", "map"} => inited = "pending"
  /\ hpc = "map" \/ inited = "OK" => grp = ver
  /\ hpc = "write" => inited # "pending"
  /\ OldDataKept

\* s_map_file leaves what s_create_dset asserts, for every request and file
LEMMA MapFileAsserts ==
  ASSUME NEW q \in [offset : Int, length : Int], NEW fsize \in Nat
  PROVE  /\ MapFile(q, fsize) \in [buffer : BOOLEAN, offset : Int, length : Int]
         /\ CreateAsserts(MapFile(q, fsize))
  <1> DEFINE offset == IF q.offset < 0 THEN q.offset + fsize ELSE q.offset
             empty == fsize = 0 \/ offset >= fsize \/ offset < 0
  <1>0. offset \in Int /\ q.length \in Int
    OBVIOUS
  <1>1. CASE q.length = 0
    BY <1>1 DEF MapFile, CreateAsserts
  <1>2. CASE q.length # 0 /\ empty
    BY <1>0, <1>2 DEF MapFile, CreateAsserts
  <1>3. CASE q.length # 0 /\ ~empty
    BY <1>0, <1>3 DEF MapFile, CreateAsserts
  <1> QED
    BY <1>1, <1>2, <1>3

LEMMA ConvInvInit == Init => ConvInv /\ ConvAsserts
  BY ConvAssumption
  DEF Init, ConvInit, ConvInv, ConvTypeOK, OldDataKept, ConvAsserts, Versions, Modes

\* Steps that are not of a conversion
LEMMA ConvInvUnchanged ==
  (ConvInv /\ UNCHANGED hconv => ConvInv') /\ (ConvAsserts /\ UNCHANGED hconv => ConvAsserts')
  BY DEF ConvInv, ConvTypeOK, OldDataKept, ConvAsserts, hconv

LEMMA ConvInvNext == ConvInv /\ ConvNext => ConvInv'
  <1> SUFFICES ASSUME ConvInv, ConvNext PROVE ConvInv'
    OBVIOUS
  <1> USE ConvAssumption DEF ConvInv, ConvTypeOK, OldDataKept, Versions, Modes
  <1>1. CASE Refuse
    BY <1>1 DEF Refuse
  <1>2. CASE OpenFile
    <2>1. UNCHANGED <<ver, ovrwt, dsets, written>> /\ hpc = "open"
      BY <1>2 DEF OpenFile
    <2>2. \/ UNCHANGED <<grp, bkp, whole>>
          \/ grp' = 0 /\ bkp' = [s \in Seconds |-> 0] /\ whole' = {}
      BY <1>2 DEF OpenFile
    <2>3. bkp' \in [Seconds -> 0 .. MaxConvs]
      <3>1. 0 \in 0 .. MaxConvs
        OBVIOUS
      <3>2. CASE bkp' = bkp
        BY <3>2
      <3>3. CASE bkp' = [s \in Seconds |-> 0]
        BY <3>1, <3>3
      <3> QED
        BY <2>2, <3>2, <3>3
    <2>5. OldDataKept'
      BY <2>2
    <2>4. \/ /\ hpc' = "write" /\ inited' = "EFAIL" /\ status' \in {status, "EFAIL"}
          \/ hpc' = "group" /\ UNCHANGED <<status, inited>>
      BY <1>2 DEF OpenFile, InitReturns
    <2> QED
      BY <2>1, <2>2, <2>3, <2>4, <2>5
  <1>3. CASE CreateGroup
    <2>1. CASE grp = 0 \/ (grp # 0 /\ ovrwt # "relink")
      BY <1>3, <2>1 DEF CreateGroup, InitReturns
    <2>2. CASE grp # 0 /\ ovrwt = "relink"
      <3>1. PICK s \in Seconds :
              \/ MoveFails(s) /\ InitReturns("EFAIL")
              \/ Moved(s) /\ grp' = 0 /\ InitReturns("EFAIL")
              \/ /\ Moved(s) /\ grp' = ver
                 /\ hpc' = "map" /\ UNCHANGED <<fvars, status, inited>>
        BY <1>3, <2>2 DEF CreateGroup
      <3>2. UNCHANGED <<ver, ovrwt, dsets, written, whole>> /\ hpc = "group"
        BY <1>3 DEF CreateGroup
      <3>3. \/ UNCHANGED bkp
            \/ bkp[s] = 0 /\ bkp' = [bkp EXCEPT ![s] = grp]
        BY <3>1 DEF MoveFails, Moved, Copied
      <3>4. bkp' \in [Seconds -> 0 .. MaxConvs]
        BY <3>3
      <3>5. grp' \in 0 .. MaxConvs
        BY <3>1, <2>2 DEF MoveFails
      <3>6. grp' = grp \/ (bkp[s] = 0 /\ bkp' = [bkp EXCEPT ![s] = grp])
        BY <3>1 DEF MoveFails, Moved, Copied
      <3>7. OldDataKept'
        BY <3>2, <3>3, <3>6
      <3>8. \/ /\ hpc' = "write" /\ inited' = "EFAIL" /\ status' \in {status, "EFAIL"}
            \/ hpc' = "map" /\ UNCHANGED <<status, inited>> /\ grp' = ver
        BY <3>1 DEF InitReturns
      <3> QED
        BY <3>2, <3>4, <3>5, <3>7, <3>8
    <2> QED
      BY <2>1, <2>2
  <1>4. CASE MapNext
    <2>1. UNCHANGED <<ver, ovrwt, grp, bkp, written, whole>> /\ hpc = "map"
      BY <1>4 DEF MapNext
    <2>2. dsets' \in Seq([buffer : BOOLEAN, offset : Int, length : Int])
      <3>1. CASE UNCHANGED dsets
        BY <3>1
      <3>2. CASE ~UNCHANGED dsets
        <4>1. PICK q \in DsetReqs, fsize \in FileSizes :
                dsets' = Append(dsets, MapFile(q, fsize))
          BY <1>4, <3>2 DEF MapNext
        <4>2. MapFile(q, fsize) \in [buffer : BOOLEAN, offset : Int, length : Int]
          BY MapFileAsserts
        <4> QED
          BY <4>1, <4>2
      <3> QED
        BY <3>1, <3>2
    <2>3. \/ /\ hpc' = "write" /\ inited' \in {"EFAIL", "OK"}
             /\ status' \in {status, "EFAIL", "OK"}
          \/ UNCHANGED <<hpc, status, inited>>
      BY <1>4 DEF MapNext, InitReturns
    <2> QED
      BY <2>1, <2>2, <2>3
  <1>5. CASE WriteNext
    <2>1. UNCHANGED <<ver, ovrwt, inited, grp, bkp, dsets>> /\ hpc = "write"
      BY <1>5 DEF WriteNext
    <2>2. /\ hpc' \in {"write", "done"} /\ inited # "pending"
          /\ status' \in {status, "OK"}
      BY <1>5, <2>1 DEF WriteNext, WriteReturns
    <2>3. written' \in 0 .. NumDsets
      BY <1>5 DEF WriteNext
    <2>4. whole' = whole \/ (whole' = whole \cup {ver} /\ inited = "OK")
      BY <1>5 DEF WriteNext
    <2>5. OldDataKept' /\ whole' \subseteq Versions
      BY <2>1, <2>4
    <2> QED
      BY <2>1, <2>2, <2>3, <2>5
  <1>6. CASE ConvReturns
    BY <1>6 DEF ConvReturns
  <1>7. CASE NextConv
    BY <1>7 DEF NextConv
  <1> QED
    BY <1>1, <1>2, <1>3, <1>4, <1>5, <1>6, <1>7 DEF ConvNext

LEMMA ConvAssertsNext == ConvInv /\ ConvAsserts /\ ConvNext => ConvAsserts'
  <1> SUFFICES ASSUME ConvInv, ConvAsserts, ConvNext PROVE ConvAsserts'
    OBVIOUS
  <1>1. CASE MapNext
    <2>1. dsets \in Seq([buffer : BOOLEAN, offset : Int, length : Int])
      BY DEF ConvInv, ConvTypeOK
    <2>2. CASE UNCHANGED dsets
      BY <2>2 DEF ConvAsserts
    <2>3. CASE \E q \in DsetReqs, fsize \in FileSizes :
                 dsets' = Append(dsets, MapFile(q, fsize))
      <3>1. PICK q \in DsetReqs, fsize \in FileSizes :
              dsets' = Append(dsets, MapFile(q, fsize))
        BY <2>3
      <3>2. CreateAsserts(MapFile(q, fsize))
        BY ConvAssumption, MapFileAsserts
      <3> DEFINE d == MapFile(q, fsize)
      <3>3. /\ Len(dsets') = Len(dsets) + 1 /\ Len(dsets) \in Nat
            /\ \A i \in 1 .. Len(dsets) : dsets'[i] = dsets[i]
            /\ dsets'[Len(dsets) + 1] = d
        <4> HIDE DEF d
        <4> QED BY <2>1, <3>1 DEF d
      <3>4. \A i \in 1 .. Len(dsets') : CreateAsserts(dsets'[i])
        BY <3>2, <3>3 DEF ConvAsserts
      <3> QED
        BY <3>4 DEF ConvAsserts
    <2> QED
      BY <1>1, <2>2, <2>3 DEF MapNext
  <1>2. CASE NextConv
    BY <1>2 DEF NextConv, ConvAsserts
  <1>3. CASE UNCHANGED dsets
    BY <1>3 DEF ConvAsserts
  <1> QED
    BY <1>1, <1>2, <1>3
    DEF ConvNext, Refuse, OpenFile, CreateGroup, WriteNext, ConvReturns

LEMMA ConvInvariant == Spec => [](ConvInv /\ ConvAsserts)
  <1>1. ConvInv /\ ConvAsserts /\ [Next]_pvars => (ConvInv /\ ConvAsserts)'
    <2> SUFFICES ASSUME ConvInv, ConvAsserts, [Next]_pvars
                 PROVE  ConvInv' /\ ConvAsserts'
      OBVIOUS
    <2>1. ConvNext \/ UNCHANGED hconv
      BY DEF Next, Ended, pvars
    <2> QED
      BY <2>1, ConvInvNext, ConvAssertsNext, ConvInvUnchanged
  <1> QED
    BY <1>1, ConvInvInit, PTL DEF Spec

(***************************************************************************)
(* Whatever fails in whichever conversion, a measurement that was written  *)
(* completely keeps a link, unless the file was to be replaced.            *)
(***************************************************************************)
THEOREM ConversionsKeepData == Spec => []OldDataKept
  <1>1. ConvInv => OldDataKept
    BY DEF ConvInv
  <1> QED
    BY <1>1, ConvInvariant, PTL

-----------------------------------------------------------------------------
(***************************************************************************)
(* Start and stop.  What the coordinator concludes from a signal is right  *)
(* because of which signals a thread can have sent by then: SIG_INIT is    *)
(* the first and is consumed by s_task_start, SIG_DIED means an error, and *)
(* zactor's own signal is the last thing the thread does.                  *)
(***************************************************************************)
SignalInv(t) ==
  \A i \in 1 .. Len(up[t]) :
    /\ up[t][i] = "INIT" => i = 1 /\ t = ct /\ cpc \in {"await", "aborted"}
    /\ up[t][i] = "DIED" => error[t] /\ th[t] \in {"fin", "closing", "gone"}
    /\ up[t][i] = "END" => th[t] = "gone"

ThreadInv(t) ==
  /\ th[t] \in {"none", "init"} => up[t] = <<>> /\ ~data[t]
  /\ th[t] = "init" => t = ct /\ cpc \in {"await", "aborted"}
  /\ data[t] => th[t] \in {"auto", "loop", "after", "fin"}

\* What OrderlyStop asks of a task
Stopped(t) ==
  /\ th[t] \notin {"init", "auto", "loop"}
  /\ ~error[t] => th[t] \in {"none", "gone"} /\ ~data[t]

\* tasks_start and tasks_destroy go through the tasks in order
OrderInv(t) ==
  /\ cpc = "privileges" => th[t] = "none"
  /\ cpc = "start" /\ t >= ct => th[t] = "none"
  /\ cpc = "await" /\ t > ct => th[t] = "none"
  /\ cpc \in {"destroy", "join"} /\ t < ct /\ ~cut => Stopped(t)
  /\ cpc \in {"close", "exit"} /\ ~cut => Stopped(t)

StopInv ==
  /\ LifecycleTypeOK
  /\ \A t \in Tasks : SignalInv(t) /\ ThreadInv(t) /\ OrderInv(t)

Signals == {"INIT", "DIED", "END"}

\* A signal is added at the end of a thread's queue
LEMMA AppendSignal ==
  ASSUME NEW s \in Seq(Signals), NEW e \in Signals
  PROVE  /\ Append(s, e) \in Seq(Signals)
         /\ Len(Append(s, e)) = Len(s) + 1
         /\ \A i \in 1 .. Len(s) : Append(s, e)[i] = s[i]
         /\ Append(s, e)[Len(s) + 1] = e
  OBVIOUS

\* A signal is taken from the front of a thread's queue
LEMMA TailSignal ==
  ASSUME NEW s \in Seq(Signals), s # <<>>
  PROVE  /\ Tail(s) \in Seq(Signals)
         /\ Len(s) \in Nat \ {0}
         /\ Head(s) = s[1] /\ Head(s) \in Signals
         /\ Len(Tail(s)) = Len(s) - 1
         /\ \A i \in 1 .. Len(Tail(s)) : Tail(s)[i] = s[i + 1] /\ i + 1 \in 1 .. Len(s)
  OBVIOUS

LEMMA StopInvInit == Init => StopInv
  <1> SUFFICES ASSUME Init PROVE StopInv
    OBVIOUS
  <1> USE LifecycleAssumption DEF Init, LifecycleInit
  <1>1. LifecycleTypeOK
    <2>1. up \in [Tasks -> Seq({"INIT", "DIED", "END"})]
      OBVIOUS
    <2>2. 1 \in Tasks
      BY DEF Tasks
    <2> QED
      BY <2>1, <2>2 DEF LifecycleTypeOK
  <1>2. ASSUME NEW t \in Tasks PROVE SignalInv(t) /\ ThreadInv(t) /\ OrderInv(t)
    BY DEF SignalInv, ThreadInv, OrderInv
  <1> QED
    BY <1>1, <1>2 DEF StopInv

\* A task none of whose state changes while the coordinator stands still
LEMMA StopInvOther ==
  ASSUME StopInv, NEW u \in Tasks, UNCHANGED <<cpc, ct, cut>>,
         th'[u] = th[u], data'[u] = data[u], error'[u] = error[u], up'[u] = up[u]
  PROVE  SignalInv(u)' /\ ThreadInv(u)' /\ OrderInv(u)'
  BY DEF StopInv, SignalInv, ThreadInv, OrderInv, Stopped

\* Steps of a thread
LEMMA StopInvThread ==
  ASSUME StopInv, NEW t \in Tasks, ThreadStep(t) \/ HandlerFails(t)
  PROVE  StopInv'
  <1> USE LifecycleAssumption
  <1>0. LifecycleTypeOK /\ SignalInv(t) /\ ThreadInv(t) /\ OrderInv(t)
    BY DEF StopInv
  <1>1. CASE ThreadInit(t) \/ AutoActivate(t) \/ SigStop(t) \/ HandlerFails(t)
    <2> USE DEF ThreadInit, AutoActivate, SigStop, HandlerFails, OthersIdle
    <2>1. LifecycleTypeOK'
      <3>1. Append(up[t], "INIT") \in Seq({"INIT", "DIED", "END"})
        BY <1>0, AppendSignal DEF LifecycleTypeOK, Signals
      <3>2. up' \in [Tasks -> Seq({"INIT", "DIED", "END"})]
        BY <1>0, <1>1, <3>1 DEF LifecycleTypeOK
      <3> QED
        BY <1>0, <1>1, <3>2 DEF LifecycleTypeOK
    <2>2. ASSUME NEW u \in Tasks PROVE SignalInv(u)' /\ ThreadInv(u)' /\ OrderInv(u)'
      <3>1. CASE u # t
        <4>1. /\ th'[u] = th[u] /\ data'[u] = data[u]
              /\ error'[u] = error[u] /\ up'[u] = up[u]
              /\ UNCHANGED <<cpc, ct, cut>>
          BY <1>0, <1>1, <3>1 DEF LifecycleTypeOK
        <4> QED BY <4>1, StopInvOther
      <3>2. CASE u = t
        <4>1. SignalInv(t)'
          <5>1. CASE ThreadInit(t)
            <6>1. up[t] = <<>> /\ t = ct /\ cpc \in {"await", "aborted"}
              BY <1>0, <5>1 DEF ThreadInv
            <6>2. \/ up'[t] = <<"INIT">>
                  \/ up'[t] = <<>>
              BY <1>0, <5>1, <6>1 DEF LifecycleTypeOK
            <6> QED
              BY <5>1, <6>1, <6>2 DEF SignalInv
          <5>2. CASE ~ThreadInit(t)
            <6>1. UNCHANGED <<cpc, ct, up>> /\ th[t] \in {"auto", "loop"}
              BY <1>1, <5>2
            <6> QED
              BY <1>0, <6>1 DEF SignalInv
          <5> QED BY <5>1, <5>2
        <4>2. ThreadInv(t)'
          BY <1>0, <1>1 DEF ThreadInv, LifecycleTypeOK
        <4>3. OrderInv(t)'
          BY <1>0, <1>1 DEF OrderInv, Stopped, ThreadInv, LifecycleTypeOK, Tasks
        <4> QED BY <3>2, <4>1, <4>2, <4>3
      <3> QED BY <3>1, <3>2
    <2> HIDE DEF ThreadInit, AutoActivate, SigStop, HandlerFails, OthersIdle
    <2> QED BY <2>1, <2>2 DEF StopInv
  <1>2. CASE Died(t) \/ Gone(t)
    <2> USE DEF Died, Gone, OthersIdle
    <2>1. LifecycleTypeOK'
      <3>1. /\ Append(up[t], "DIED") \in Seq(Signals)
            /\ Append(up[t], "END") \in Seq(Signals)
        BY <1>0, AppendSignal DEF LifecycleTypeOK, Signals
      <3> QED
        BY <1>0, <1>2, <3>1 DEF LifecycleTypeOK, Signals
    <2>2. ASSUME NEW u \in Tasks PROVE SignalInv(u)' /\ ThreadInv(u)' /\ OrderInv(u)'
      <3>1. CASE u # t
        <4>1. /\ th'[u] = th[u] /\ data'[u] = data[u]
              /\ error'[u] = error[u] /\ up'[u] = up[u]
              /\ UNCHANGED <<cpc, ct, cut>>
          BY <1>0, <1>2, <3>1 DEF LifecycleTypeOK
        <4> QED BY <4>1, StopInvOther
      <3>2. CASE u = t
        <4>1. SignalInv(t)'
          <5>1. CASE up' = up
            BY <1>0, <1>2, <5>1 DEF SignalInv, LifecycleTypeOK
          <5>2. CASE up' # up
            <6>1. PICK e \in {"DIED", "END"} :
                    /\ up'[t] = Append(up[t], e)
                    /\ UNCHANGED <<cpc, ct, error>>
                    /\ e = "DIED" => error[t] /\ th[t] = "after" /\ th'[t] = "fin"
                    /\ e = "END" => th[t] = "closing" /\ th'[t] = "gone"
              BY <1>0, <1>2, <5>2 DEF LifecycleTypeOK
            <6>2. /\ Len(up[t]) \in Nat /\ Len(up'[t]) = Len(up[t]) + 1
                  /\ \A i \in 1 .. Len(up[t]) : up'[t][i] = up[t][i]
                  /\ up'[t][Len(up[t]) + 1] = e
              BY <1>0, <6>1, AppendSignal DEF LifecycleTypeOK, Signals
            <6>3. \A i \in 1 .. Len(up'[t]) :
                    i \in 1 .. Len(up[t]) \/ i = Len(up[t]) + 1
              BY <6>2
            <6> HIDE DEF Died, Gone
            <6> QED
              BY <1>0, <6>1, <6>2, <6>3 DEF SignalInv
          <5> QED BY <5>1, <5>2
        <4>2. ThreadInv(t)'
          BY <1>0, <1>2 DEF ThreadInv, LifecycleTypeOK
        <4>3. OrderInv(t)'
          BY <1>0, <1>2 DEF OrderInv, Stopped, ThreadInv, LifecycleTypeOK, Tasks
        <4> QED BY <3>2, <4>1, <4>2, <4>3
      <3> QED BY <3>1, <3>2
    <2> HIDE DEF Died, Gone, OthersIdle
    <2> QED BY <2>1, <2>2 DEF StopInv
  <1>3. CASE Fin(t)
    <2>1. LifecycleTypeOK'
      BY <1>0, <1>3 DEF LifecycleTypeOK, Fin, OthersIdle
    <2>2. /\ UNCHANGED <<ct, cut, error, up>> /\ th[t] = "fin"
          /\ \/ cpc' = "aborted" /\ UNCHANGED <<th, data>>
             \/ /\ UNCHANGED cpc
                /\ th' = [th EXCEPT ![t] = "closing"]
                /\ data' = [data EXCEPT ![t] = FALSE]
      BY <1>3 DEF Fin, OthersIdle
    <2>3. ASSUME NEW u \in Tasks PROVE SignalInv(u)' /\ ThreadInv(u)' /\ OrderInv(u)'
      <3>1. SignalInv(u) /\ ThreadInv(u) /\ OrderInv(u)
        BY DEF StopInv
      <3>2. SignalInv(u)'
        BY <1>0, <2>2, <3>1 DEF SignalInv, LifecycleTypeOK
      <3>3. ThreadInv(u)'
        BY <1>0, <2>2, <3>1 DEF ThreadInv, LifecycleTypeOK
      <3>4. OrderInv(u)'
        BY <1>0, <2>2, <3>1 DEF OrderInv, Stopped, LifecycleTypeOK
      <3> QED BY <3>2, <3>3, <3>4
    <2> QED BY <2>1, <2>3 DEF StopInv
  <1> QED
    BY <1>1, <1>2, <1>3 DEF ThreadStep

\* The coordinator goes on, not from where it waits for SIG_INIT: no thread
\* is being started
LEMMA StopInvMoves ==
  ASSUME StopInv, UNCHANGED <<th, data, error, up>>, cpc \notin {"await", "aborted"}
  PROVE  \A u \in Tasks : SignalInv(u)' /\ ThreadInv(u)'
  BY DEF StopInv, SignalInv, ThreadInv

\* The coordinator takes a signal: SIG_INIT cannot be behind another one
LEMMA StopInvTakes ==
  ASSUME StopInv, NEW t \in Tasks, up[t] # <<>>,
         up' = [up EXCEPT ![t] = Tail(up[t])], UNCHANGED <<th, data, error>>,
         cpc \in {"await", "aborted"} => t = ct
  PROVE  /\ up' \in [Tasks -> Seq({"INIT", "DIED", "END"})]
         /\ \A u \in Tasks : SignalInv(u)' /\ ThreadInv(u)'
  <1>0. LifecycleTypeOK /\ SignalInv(t) /\ ThreadInv(t)
    BY DEF StopInv
  <1>1. /\ Tail(up[t]) \in Seq({"INIT", "DIED", "END"})
        /\ \A i \in 1 .. Len(Tail(up[t])) :
             Tail(up[t])[i] = up[t][i + 1] /\ i + 1 \in 1 .. Len(up[t]) /\ i + 1 # 1
    BY <1>0, TailSignal DEF LifecycleTypeOK, Signals
  <1>2. up' \in [Tasks -> Seq({"INIT", "DIED", "END"})]
    BY <1>0, <1>1 DEF LifecycleTypeOK
  <1>3. ASSUME NEW u \in Tasks PROVE SignalInv(u)' /\ ThreadInv(u)'
    <2>0. SignalInv(u) /\ ThreadInv(u)
      BY DEF StopInv
    <2>1. CASE u # t
      <3>1. up'[u] = up[u]
        BY <1>0, <2>1 DEF LifecycleTypeOK
      <3> QED
        BY <2>0, <2>1, <3>1 DEF SignalInv, ThreadInv
    <2>2. CASE u = t
      <3>1. up'[t] = Tail(up[t])
        BY <1>0 DEF LifecycleTypeOK
      <3>2. SignalInv(t)'
        BY <1>0, <1>1, <3>1 DEF SignalInv
      <3>3. ThreadInv(t)'
        BY <1>0 DEF ThreadInv
      <3> QED BY <2>2, <3>2, <3>3
    <2> QED BY <2>1, <2>2
  <1> QED BY <1>2, <1>3

\* The task that tasks_destroy is at has stopped, and it goes on
LEMMA StopInvNextTask ==
  ASSUME StopInv, NextTask, UNCHANGED <<th, data, error>>,
         cpc \in {"destroy", "join"},
         cut' \/ (UNCHANGED cut /\ (cut \/ Stopped(ct)))
  PROVE  /\ cpc' \in {"destroy", "close"} /\ ct' \in Tasks
         /\ \A u \in Tasks : OrderInv(u)'
  <1>1. ct \in Tasks /\ NumTasks \in Nat \ {0}
    BY LifecycleAssumption DEF StopInv, LifecycleTypeOK
  <1>2. cpc' \in {"destroy", "close"} /\ ct' \in Tasks
    BY <1>1 DEF NextTask, Tasks
  <1>3. ASSUME NEW u \in Tasks PROVE OrderInv(u)'
    <2>1. OrderInv(u) /\ u \in 1 .. NumTasks
      BY DEF StopInv, Tasks
    <2>2. Stopped(u) = Stopped(u)'
      BY DEF Stopped
    <2>3. CASE cut'
      BY <1>2, <2>3 DEF OrderInv
    <2>4. CASE ~cut'
      <3>1. ~cut /\ Stopped(ct) /\ (u < ct => Stopped(u))
        BY <2>1, <2>4 DEF OrderInv
      <3>2. CASE ct = NumTasks
        <4>1. u < ct \/ u = ct
          BY <1>1, <2>1, <3>2
        <4> QED
          BY <1>2, <2>2, <3>1, <3>2, <4>1 DEF OrderInv, NextTask
      <3>3. CASE ct # NumTasks
        <4>1. u < ct' => u < ct \/ u = ct
          BY <1>1, <2>1, <3>3 DEF NextTask, Tasks
        <4> QED
          BY <1>2, <2>2, <3>1, <3>3, <4>1 DEF OrderInv, NextTask
      <3> QED BY <3>2, <3>3
    <2> QED BY <2>3, <2>4
  <1> QED BY <1>2, <1>3

\* Steps of the coordinator
LEMMA StopInvCoord ==
  ASSUME StopInv, CoordStep \/ LoopEnds \/ AwaitCut \/ JoinCut
  PROVE  StopInv'
  <1>0. LifecycleTypeOK /\ ct \in 1 .. NumTasks /\ NumTasks \in Nat \ {0} /\ 1 \in Tasks
    BY LifecycleAssumption DEF StopInv, LifecycleTypeOK, Tasks
  <1>1. CASE DropPrivileges \/ Register \/ LoopEnds \/ CloseIf
    <2> USE DEF DropPrivileges, Register, LoopEnds, CloseIf, Destroy
    <2>1. LifecycleTypeOK'
      BY <1>0, <1>1 DEF LifecycleTypeOK
    <2>2. \A u \in Tasks : SignalInv(u)' /\ ThreadInv(u)'
      BY <1>1, StopInvMoves
    <2>3. ASSUME NEW u \in Tasks PROVE OrderInv(u)'
      <3>1. OrderInv(u) /\ u \in 1 .. NumTasks
        BY DEF StopInv, Tasks
      <3> QED
        BY <1>0, <1>1, <3>1 DEF OrderInv, Stopped
    <2> HIDE DEF DropPrivileges, Register, LoopEnds, CloseIf, Destroy
    <2> QED BY <2>1, <2>2, <2>3 DEF StopInv
  <1>2. CASE StartTask
    <2>1. LifecycleTypeOK'
      BY <1>0, <1>2 DEF LifecycleTypeOK, StartTask
    <2>2. ASSUME NEW u \in Tasks PROVE SignalInv(u)' /\ ThreadInv(u)' /\ OrderInv(u)'
      <3>1. SignalInv(u) /\ ThreadInv(u) /\ OrderInv(u) /\ u \in 1 .. NumTasks
        BY DEF StopInv, Tasks
      <3>2. SignalInv(u)'
        BY <1>0, <1>2, <3>1 DEF SignalInv, ThreadInv, OrderInv, LifecycleTypeOK, StartTask
      <3>3. ThreadInv(u)'
        BY <1>0, <1>2, <3>1 DEF ThreadInv, OrderInv, LifecycleTypeOK, StartTask
      <3>4. OrderInv(u)'
        BY <1>0, <1>2, <3>1 DEF OrderInv, LifecycleTypeOK, StartTask
      <3> QED BY <3>2, <3>3, <3>4
    <2> QED BY <2>1, <2>2 DEF StopInv
  <1>3. CASE AwaitTask
    <2>1. /\ up' \in [Tasks -> Seq({"INIT", "DIED", "END"})]
          /\ \A u \in Tasks : SignalInv(u)' /\ ThreadInv(u)'
      BY <1>0, <1>3, StopInvTakes DEF AwaitTask, LifecycleTypeOK
    <2>2. /\ UNCHANGED <<ifd, th, data, error, stop, cut>> /\ cpc = "await"
          /\ \/ cpc' = "destroy" /\ ct' = 1
             \/ cpc' = "register" /\ UNCHANGED ct
             \/ cpc' = "start" /\ ct' = ct + 1 /\ ct # NumTasks
      BY <1>3 DEF AwaitTask, Destroy
    <2>3. ct' \in Tasks
      BY <1>0, <2>2 DEF Tasks
    <2>4. LifecycleTypeOK'
      BY <1>0, <2>1, <2>2, <2>3 DEF LifecycleTypeOK
    <2>5. ASSUME NEW u \in Tasks PROVE OrderInv(u)'
      <3>1. OrderInv(u) /\ u \in 1 .. NumTasks
        BY DEF StopInv, Tasks
      <3> QED
        BY <1>0, <2>2, <3>1 DEF OrderInv
    <2> QED BY <2>1, <2>4, <2>5 DEF StopInv
  <1>4. CASE \E t \in Tasks : DieHn(t)
    <2>0. PICK t \in Tasks : DieHn(t)
      BY <1>4
    <2>1. /\ up' \in [Tasks -> Seq({"INIT", "DIED", "END"})]
          /\ \A u \in Tasks : SignalInv(u)' /\ ThreadInv(u)'
      BY <2>0, StopInvTakes DEF DieHn
    <2>2. /\ UNCHANGED <<ifd, th, data, error, stop, cut>>
          /\ \/ cpc' = "destroy" /\ ct' = 1
             \/ cpc' = "aborted" /\ UNCHANGED ct
      BY <2>0 DEF DieHn, Destroy
    <2>3. LifecycleTypeOK'
      BY <1>0, <2>1, <2>2 DEF LifecycleTypeOK
    <2>4. ASSUME NEW u \in Tasks PROVE OrderInv(u)'
      <3>1. u \in 1 .. NumTasks
        BY DEF Tasks
      <3> QED
        BY <2>2, <3>1 DEF OrderInv
    <2> QED BY <2>1, <2>3, <2>4 DEF StopInv
  <1>5. CASE StopTask
    <2>1. \A u \in Tasks : SignalInv(u)' /\ ThreadInv(u)'
      BY <1>5, StopInvMoves DEF StopTask
    <2>2. CASE th[ct] \in {"none", "gone"}
      <3>1. NextTask /\ UNCHANGED <<ifd, th, data, error, up, stop, cut>> /\ cpc = "destroy"
        BY <1>5, <2>2 DEF StopTask
      <3>2. Stopped(ct)
        BY <1>0, <2>2 DEF StopInv, ThreadInv, Stopped, LifecycleTypeOK
      <3>3. /\ cpc' \in {"destroy", "close"} /\ ct' \in Tasks
            /\ \A u \in Tasks : OrderInv(u)'
        BY <3>1, <3>2, StopInvNextTask
      <3>4. LifecycleTypeOK'
        BY <1>0, <3>1, <3>3 DEF LifecycleTypeOK
      <3> QED BY <2>1, <3>3, <3>4 DEF StopInv
    <2>3. CASE th[ct] \notin {"none", "gone"}
      <3>1. /\ UNCHANGED <<ifd, ct, th, data, error, up, cut>>
            /\ cpc = "destroy" /\ cpc' = "join"
            /\ stop' = [stop EXCEPT ![ct] = TRUE]
        BY <1>5, <2>3 DEF StopTask
      <3>2. LifecycleTypeOK'
        BY <1>0, <3>1 DEF LifecycleTypeOK
      <3>3. \A u \in Tasks : OrderInv(u)'
        BY <3>1 DEF StopInv, OrderInv, Stopped
      <3> QED BY <2>1, <3>2, <3>3 DEF StopInv
    <2> QED BY <2>2, <2>3
  <1>6. CASE Join
    <2>0. /\ UNCHANGED <<ifd, th, data, error, stop, cut>> /\ NextTask
          /\ cpc = "join" /\ up[ct] # <<>>
          /\ up' = [up EXCEPT ![ct] = Tail(up[ct])]
      BY <1>6 DEF Join
    <2>1. /\ up' \in [Tasks -> Seq({"INIT", "DIED", "END"})]
          /\ \A u \in Tasks : SignalInv(u)' /\ ThreadInv(u)'
      BY <1>0, <2>0, StopInvTakes DEF LifecycleTypeOK
    <2>2. Stopped(ct)
      <3>1. 1 \in 1 .. Len(up[ct]) /\ up[ct][1] \in {"INIT", "DIED", "END"}
        BY <1>0, <2>0, TailSignal DEF LifecycleTypeOK, Signals
      <3>2. SignalInv(ct) /\ ThreadInv(ct)
        BY <1>0 DEF StopInv, LifecycleTypeOK
      <3> QED
        BY <2>0, <3>1, <3>2 DEF SignalInv, ThreadInv, Stopped
    <2>3. /\ cpc' \in {"destroy", "close"} /\ ct' \in Tasks
          /\ \A u \in Tasks : OrderInv(u)'
      BY <2>0, <2>2, StopInvNextTask
    <2>4. LifecycleTypeOK'
      BY <1>0, <2>0, <2>1, <2>3 DEF LifecycleTypeOK
    <2> QED BY <2>1, <2>3, <2>4 DEF StopInv
  <1>7. CASE JoinCut
    <2>0. /\ UNCHANGED <<ifd, th, data, error, up, stop>> /\ NextTask
          /\ cpc = "join" /\ cut' = TRUE
      BY <1>7 DEF JoinCut
    <2>1. \A u \in Tasks : SignalInv(u)' /\ ThreadInv(u)'
      BY <2>0, StopInvMoves
    <2>2. /\ cpc' \in {"destroy", "close"} /\ ct' \in Tasks
          /\ \A u \in Tasks : OrderInv(u)'
      BY <2>0, StopInvNextTask
    <2>3. LifecycleTypeOK'
      BY <1>0, <2>0, <2>2 DEF LifecycleTypeOK
    <2> QED BY <2>1, <2>2, <2>3 DEF StopInv
  <1>8. CASE AwaitCut
    <2>1. /\ UNCHANGED <<ifd, ct, th, data, error, up, stop, cut>>
          /\ cpc = "await" /\ cpc' = "aborted"
      BY <1>8 DEF AwaitCut
    <2>2. LifecycleTypeOK'
      BY <1>0, <2>1 DEF LifecycleTypeOK
    <2>3. \A u \in Tasks : SignalInv(u)' /\ ThreadInv(u)' /\ OrderInv(u)'
      BY <2>1 DEF StopInv, SignalInv, ThreadInv, OrderInv
    <2> QED BY <2>2, <2>3 DEF StopInv
  <1> QED
    BY <1>1, <1>2, <1>3, <1>4, <1>5, <1>6, <1>7, <1>8 DEF CoordStep

LEMMA StopInvInvariant == Spec => []StopInv
  <1>1. StopInv /\ [Next]_pvars => StopInv'
    <2> SUFFICES ASSUME StopInv, [Next]_pvars PROVE StopInv'
      OBVIOUS
    <2>1. CASE LifecycleNext
      <3>1. CASE TesdInit
        <4>1. /\ UNCHANGED <<cpc, ct, th, data, error, up, stop, cut>>
              /\ ifd' \in {ifd, "open"}
          BY <3>1 DEF TesdInit
        <4>2. LifecycleTypeOK'
          BY <4>1 DEF StopInv, LifecycleTypeOK
        <4> QED
          BY <4>1, <4>2, StopInvOther DEF StopInv
      <3> QED
        BY <2>1, <3>1, StopInvCoord, StopInvThread DEF LifecycleNext
    <2>2. CASE UNCHANGED lvars
      <3>1. LifecycleTypeOK'
        BY <2>2 DEF StopInv, LifecycleTypeOK, lvars
      <3> QED
        BY <2>2, <3>1, StopInvOther DEF StopInv, lvars
    <2> QED
      BY <2>1, <2>2 DEF Next, Ended, pvars
  <1> QED
    BY <1>1, StopInvInit, PTL DEF Spec

(***************************************************************************)
(* When main closes the interface no thread reads the rings any more, and  *)
(* every task that did not fail has run its data_fin, however many tasks   *)
(* there are and wherever the coordinator was when it was stopped, unless  *)
(* a further signal interrupted tasks_destroy.                             *)
(***************************************************************************)
THEOREM StopsInOrder == Spec => []OrderlyStop
  <1>1. StopInv => OrderlyStop
    BY DEF StopInv, OrderInv, Stopped, OrderlyStop
  <1> QED
    BY <1>1, StopInvInvariant, PTL

(***************************************************************************)
(* The types of all variables, and the assertions of s_create_dset for     *)
(* every dataset that s_map_file has dealt with, whatever the sizes of the *)
(* files and the offsets and lengths that are asked for.                   *)
(***************************************************************************)
THEOREM ProcessAssertsHold == Spec => []ProcessAsserts
  <1>1. ForkInv /\ StopInv /\ ConvInv /\ ConvAsserts => ProcessAsserts
    BY DEF ForkInv, StopInv, ConvInv, ProcessAsserts
  <1> QED
    BY <1>1, ForkInvInvariant, StopInvInvariant, ConvInvariant, PTL
=============================================================================
