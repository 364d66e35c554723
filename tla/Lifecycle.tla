----------------------------- MODULE Lifecycle ------------------------------
(***************************************************************************)
(* How tesd starts and stops: main and s_coordinator_body of bin/tesd.c,   *)
(* tasks_start, tasks_read, tasks_destroy, s_task_start, s_task_shim and   *)
(* s_task_stop of bin/tesd_tasks.c.  The main thread is the second child   *)
(* of daemonize, or the process itself when it runs in the foreground; it  *)
(* becomes the coordinator.  Each task is a zactor: a thread and a pair of *)
(* queues.  What the threads do with packets is TesCore's subject; here a  *)
(* handler may end the thread's loop.                                      *)
(***************************************************************************)
EXTENDS DaemonNg, Naturals, Sequences

CONSTANTS
  NumTasks,     \* NUM_TASKS
  TimerTasks,   \* tasks whose request handler can return TASK_ERROR
  AutoTasks,    \* tasks with autoactivate
  FinAsserts    \* tasks whose data_fin asserts that data_init has succeeded

Tasks == 1 .. NumTasks

ASSUME LifecycleAssumption ==
  /\ NumTasks \in Nat \ {0}
  /\ TimerTasks \subseteq Tasks
  /\ AutoTasks \subseteq Tasks
  /\ FinAsserts \subseteq Tasks

VARIABLES
  ifd,     \* the interface: "closed" or "open"
  cpc,     \* where the coordinator is
  ct,      \* the task it deals with
  th,      \* the threads
  data,    \* data_init has succeeded and data_fin has not run
  error,   \* self->error
  up,      \* signals from a thread to the coordinator
  stop,    \* SIG_STOP waits in the thread's pipe
  cut      \* a signal has interrupted zactor_destroy

lvars == <<ifd, cpc, ct, th, data, error, up, stop, cut>>

LifecycleInit ==
  /\ ifd = "closed"
  /\ cpc = "privileges"
  /\ ct = 1
  /\ th = [t \in Tasks |-> "none"]
  /\ data = [t \in Tasks |-> FALSE]
  /\ error = [t \in Tasks |-> FALSE]
  /\ up = [t \in Tasks |-> <<>>]
  /\ stop = [t \in Tasks |-> FALSE]
  /\ cut = FALSE

IsTesd == mode \in {"daemon", "foreground"}

\* The coordinator's and the tasks' threads exist only while the process does
Running == IsTesd /\ child2 = "run"

-----------------------------------------------------------------------------
\* s_init, the initializer: tes_if_open, then s_prepare_if
TesdInit ==
  /\ IsTesd /\ child2 = "init"
  /\ \/ Initialized /\ ifd' = "open"
     \/ InitFailed /\ UNCHANGED ifd
  /\ UNCHANGED <<mode, parent, child1, pidfile, cpc, ct, th, data, error, up,
                 stop, cut>>

\* exit
Exit == child2' = "over" /\ UNCHANGED <<mode, parent, child1, pipe, pidfile>>

DropPrivileges ==
  /\ Running /\ cpc = "privileges"
  /\ \/ cpc' = "start" /\ UNCHANGED <<fvars, ifd>>
     \/ cpc' = "exited" /\ ifd' = "closed" /\ Exit
  /\ UNCHANGED <<ct, th, data, error, up, stop, cut>>

\* tasks_destroy begins
Destroy == cpc' = "destroy" /\ ct' = 1

\* s_task_start: zactor_new starts the thread
StartTask ==
  /\ Running /\ cpc = "start"
  /\ cpc' = "await"
  /\ th' = [th EXCEPT ![ct] = "init"]
  /\ UNCHANGED <<fvars, ifd, ct, data, error, up, stop, cut>>

\* s_task_start: the second signal is SIG_INIT or SIG_DIED
AwaitTask ==
  /\ Running /\ cpc = "await" /\ up[ct] # <<>>
  /\ up' = [up EXCEPT ![ct] = Tail(up[ct])]
  /\ \/ Head(up[ct]) = "DIED" /\ Destroy
     \/ /\ Head(up[ct]) = "INIT"
        /\ IF ct = NumTasks
             THEN cpc' = "register" /\ UNCHANGED ct
             ELSE cpc' = "start" /\ ct' = ct + 1
  /\ UNCHANGED <<fvars, ifd, th, data, error, stop, cut>>

\* s_task_start: SIGINT or SIGTERM interrupts zsock_wait, and the assertion
\* that the signal is SIG_INIT fails
AwaitCut ==
  /\ Running /\ cpc = "await"
  /\ cpc' = "aborted" /\ Exit
  /\ UNCHANGED <<ifd, ct, th, data, error, up, stop, cut>>

\* tasks_read, zloop_poller and zloop_timer
Register ==
  /\ Running /\ cpc = "register"
  /\ \/ cpc' = "loop" /\ UNCHANGED ct
     \/ Destroy
  /\ UNCHANGED <<fvars, ifd, th, data, error, up, stop, cut>>

\* zloop_start returns because of SIGINT or SIGTERM, or because waking up the
\* tasks failed
LoopEnds ==
  /\ Running /\ cpc = "loop"
  /\ Destroy
  /\ UNCHANGED <<fvars, ifd, th, data, error, up, stop, cut>>

\* s_die_hn: it asserts that the signal is SIG_DIED
DieHn(t) ==
  /\ Running /\ cpc = "loop" /\ up[t] # <<>>
  /\ up' = [up EXCEPT ![t] = Tail(up[t])]
  /\ \/ Head(up[t]) = "DIED" /\ Destroy /\ UNCHANGED fvars
     \/ Head(up[t]) # "DIED" /\ cpc' = "aborted" /\ UNCHANGED ct /\ Exit
  /\ UNCHANGED <<ifd, th, data, error, stop, cut>>

-----------------------------------------------------------------------------
NextTask ==
  IF ct = NumTasks
    THEN cpc' = "close" /\ UNCHANGED ct
    ELSE cpc' = "destroy" /\ ct' = ct + 1

(***************************************************************************)
(* s_task_stop: nothing for a task that was never started; otherwise       *)
(* SIG_STOP and zactor_destroy.  Neither send waits (sndtimeo is 0), and   *)
(* zactor_destroy waits for the thread's last signal only if it could send *)
(* to it, that is, if the thread still has its end of the pipe.            *)
(***************************************************************************)
StopTask ==
  /\ Running /\ cpc = "destroy"
  /\ IF th[ct] \in {"none", "gone"}
       THEN NextTask /\ UNCHANGED stop
       ELSE /\ stop' = [stop EXCEPT ![ct] = TRUE]
            /\ cpc' = "join" /\ UNCHANGED ct
  /\ UNCHANGED <<fvars, ifd, th, data, error, up, cut>>

\* zactor_destroy takes any signal for the last one
Join ==
  /\ Running /\ cpc = "join" /\ up[ct] # <<>>
  /\ up' = [up EXCEPT ![ct] = Tail(up[ct])]
  /\ NextTask
  /\ UNCHANGED <<fvars, ifd, th, data, error, stop, cut>>

\* a further SIGINT or SIGTERM interrupts the wait
JoinCut ==
  /\ Running /\ cpc = "join"
  /\ cut' = TRUE
  /\ NextTask
  /\ UNCHANGED <<fvars, ifd, th, data, error, up, stop>>

\* tes_if_close in main, which unmaps the rings, and exit
CloseIf ==
  /\ Running
  /\ \/ cpc = "close" /\ ifd' = "closed" /\ cpc' = "exit" /\ UNCHANGED fvars
     \/ cpc = "exit" /\ cpc' = "exited" /\ Exit /\ UNCHANGED ifd
  /\ UNCHANGED <<ct, th, data, error, up, stop, cut>>

-----------------------------------------------------------------------------
\* What a step of a task's thread leaves alone
OthersIdle == UNCHANGED <<ifd, cpc, ct, cut>>

\* s_task_shim up to its loop: sockets and readers, then data_init, then
\* SIG_INIT
ThreadInit(t) ==
  /\ Running /\ th[t] = "init"
  /\ \/ /\ th' = [th EXCEPT ![t] = IF t \in AutoTasks THEN "auto" ELSE "loop"]
        /\ data' = [data EXCEPT ![t] = TRUE]
        /\ up' = [up EXCEPT ![t] = Append(@, "INIT")]
        /\ UNCHANGED error
     \/ /\ th' = [th EXCEPT ![t] = "after"]
        /\ error' = [error EXCEPT ![t] = TRUE]
        /\ UNCHANGED <<data, up>>
  /\ UNCHANGED <<fvars, stop>> /\ OthersIdle

\* task_activate for a task with autoactivate, which may fail
AutoActivate(t) ==
  /\ Running /\ th[t] = "auto"
  /\ \/ th' = [th EXCEPT ![t] = "loop"] /\ UNCHANGED error
     \/ th' = [th EXCEPT ![t] = "after"] /\ error' = [error EXCEPT ![t] = TRUE]
  /\ UNCHANGED <<fvars, data, up, stop>> /\ OthersIdle

\* Faulty variant: s_sig_hn returns 0, as it does for a wake-up
SigStopGoesOn(t) ==
  /\ Running /\ th[t] = "loop" /\ stop[t]
  /\ stop' = [stop EXCEPT ![t] = FALSE]
  /\ UNCHANGED <<fvars, th, data, error, up>> /\ OthersIdle

\* s_sig_hn gets SIG_STOP
SigStop(t) ==
  /\ Running /\ th[t] = "loop" /\ stop[t]
  /\ stop' = [stop EXCEPT ![t] = FALSE]
  /\ th' = [th EXCEPT ![t] = "after"]
  /\ UNCHANGED <<fvars, data, error, up>> /\ OthersIdle

\* The packet handler fails, which s_task_dispatch records in error, or a
\* request handler returns TASK_ERROR, which ends the loop and no more
HandlerFails(t) ==
  /\ Running /\ th[t] = "loop"
  /\ \/ error' = [error EXCEPT ![t] = TRUE]
     \/ t \in TimerTasks /\ UNCHANGED error
  /\ th' = [th EXCEPT ![t] = "after"]
  /\ UNCHANGED <<fvars, data, up, stop>> /\ OthersIdle

\* Faulty variant: SIG_DIED is sent whenever the loop has ended
DiedAlways(t) ==
  /\ Running /\ th[t] = "after"
  /\ up' = [up EXCEPT ![t] = Append(@, "DIED")]
  /\ th' = [th EXCEPT ![t] = "fin"]
  /\ UNCHANGED <<fvars, data, error, stop>> /\ OthersIdle

\* SIG_DIED is sent, only after an error
Died(t) ==
  /\ Running /\ th[t] = "after"
  /\ up' = IF error[t] THEN [up EXCEPT ![t] = Append(@, "DIED")] ELSE up
  /\ th' = [th EXCEPT ![t] = "fin"]
  /\ UNCHANGED <<fvars, data, error, stop>> /\ OthersIdle

\* data_fin, also if data_init has not run or has failed
Fin(t) ==
  /\ Running /\ th[t] = "fin"
  /\ IF t \in FinAsserts /\ ~data[t]
       THEN cpc' = "aborted" /\ Exit /\ UNCHANGED <<ifd, ct, cut, th, data>>
       ELSE /\ th' = [th EXCEPT ![t] = "closing"]
            /\ data' = [data EXCEPT ![t] = FALSE]
            /\ UNCHANGED fvars /\ OthersIdle
  /\ UNCHANGED <<error, up, stop>>

\* The sockets are closed; zactor sends its last signal and destroys the
\* thread's end of the pipe
Gone(t) ==
  /\ Running /\ th[t] = "closing"
  /\ th' = [th EXCEPT ![t] = "gone"]
  /\ up' = [up EXCEPT ![t] = Append(@, "END")]
  /\ UNCHANGED <<fvars, data, error, stop>> /\ OthersIdle

-----------------------------------------------------------------------------
CoordStep ==
  \/ DropPrivileges \/ StartTask \/ AwaitTask \/ Register
  \/ \E t \in Tasks : DieHn(t)
  \/ StopTask \/ Join \/ CloseIf

ThreadStep(t) ==
  ThreadInit(t) \/ AutoActivate(t) \/ SigStop(t) \/ Died(t) \/ Fin(t) \/ Gone(t)

LifecycleNext ==
  \/ TesdInit \/ CoordStep \/ LoopEnds \/ AwaitCut \/ JoinCut
  \/ \E t \in Tasks : ThreadStep(t) \/ HandlerFails(t)

(***************************************************************************)
(* The coordinator and the threads are scheduled, and a zloop serves a     *)
(* reader that stays ready.  No handler has to fail and nobody has to send *)
(* a signal.                                                               *)
(***************************************************************************)
LifecycleFairness ==
  /\ WF_<<fvars, lvars>>(CoordStep)
  /\ \A t \in Tasks : WF_<<fvars, lvars>>(ThreadStep(t))

-----------------------------------------------------------------------------
LifecycleTypeOK ==
  /\ ifd \in {"closed", "open"}
  /\ cpc \in {"privileges", "start", "await", "register", "loop", "destroy",
              "join", "close", "exit", "exited", "aborted"}
  /\ ct \in Tasks
  /\ th \in [Tasks -> {"none", "init", "auto", "loop", "after", "fin",
                       "closing", "gone"}]
  /\ data \in [Tasks -> BOOLEAN] /\ error \in [Tasks -> BOOLEAN]
  /\ up \in [Tasks -> Seq({"INIT", "DIED", "END"})]
  /\ stop \in [Tasks -> BOOLEAN]
  /\ cut \in BOOLEAN

(***************************************************************************)
(* By the time main closes the interface no thread reads the rings any     *)
(* more, and every task that has not itself failed has finished its        *)
(* data_fin (the capture task has closed its files and answered its        *)
(* client), unless a further signal has interrupted tasks_destroy.  This   *)
(* is what SIG_DIED being sent "only if we exited due to an error on our   *)
(* part" is for: zactor_destroy takes any signal for the last one.         *)
(***************************************************************************)
OrderlyStop ==
  cpc = "exit" /\ ~cut =>
    \A t \in Tasks :
      /\ th[t] \notin {"init", "auto", "loop"}
      /\ ~error[t] => th[t] \in {"none", "gone"} /\ ~data[t]

(***************************************************************************)
(* Whatever ends the coordinator's loop or keeps it from starting, the     *)
(* process comes to its end: tasks_destroy does not wait for ever.         *)
(***************************************************************************)
ShutsDown ==
  (Running /\ cpc \in {"destroy", "join", "close", "exit"}) ~> (child2 = "over")
=============================================================================
