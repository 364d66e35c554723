------------------------------ MODULE DaemonNg ------------------------------
(***************************************************************************)
(* The double fork of lib/daemon_ng.c.  daemonize and fork_and_run start a *)
(* first child, which opens a pipe, starts a second child and waits for    *)
(* one byte from it, but not for ever; the parent waits for the first      *)
(* child and takes its exit status for the outcome.  The second child runs *)
(* the initializer, which the modules that extend this one supply, reports *)
(* and goes on.                                                            *)
(*                                                                         *)
(* A process that does not fork (tesd -f, a synchronous conversion) runs   *)
(* as the "second child" from its initializer on, with nobody to report    *)
(* to.                                                                     *)
(***************************************************************************)

VARIABLES
  mode,     \* "daemon" (daemonize), "async" (fork_and_run), or no fork:
            \* "foreground", "sync"
  parent,   \* "fork", "wait", what it returns, or "none"
  child1,   \* the first child
  child2,   \* where the second child is
  pipe,     \* the byte in the pipe
  pidfile   \* "old", "empty" or "pid"

fvars == <<mode, parent, child1, child2, pipe, pidfile>>

Forks == mode \in {"daemon", "async"}

\* before the second child has reported, or would report if it had forked
Starting == {"chdir", "init", "reopen", "pidfile", "ready"}

DaemonInit(modes) ==
  /\ mode \in modes
  /\ parent = IF Forks THEN "fork" ELSE "none"
  /\ child1 = "none"
  /\ child2 = IF Forks THEN "none" ELSE "init"
  /\ pipe = "empty"
  /\ pidfile = "old"

-----------------------------------------------------------------------------
FirstFork ==
  /\ parent = "fork"
  /\ \/ parent' = "failed" /\ UNCHANGED child1
     \/ parent' = "wait" /\ child1' = "setup"
  /\ UNCHANGED <<mode, child2, pipe, pidfile>>

\* pipe, setsid (daemonize only) and the second fork, or one of them fails
SecondFork ==
  /\ child1 = "setup"
  /\ \/ child1' = "exit1" /\ UNCHANGED child2
     \/ /\ child1' = "poll"
        /\ child2' = IF mode = "daemon" THEN "chdir" ELSE "init"
  /\ UNCHANGED <<mode, parent, pipe, pidfile>>

\* Faulty variant: the number of bytes read is not checked
WaitSigNoCount ==
  /\ child1 = "poll"
  /\ \/ /\ pipe # "empty"
        /\ child1' = IF pipe = "OK" THEN "exit0" ELSE "exit1"
        /\ pipe' = "read"
     \/ pipe = "empty" /\ child2 = "lost" /\ child1' = "exit0" /\ UNCHANGED pipe
     \/ child1' = "late" /\ UNCHANGED pipe
  /\ UNCHANGED <<mode, parent, child2, pidfile>>

(***************************************************************************)
(* s_wait_sig in the first child: a byte comes, the pipe is closed because *)
(* the second child has ended, or poll gives up.  After a timeout the read *)
(* end stays open until the child exits (LateExit).                        *)
(***************************************************************************)
WaitSig ==
  /\ child1 = "poll"
  /\ \/ /\ pipe # "empty"
        /\ child1' = IF pipe = "OK" THEN "exit0" ELSE "exit1"
        /\ pipe' = "read"
     \/ pipe = "empty" /\ child2 = "lost" /\ child1' = "exit1" /\ UNCHANGED pipe
     \/ child1' = "late" /\ UNCHANGED pipe
  /\ UNCHANGED <<mode, parent, child2, pidfile>>

LateExit ==
  /\ child1 = "late"
  /\ child1' = "exit1"
  /\ UNCHANGED <<mode, parent, child2, pipe, pidfile>>

\* A signal ends the first child
FirstKilled ==
  /\ child1 \in {"setup", "poll", "late"}
  /\ child1' = "killed"
  /\ UNCHANGED <<mode, parent, child2, pipe, pidfile>>

\* The parent after waitpid: daemonize returns -1 or exits with success,
\* fork_and_run returns the exit status of the first child.  WEXITSTATUS of
\* a child that a signal ended is 0.
ParentDone ==
  /\ parent = "wait"
  /\ \/ child1 \in {"exit0", "killed"} /\ parent' = "ok"
     \/ child1 = "exit1" /\ parent' = IF mode = "daemon" THEN "failed" ELSE "one"
  /\ UNCHANGED <<mode, child1, child2, pipe, pidfile>>

-----------------------------------------------------------------------------
\* s_send_sig succeeds only while the first child has the read end open
CanSend == child1 \in {"poll", "late"}

\* s_send_sig with DAEMON_ERR_MSG, then _exit
GiveUp ==
  /\ child2' = "lost"
  /\ pipe' = IF CanSend THEN "ERR" ELSE pipe

Chdir ==
  /\ child2 = "chdir"
  /\ \/ child2' = "init" /\ UNCHANGED pipe
     \/ GiveUp
  /\ UNCHANGED <<mode, parent, child1, pidfile>>

\* What follows an initializer that did not return -1
Initialized ==
  /\ child2' = CASE mode = "daemon" -> "reopen"
                 [] mode = "async" -> "ready"
                 [] OTHER -> "run"
  /\ UNCHANGED pipe

\* What follows an initializer that returned -1
InitFailed == IF Forks THEN GiveUp ELSE child2' = "lost" /\ UNCHANGED pipe

\* stdin, stdout and stderr are reopened
Reopen ==
  /\ child2 = "reopen"
  /\ \/ child2' = "pidfile" /\ UNCHANGED pipe
     \/ GiveUp
  /\ UNCHANGED <<mode, parent, child1, pidfile>>

\* The pidfile is truncated and written; a failed write is only logged
WritePidfile ==
  /\ child2 = "pidfile"
  /\ \/ GiveUp /\ UNCHANGED pidfile
     \/ /\ child2' = "ready"
        /\ pidfile' \in {"empty", "pid"}
        /\ UNCHANGED pipe
  /\ UNCHANGED <<mode, parent, child1>>

SendOk ==
  /\ child2 = "ready"
  /\ IF CanSend
       THEN child2' = "run" /\ pipe' = "OK"
       ELSE child2' = "lost" /\ UNCHANGED pipe
  /\ UNCHANGED <<mode, parent, child1, pidfile>>

\* The second child is killed, or aborts, at any time
Killed ==
  /\ child2 \in Starting \cup {"run"}
  /\ child2' = IF child2 = "run" THEN "over" ELSE "lost"
  /\ UNCHANGED <<mode, parent, child1, pipe, pidfile>>

ForkStep ==
  \/ FirstFork \/ SecondFork \/ WaitSig \/ LateExit \/ FirstKilled \/ ParentDone
  \/ Chdir \/ Reopen \/ WritePidfile \/ SendOk \/ Killed

(***************************************************************************)
(* The processes are scheduled, and poll returns when its timeout is over. *)
(* The second child owes nothing before it has reported: its initializer   *)
(* may hang.                                                               *)
(***************************************************************************)
ForkFairness ==
  WF_fvars(FirstFork \/ SecondFork \/ WaitSig \/ LateExit \/ ParentDone)

-----------------------------------------------------------------------------
ForkTypeOK ==
  /\ mode \in {"daemon", "async", "foreground", "sync"}
  /\ parent \in {"none", "fork", "wait", "ok", "failed", "one"}
  /\ child1 \in {"none", "setup", "poll", "late", "exit0", "exit1", "killed"}
  /\ child2 \in {"none", "run", "lost", "over"} \cup Starting
  /\ pipe \in {"empty", "OK", "ERR", "read"}
  /\ pidfile \in {"old", "empty", "pid"}

(***************************************************************************)
(* What the parent of daemonize or fork_and_run is told differs from what  *)
(* becomes of the second child in two cases only.  It is told of success   *)
(* though the second child did not get past its initializer or the pidfile *)
(* still names another process: then a signal has ended the first child.   *)
(* It is told of a failure though the second child goes on: then the OK    *)
(* went into the pipe between the first child's timeout and its exit.      *)
(***************************************************************************)
LaunchReported ==
  /\ parent = "ok" =>
       \/ child1 = "killed"
       \/ child2 \in {"run", "over"} /\ (mode = "daemon" => pidfile # "old")
  /\ parent \in {"failed", "one"} /\ child2 = "run" =>
       child1 = "exit1" /\ pipe = "OK"

(***************************************************************************)
(* The caller of daemonize or fork_and_run gets an answer even if the      *)
(* initializer hangs (the timeout of s_wait_sig).                          *)
(***************************************************************************)
LaunchReturns == (parent = "wait") ~> (parent # "wait")

-----------------------------------------------------------------------------
(***************************************************************************)
(* "If we fail at any point, the daemon exits and the parent returns with  *)
(* -1.  Otherwise parent exits with 0": the two never disagree.            *)
(***************************************************************************)
LaunchTrue ==
  /\ parent = "ok" => child2 \in {"run", "over"}
  /\ parent \in {"failed", "one"} => child2 # "run"
=============================================================================
