------------------------------ MODULE Process -------------------------------
(***************************************************************************)
(* The two programs that daemon_ng starts by forking, composed: tesd, as a *)
(* daemon or in the foreground, and the conversions to hdf5, asynchronous  *)
(* or not.  A behaviour is about one of them.                              *)
(***************************************************************************)
EXTENDS Lifecycle, Hdf5Conv

pvars == <<fvars, lvars, hconv>>

Init ==
  /\ DaemonInit({"daemon", "foreground", "async", "sync"})
  /\ LifecycleInit
  /\ ConvInit
  /\ IsTesd => ovrwt = "none"

\* The process is gone
Ended ==
  /\ parent \notin {"fork", "wait"}
  /\ child2 \in {"none", "lost", "over"}
  /\ UNCHANGED pvars

Next ==
  \/ ForkStep /\ UNCHANGED <<lvars, hconv>>
  \/ LifecycleNext /\ UNCHANGED hconv
  \/ ConvNext /\ UNCHANGED lvars
  \/ Ended

Spec == Init /\ [][Next]_pvars /\ ForkFairness /\ LifecycleFairness

(***************************************************************************)
(* The assertions of s_create_dset, and the types of all variables.        *)
(***************************************************************************)
ProcessAsserts ==
  /\ ForkTypeOK /\ LifecycleTypeOK /\ ConvTypeOK
  /\ ConvAsserts

(***************************************************************************)
(* Whoever waits for a process that was started is released: the caller of *)
(* daemonize or fork_and_run, and whoever stops the daemon.                *)
(***************************************************************************)
Settles == LaunchReturns /\ ShutsDown
=============================================================================
