------------------------------ MODULE MCTasks -------------------------------
(***************************************************************************)
(* The average trace, histogram, info and jitter tasks for TLC.  They are  *)
(* threads without common variables, so a behaviour is that of one of      *)
(* them, chosen at the beginning; the others stay as they are.             *)
(***************************************************************************)
EXTENDS AvgTrace, Hist, Info, Jitter

VARIABLE task   \* the task that runs

tvars == <<task, avars, hvars, ivars, jvars>>

MCDefault == [ticks |-> 1, ref_ch |-> 0]

MCConfs ==
  {MCDefault, [ticks |-> 1, ref_ch |-> 1], [ticks |-> 0, ref_ch |-> 1],
   [ticks |-> 1, ref_ch |-> NHists + 1]}

AnyFrame == CHOOSE f \in FirstFrames : TRUE

Init ==
  /\ task \in {"avgtr", "hist", "info", "jitter"}
  /\ AvgInit /\ (task # "avgtr" => asrc = AnyFrame)
  /\ HistInit /\ (task # "hist" => hsrc = AnyFrame)
  /\ InfoInit
  /\ JitterInit

\* A task has ended, or nobody will talk to it any more
Ended == hdead \/ jdead \/ job = "gone" \/ ijob \in {"gone", "stuck", "crashed"}

Next ==
  \/ task = "avgtr" /\ AvgNext /\ UNCHANGED <<task, hvars, ivars, jvars>>
  \/ task = "hist" /\ HistNext /\ UNCHANGED <<task, avars, ivars, jvars>>
  \/ task = "info" /\ InfoNext /\ UNCHANGED <<task, avars, hvars, jvars>>
  \/ task = "jitter" /\ JitterNext /\ UNCHANGED <<task, avars, hvars, ivars>>
  \/ Ended /\ UNCHANGED tvars

Spec == Init /\ [][Next]_tvars /\ AvgFairness /\ JitterFairness

(***************************************************************************)
(* The assertions compiled into the histogram and the jitter tasks fail in *)
(* the cases that HistAsserts and JitterAsserts name and in no other, and  *)
(* all tasks' variables have their types.  The average trace task's one    *)
(* assertion is AvgStartsClean.                                            *)
(***************************************************************************)
TaskAsserts ==
  /\ AvgTypeOK /\ InfoTypeOK
  /\ HistTypeOK /\ HistAsserts
  /\ JitterTypeOK /\ JitterAsserts
=============================================================================
