----------------------------- MODULE MCTesCore -----------------------------
(***************************************************************************)
(* TesCore for TLC.                                                        *)
(***************************************************************************)
EXTENDS TesCore

(***************************************************************************)
(* A view that leaves out values which are overwritten before they are     *)
(* read again: the static array of tasks_get_heads outside a pass and      *)
(* before its first active task, the heads of a task that is neither       *)
(* active nor being activated, and frames that are nobody's to read any    *)
(* more. With a single ring s_task_next_ring has no choice to make:        *)
(* whether the task was just activated and what frame it saw last are not  *)
(* read, and of the frames only their age matters.                         *)
(***************************************************************************)
LiveCoord ==
  IF cpc \in {"poll", "ended"}
    THEN <<cpc>>
    ELSE <<cpc, ct, cr, updated,
           [r \in Rings |-> IF updated \/ (cpc = "read" /\ r < cr)
                              THEN cheads[r] ELSE 0]>>

\* Task t's head of ring r will be read as it is
LiveHead(t, r) == active[t] \/ (Activating(t) /\ r < ring[t])

LiveHeads ==
  [t \in Tasks |-> [r \in Rings |-> IF LiveHead(t, r) THEN heads[t][r] ELSE 0]]

Ages ==
  [i \in SlotsFrom(head[0], tail[0]) |-> (fseq - buf[0][i]) % SeqMod]

LiveSlots(r) ==
  SlotsFrom(head[r], tail[r])
    \cup UNION {Unread(t, r) : t \in {u \in Tasks : LiveHead(u, r)}}

LiveSeqs ==
  IF NumRings = 1
    THEN Ages
    ELSE <<[r \in Rings |-> [i \in LiveSlots(r) |-> buf[r][i]]], fseq, prev_fseq,
           [t \in Tasks |-> active[t] /\ just_activated[t]]>>

LiveView ==
  <<head, tail, breach, LiveSeqs, LiveCoord, LiveHeads, pc, ring, active, busy,
    pipe, nsubs, synced>>
=============================================================================
