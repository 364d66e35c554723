----------------------------- MODULE AppendFile -----------------------------
(***************************************************************************)
(* What the capture task expects of each of its stream and index files: an *)
(* append-only file.  Bytes are named by their position in what the task   *)
(* has appended since the file was opened, so a file whose content is      *)
(* right maps every position to itself.  The file lags behind the task     *)
(* while it is open; once it is closed it holds everything, unless a write *)
(* has failed, and even then it holds an unbroken beginning.               *)
(***************************************************************************)
EXTENDS Integers

CONSTANT MTU   \* most bytes appended at once

VARIABLES open, failed, total, file

vars == <<open, failed, total, file>>

Prefix(n) == [i \in 0 .. n - 1 |-> i]

Init == ~open /\ ~failed /\ total = 0 /\ file = Prefix(0)

Open ==
  /\ ~open /\ open'
  /\ total' = 0 /\ file' = Prefix(0)
  /\ UNCHANGED failed

Append ==
  /\ open
  /\ \E len \in 1 .. MTU : total' = total + len
  /\ UNCHANGED <<open, failed, file>>

\* Bytes reach the file in order; the last write may fail part of the way
Persist ==
  /\ open /\ ~failed
  /\ \E n \in 0 .. total :
       /\ DOMAIN file \subseteq 0 .. n - 1
       /\ file' = Prefix(n)
  /\ failed' \in BOOLEAN
  /\ UNCHANGED <<open, total>>

Close ==
  /\ open /\ ~open'
  /\ \E n \in 0 .. total :
       /\ file' = Prefix(n)
       /\ n = total \/ failed
  /\ ~failed'
  /\ UNCHANGED total

Next == Open \/ Append \/ Persist \/ Close

Spec == Init /\ [][Next]_vars
=============================================================================
