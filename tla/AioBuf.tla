------------------------------- MODULE AioBuf -------------------------------
(***************************************************************************)
(* One stream or index file of the capture task (struct s_aiobuf_t).       *)
(* Bytes are copied into a circular buffer zone and handed in batches to   *)
(* aio_write, which reads them out of the zone behind the task's back.     *)
(* A batch is the enqueued bytes from tail on; the waiting bytes follow    *)
(* it, up to cur.  A byte is named by its position in the file.            *)
(***************************************************************************)
EXTENDS Integers

CONSTANTS
  BufSize,    \* BUFSIZE
  MTU,        \* TESPKT_MTU
  MinSize,    \* MINSIZE
  MaxBytes,   \* bound: bytes appended to one file
  Faults      \* what may go wrong with a write: "short", "error", "refused"

ASSUME AioAssumption ==
  /\ BufSize \in Nat /\ MTU \in Nat /\ MinSize \in Nat /\ MaxBytes \in Nat
  /\ 1 <= MTU /\ MTU < BufSize /\ MinSize + MTU <= BufSize

Zone == 0 .. BufSize - 1

VARIABLES
  pc,         \* where the task's thread is with this file
  tail,       \* bufzone.tail - bufzone.base
  cur,        \* bufzone.cur - bufzone.base
  waiting,    \* copied to the zone since the last aio_write
  enqueued,   \* queued for writing at the last aio_write
  size,       \* bytes known to be written
  mem,        \* the zone
  file,       \* the file's content
  aio,        \* the write in progress, and how it ended
  total       \* bytes appended since the file was opened

zone == <<tail, cur, waiting, enqueued, size>>
vars == <<pc, zone, mem, file, aio, total>>

\* There is space for another frame
Room == enqueued + waiting <= BufSize - MTU

Init ==
  /\ pc = "closed"
  /\ tail = 0 /\ cur = 0 /\ waiting = 0 /\ enqueued = 0 /\ size = 0
  /\ mem = [i \in Zone |-> 0]
  /\ file = [i \in 0 .. -1 |-> 0]
  /\ aio = "none"
  /\ total = 0

-----------------------------------------------------------------------------
\* s_open_aiobuf: the file did not exist, or is unlinked first
Open ==
  /\ pc = "closed"
  /\ pc' = "ready"
  /\ file' = [i \in 0 .. -1 |-> 0]
  /\ total' = 0
  /\ UNCHANGED <<zone, mem, aio>>

\* Faulty variant: the size is not reset for the next job
CloseAioKeepSize ==
  /\ pc' = "closed"
  /\ file' = [i \in 0 .. size - 1 |-> file[i]]
  /\ tail' = 0 /\ cur' = 0 /\ waiting' = 0 /\ enqueued' = 0
  /\ aio' = "none"
  /\ UNCHANGED <<size, mem, total>>

\* s_close_aiobuf: the file is cut to the size known to be written
CloseAio ==
  /\ pc' = "closed"
  /\ file' = [i \in 0 .. size - 1 |-> file[i]]
  /\ tail' = 0 /\ cur' = 0 /\ waiting' = 0 /\ enqueued' = 0 /\ size' = 0
  /\ aio' = "none"
  /\ UNCHANGED <<mem, total>>

\* s_try_queue_aiobuf up to its first call of s_queue_aiobuf
Copy(len) ==
  LET reserve == len - (BufSize - cur)
  IN
  /\ pc = "ready" /\ total + len <= MaxBytes
  /\ mem' = [i \in Zone |->
       IF cur <= i /\ i < cur + len THEN total + i - cur
       ELSE IF i < reserve THEN total + BufSize - cur + i ELSE mem[i]]
  /\ cur' = IF reserve < 0 THEN cur + len ELSE reserve
  /\ waiting' = waiting + len
  /\ total' = total + len
  /\ UNCHANGED <<tail, enqueued, size, file, aio>>
  /\ pc' = IF waiting' < MinSize /\ reserve < 0 /\ Room' THEN "ready" ELSE "try"

\* s_queue_aiobuf from prepare_next on: release the written batch, queue
\* the next one, which ends at the cursor or at the end of the zone.
\* aio_write may refuse a batch.
Prepare(rc) ==
  LET t == IF tail + enqueued = BufSize THEN 0 ELSE tail + enqueued
      n == IF cur < t THEN BufSize - t ELSE cur - t
  IN
  /\ size' = size + enqueued
  /\ tail' = t
  /\ enqueued' = n
  /\ waiting' = waiting - n
  /\ \/ n = 0 /\ rc = "none" /\ aio' = "none"
     \/ n > 0 /\ rc = "EINPROGRESS" /\ aio' = "busy"
     \/ n > 0 /\ rc = "failed" /\ aio' = "error" /\ "refused" \in Faults
  /\ UNCHANGED <<cur, mem, file, total>>

\* s_queue_aiobuf: rc is what it returns.  With force it waits for the
\* write in progress.  Signals are blocked in the task's thread, so
\* aio_suspend is not interrupted.
Queue(force, rc) ==
  \/ /\ enqueued > 0 /\ aio = "busy" /\ ~force
     /\ rc = "EINPROGRESS"
     /\ UNCHANGED <<zone, mem, file, aio, total>>
  \/ /\ enqueued > 0 /\ aio \in {"short", "error"}
     /\ rc = "failed"
     /\ UNCHANGED <<zone, mem, file, aio, total>>
  \/ /\ enqueued = 0 \/ aio = "done"
     /\ Prepare(rc)

Results == {"none", "EINPROGRESS", "failed"}

\* Faulty variant: keeps forcing while there is no room, whatever failed
AfterQueueRetry(rc) ==
  pc' = IF ~Room' THEN "force" ELSE IF rc = "failed" THEN "failed" ELSE "ready"

\* Faulty variant: does not force a write that is merely in progress
AfterQueueNoForce(rc) ==
  pc' = IF ~Room' THEN "aborted" ELSE IF rc = "failed" THEN "failed" ELSE "ready"

\* s_try_queue_aiobuf after a call of s_queue_aiobuf that returned rc: the
\* loop, and once it is left the assertion that there is room, which runs
\* after a failed write too and aborts the daemon.  The caller ends the job
\* when a write has failed.
AfterQueue(rc) ==
  pc' = IF ~Room' THEN (IF rc = "EINPROGRESS" THEN "force" ELSE "aborted")
        ELSE IF rc = "failed" THEN "failed" ELSE "ready"

TryQueue == pc = "try" /\ \E rc \in Results : Queue(FALSE, rc) /\ AfterQueue(rc)

ForceQueue == pc = "force" /\ \E rc \in Results : Queue(TRUE, rc) /\ AfterQueue(rc)

\* The job is over, or the task is stopped
BeginFlush ==
  /\ pc \in {"ready", "failed"}
  /\ pc' = "flush"
  /\ UNCHANGED <<zone, mem, file, aio, total>>

\* Faulty variant: does not wait for the last batch
FlushNoWait ==
  /\ pc = "flush"
  /\ \E rc \in Results :
       /\ Queue(TRUE, rc)
       /\ pc' = IF rc = "EINPROGRESS" /\ waiting' > 0 THEN "flush" ELSE "flushed"

\* s_flush
Flush ==
  /\ pc = "flush"
  /\ \E rc \in Results :
       /\ Queue(TRUE, rc)
       /\ pc' = IF rc = "EINPROGRESS" THEN "flush" ELSE "flushed"

\* Files are closed after a flush, or when a file opened later failed to
\* open and nothing has been appended yet
Close == (pc = "flushed" \/ (pc = "ready" /\ total = 0)) /\ CloseAio

\* The kernel writes n bytes of the batch at the file's end
WriteBytes(n) ==
  file' = [i \in 0 .. size + n - 1 |->
             IF i < size THEN file[i] ELSE mem[tail + i - size]]

AioDone ==
  /\ aio = "busy"
  /\ \/ aio' = "done" /\ WriteBytes(enqueued)
     \/ /\ "short" \in Faults /\ aio' = "short"
        /\ \E n \in 0 .. enqueued - 1 : WriteBytes(n)
     \/ "error" \in Faults /\ aio' = "error" /\ UNCHANGED file
  /\ UNCHANGED <<pc, zone, mem, total>>

\* The daemon is started again after an assertion has failed; the file is
\* left as it was
Restart ==
  /\ pc = "aborted"
  /\ pc' = "closed"
  /\ tail' = 0 /\ cur' = 0 /\ waiting' = 0 /\ enqueued' = 0 /\ size' = 0
  /\ mem' = [i \in Zone |-> 0]
  /\ aio' = "none"
  /\ UNCHANGED <<file, total>>

-----------------------------------------------------------------------------
QueueStep == TryQueue \/ ForceQueue \/ Flush

Next ==
  \/ Open \/ QueueStep \/ BeginFlush \/ Close \/ AioDone \/ Restart
  \/ \E len \in 1 .. MTU : Copy(len)

Spec == Init /\ [][Next]_vars

\* The task's thread runs, and the kernel ends every write it accepted
FairSpec == Spec /\ WF_vars(QueueStep) /\ WF_vars(AioDone)

-----------------------------------------------------------------------------
\* Offsets stay within the zone, positions within the file
TypeOK ==
  /\ pc \in {"closed", "ready", "try", "force", "failed", "flush", "flushed",
            "aborted"}
  /\ tail \in Zone /\ cur \in Zone
  /\ waiting \in 0 .. BufSize /\ enqueued \in 0 .. BufSize
  /\ size \in Nat /\ total \in Nat
  /\ mem \in [Zone -> Nat]
  /\ aio \in {"none", "busy", "done", "short", "error"}

(***************************************************************************)
(* The assertions at both ends of s_try_queue_aiobuf.  Whether it succeeds *)
(* or a write fails, the cursor is outside the batch being written and     *)
(* where enqueued and waiting say, going round the zone, and a frame fits  *)
(* behind it; offsets stay within the zone at all times.  The one          *)
(* assertion that can fail is that there is room at the exit, and only     *)
(* after a failed write: never because the kernel is slow.                 *)
(***************************************************************************)
ZoneConsistent ==
  /\ TypeOK
  /\ pc \in {"ready", "failed"} =>
       /\ Room
       /\ tail + enqueued <= BufSize
       /\ cur < tail \/ cur >= tail + enqueued
       /\ cur = tail + enqueued + waiting - (IF cur < tail THEN BufSize ELSE 0)
  /\ pc = "aborted" => aio \in {"short", "error"}

(***************************************************************************)
(* The assertion of room at the end of s_try_queue_aiobuf never fails.  It *)
(* does when the write in progress fails while the zone has no room for    *)
(* another frame: the daemon aborts before the caller can end the job and  *)
(* report the error.                                                       *)
(***************************************************************************)
ExitRoom == pc # "aborted"

(***************************************************************************)
(* Every byte appended is in the file or in the zone: the index entries of *)
(* the capture task (start = size + waiting + enqueued) name the right     *)
(* position in the file.                                                   *)
(***************************************************************************)
Accounted == pc # "closed" => size + enqueued + waiting = total

(***************************************************************************)
(* With asynchronous batches, wrap-around and failed writes the file is    *)
(* still an append-only file.                                              *)
(***************************************************************************)
Appending == INSTANCE AppendFile WITH
  open <- pc # "closed", failed <- aio \in {"short", "error"}

ImplementsAppendFile == Appending!Spec

(***************************************************************************)
(* The busy loop of s_try_queue_aiobuf and the one of s_flush end.         *)
(***************************************************************************)
LoopsEnd ==
  /\ pc \in {"try", "force"} ~> pc \in {"ready", "failed", "aborted"}
  /\ pc = "flush" ~> pc = "flushed"
=============================================================================
