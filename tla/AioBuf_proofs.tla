--------------------------- MODULE AioBuf_proofs ---------------------------
(***************************************************************************)
(* Proof that the buffer zone implements an append-only file, for any size *)
(* of the zone, of a frame and of a batch, and any pattern of write        *)
(* failures.                                                               *)
(***************************************************************************)
EXTENDS AioBuf, TLAPS

Used == enqueued + waiting

\* Offset in the zone after going round
Wrap(x) == IF x >= BufSize THEN x - BufSize ELSE x

Prefix(n) == Appending!Prefix(n)

Failed == aio \in {"short", "error"}

\* The cursor follows the waiting bytes, which follow the batch.  The zone
\* may be full, but never of waiting bytes only: with cur = tail it would
\* be taken for empty.
ZoneInv ==
  /\ Used <= BufSize /\ waiting < BufSize
  /\ tail + enqueued <= BufSize
  /\ cur = Wrap(tail + Used)
  /\ pc \in {"ready", "failed"} => Room
  /\ pc = "ready" /\ enqueued = 0 => waiting < MinSize \/ waiting = 0

\* A batch is being written exactly when bytes are enqueued
AioStateInv ==
  /\ enqueued = 0 <=> aio = "none"
  /\ pc = "closed" => Used = 0 /\ size = 0 /\ tail = 0
  /\ pc # "closed" => size + Used = total
  /\ pc = "flushed" => Failed \/ Used = 0
  /\ pc = "aborted" => Failed

\* The zone holds the bytes that follow those in the file
MemInv == \A k \in 0 .. Used - 1 : mem[Wrap(tail + k)] = size + k

\* The file holds the bytes up to size, and what the kernel has added
FileInv ==
  pc # "closed" =>
    \E n \in Nat :
      /\ file = Prefix(n)
      /\ aio \in {"none", "busy", "error"} => n = size
      /\ aio = "done" => n = size + enqueued
      /\ aio = "short" => size <= n /\ n < size + enqueued

AioInv == TypeOK /\ ZoneInv /\ AioStateInv /\ MemInv /\ FileInv

-----------------------------------------------------------------------------
LEMMA SumZero == \A a, b \in Nat : a + b = 0 => a = 0 /\ b = 0
  OBVIOUS

LEMMA PrefixZero == Prefix(0) = [i \in 0 .. -1 |-> 0]
  BY DEF Prefix, Appending!Prefix

LEMMA InvInit == Init => AioInv
  <1> SUFFICES ASSUME Init PROVE AioInv
    OBVIOUS
  <1> USE AioAssumption DEF Init
  <1>1. TypeOK
    BY DEF TypeOK, Zone
  <1>2. ZoneInv
    BY DEF ZoneInv, Used, Wrap, Room
  <1>3. AioStateInv
    BY DEF AioStateInv, Used
  <1>4. MemInv
    BY DEF MemInv, Used
  <1>5. FileInv
    BY DEF FileInv
  <1> QED BY <1>1, <1>2, <1>3, <1>4, <1>5 DEF AioInv

\* s_open_aiobuf
LEMMA OpenInv == ASSUME AioInv, Open PROVE AioInv'
  <1> USE AioAssumption DEF AioInv, Open, zone
  <1>1. TypeOK'
    BY DEF TypeOK
  <1>2. ZoneInv'
    BY DEF ZoneInv, AioStateInv, Used, Wrap, Room, TypeOK
  <1>3. AioStateInv'
    BY DEF AioStateInv, Used, TypeOK
  <1>4. MemInv'
    BY DEF MemInv, AioStateInv, Used, TypeOK
  <1>5. FileInv'
    <2>1. file' = Prefix(0) /\ size' = 0 /\ aio' = "none"
      BY PrefixZero DEF AioStateInv, Used, TypeOK
    <2> QED BY <2>1 DEF FileInv, Prefix
  <1> QED BY <1>1, <1>2, <1>3, <1>4, <1>5

\* s_close_aiobuf
LEMMA CloseInv == ASSUME AioInv, Close PROVE AioInv'
  <1> USE AioAssumption DEF AioInv, Close, CloseAio
  <1>1. TypeOK'
    BY DEF TypeOK, Zone
  <1>2. ZoneInv'
    BY DEF ZoneInv, Used, Wrap, Room
  <1>3. AioStateInv'
    BY DEF AioStateInv, Used
  <1>4. MemInv'
    BY DEF MemInv, Used
  <1>5. FileInv'
    BY DEF FileInv
  <1> QED BY <1>1, <1>2, <1>3, <1>4, <1>5

\* s_try_queue_aiobuf copies a frame behind the cursor: what it overwrites
\* is neither in the batch nor waiting
LEMMA CopyInv == ASSUME AioInv, NEW len \in 1 .. MTU, Copy(len) PROVE AioInv'
  <1> USE AioAssumption DEF AioInv
  <1>1. /\ tail \in Zone /\ cur \in Zone /\ waiting \in Nat /\ enqueued \in Nat
        /\ size \in Nat /\ total \in Nat /\ mem \in [Zone -> Nat]
        /\ Used + len <= BufSize /\ waiting + len < BufSize
        /\ cur = Wrap(tail + Used) /\ tail + enqueued <= BufSize
        /\ size + Used = total /\ pc = "ready"
    BY DEF Copy, TypeOK, ZoneInv, AioStateInv, Used, Room
  <1>2. /\ waiting' = waiting + len /\ total' = total + len
        /\ UNCHANGED <<tail, enqueued, size, file, aio>>
        /\ cur' = Wrap(cur + len) /\ pc' \in {"ready", "try"}
        /\ pc' = "ready" => waiting' < MinSize /\ Room'
    BY <1>1 DEF Copy, Wrap, Zone
  <1>3. mem' = [i \in Zone |->
           IF cur <= i /\ i < cur + len THEN total + i - cur
           ELSE IF i < len - (BufSize - cur) THEN total + BufSize - cur + i ELSE mem[i]]
    BY DEF Copy
  <1>4. TypeOK'
    <2>1. mem' \in [Zone -> Nat]
      <3>1. ASSUME NEW i \in Zone
            PROVE  /\ cur <= i => total + i - cur \in Nat
                   /\ total + BufSize - cur + i \in Nat
        BY <1>1 DEF Zone
      <3> QED BY <1>1, <1>3, <3>1
    <2> QED BY <1>1, <1>2, <2>1 DEF TypeOK, Used, Wrap, Zone
  <1>5. ZoneInv'
    BY <1>1, <1>2 DEF ZoneInv, Used, Wrap, Zone
  <1>6. AioStateInv'
    BY <1>1, <1>2 DEF AioStateInv, Used
  <1>7. MemInv'
    <2> SUFFICES ASSUME NEW k \in 0 .. (Used + len) - 1
                 PROVE  mem'[Wrap(tail + k)] = size + k
      <3>1. Used' = Used + len /\ \A k : Wrap(tail + k)' = Wrap(tail + k)
        BY <1>1, <1>2 DEF Used, Wrap
      <3> QED BY <1>2, <3>1 DEF MemInv
    <2>1. Wrap(tail + k) \in Zone
      BY <1>1 DEF Wrap, Zone, Used
    <2>2. CASE k < Used
      <3>1. mem[Wrap(tail + k)] = size + k
        BY <1>1, <2>2 DEF MemInv, Used
      <3>2. mem'[Wrap(tail + k)] = mem[Wrap(tail + k)]
        BY <1>1, <1>3, <2>1, <2>2 DEF Wrap, Zone, Used
      <3> QED BY <3>1, <3>2
    <2>3. CASE k >= Used
      <3> DEFINE d == k - Used
      <3>1. d \in 0 .. len - 1 /\ size + k = total + d
        BY <1>1, <2>3 DEF Used
      <3>2. Wrap(tail + k) = IF cur + d >= BufSize THEN cur + d - BufSize ELSE cur + d
        BY <1>1, <2>3 DEF Wrap, Zone, Used
      <3> HIDE DEF d
      <3>5. cur \in Int /\ total \in Int /\ d \in Int /\ len \in Int /\ cur < BufSize /\ 0 <= cur
        BY <1>1, <3>1 DEF Zone
      <3>6. 0 <= d /\ d < len /\ len < BufSize
        BY <1>1, <3>1 DEF Used
      <3>3. CASE cur + d >= BufSize
        <4> DEFINE i == cur + d - BufSize
        <4>1. /\ Wrap(tail + k) = i /\ i \in Zone /\ i < cur
              /\ i < len - (BufSize - cur) /\ total + BufSize - cur + i = total + d
          BY <3>2, <3>3, <3>5, <3>6 DEF Zone
        <4> HIDE DEF i
        <4>2. ~(cur <= i)
          BY <1>1, <4>1 DEF Zone
        <4> QED BY <1>3, <3>1, <4>1, <4>2
      <3>4. CASE cur + d < BufSize
        <4> DEFINE i == cur + d
        <4>1. /\ Wrap(tail + k) = i /\ i \in Zone /\ cur <= i /\ i < cur + len
              /\ total + i - cur = total + d
          BY <3>2, <3>4, <3>5, <3>6 DEF Zone
        <4> HIDE DEF i
        <4> QED BY <1>3, <3>1, <4>1
      <3> QED BY <1>1, <3>1, <3>3, <3>4 DEF Zone
    <2> QED BY <1>1, <2>2, <2>3 DEF Used
  <1>8. FileInv'
    BY <1>1, <1>2 DEF FileInv, Prefix
  <1> QED BY <1>4, <1>5, <1>6, <1>7, <1>8

-----------------------------------------------------------------------------
(***************************************************************************)
(* s_queue_aiobuf.  The part of the invariant that does not depend on      *)
(* where the thread is.                                                    *)
(***************************************************************************)
BatchInv ==
  /\ TypeOK /\ MemInv
  /\ Used <= BufSize /\ waiting < BufSize
  /\ tail + enqueued <= BufSize
  /\ cur = Wrap(tail + Used)
  /\ enqueued = 0 <=> aio = "none"
  /\ size + Used = total

LEMMA PrepareFacts ==
  ASSUME BatchInv, NEW rc, Prepare(rc), pc' \in
           {"closed", "ready", "try", "force", "failed", "flush", "flushed", "aborted"}
  PROVE  /\ BatchInv'
         /\ size' = size + enqueued /\ Used' = waiting
         /\ enqueued' = 0 => waiting' = 0
         /\ \/ rc = "none" /\ aio' = "none"
            \/ rc = "EINPROGRESS" /\ aio' = "busy"
            \/ rc = "failed" /\ aio' = "error"
         /\ UNCHANGED <<file, total>>
  <1> USE AioAssumption
  <1> DEFINE t == IF tail + enqueued = BufSize THEN 0 ELSE tail + enqueued
             n == IF cur < t THEN BufSize - t ELSE cur - t
  <1>1. /\ tail \in 0 .. BufSize - 1 /\ cur \in 0 .. BufSize - 1
        /\ waiting \in Nat /\ enqueued \in Nat /\ size \in Nat /\ total \in Nat
        /\ waiting < BufSize /\ tail + enqueued <= BufSize
        /\ enqueued + waiting <= BufSize
        /\ cur = IF tail + (enqueued + waiting) >= BufSize
                  THEN tail + (enqueued + waiting) - BufSize
                  ELSE tail + (enqueued + waiting)
        /\ size + (enqueued + waiting) = total
    BY DEF BatchInv, TypeOK, Zone, Used, Wrap
  <1>2. /\ size' = size + enqueued /\ tail' = t /\ enqueued' = n
        /\ waiting' = waiting - n
        /\ UNCHANGED <<cur, mem, file, total>>
        /\ \/ n = 0 /\ rc = "none" /\ aio' = "none"
           \/ n > 0 /\ rc = "EINPROGRESS" /\ aio' = "busy"
           \/ n > 0 /\ rc = "failed" /\ aio' = "error"
    BY DEF Prepare
  <1>3. /\ t \in 0 .. BufSize - 1 /\ n \in Nat /\ n <= waiting /\ t + n <= BufSize
        /\ n = 0 => waiting = 0
        /\ cur = IF t + waiting >= BufSize THEN t + waiting - BufSize ELSE t + waiting
    BY <1>1
  <1> HIDE DEF t, n
  <1>4. /\ Used' = waiting /\ enqueued' + waiting' = waiting
        /\ size' \in Nat /\ waiting' \in Nat
    BY <1>1, <1>2, <1>3 DEF Used
  <1>5. TypeOK'
    BY <1>1, <1>2, <1>3, <1>4 DEF TypeOK, BatchInv, Zone
  <1>6. MemInv'
    <2> SUFFICES ASSUME NEW k \in 0 .. waiting - 1
                 PROVE  mem[Wrap(t + k)] = (size + enqueued) + k
      <3>1. \A k : Wrap(tail + k)' = Wrap(t + k)
        BY <1>2 DEF Wrap
      <3> QED BY <1>2, <1>4, <3>1 DEF MemInv
    <2>1. enqueued + k \in 0 .. Used - 1
      BY <1>1 DEF Used
    <2>2. mem[Wrap(tail + (enqueued + k))] = size + (enqueued + k)
      BY <2>1 DEF BatchInv, MemInv
    <2>3. Wrap(tail + (enqueued + k)) = Wrap(t + k)
      BY <1>1 DEF Wrap, t
    <2> QED BY <1>1, <2>2, <2>3
  <1>7. cur' = Wrap(tail + Used)' /\ Used' <= BufSize /\ waiting' < BufSize
    BY <1>1, <1>2, <1>3, <1>4 DEF Wrap
  <1>8. /\ (tail + enqueued <= BufSize)'
        /\ (enqueued = 0 <=> aio = "none")' /\ (size + Used = total)'
    BY <1>1, <1>2, <1>3, <1>4
  <1>9. enqueued' = 0 => waiting' = 0
    BY <1>1, <1>2, <1>3
  <1>10. BatchInv'
    BY <1>5, <1>6, <1>7, <1>8 DEF BatchInv
  <1> QED BY <1>2, <1>4, <1>9, <1>10

\* What a call of s_queue_aiobuf leaves behind
LEMMA QueueFacts ==
  ASSUME AioInv, pc # "closed", NEW force \in BOOLEAN, NEW rc \in Results,
         Queue(force, rc), pc' \in {"ready", "force", "failed", "flush", "flushed", "aborted"}
  PROVE  /\ BatchInv' /\ FileInv'
         /\ rc = "none" => Used' = 0
         /\ rc = "failed" <=> Failed'
         /\ rc = "EINPROGRESS" => enqueued' > 0
         /\ Failed => Failed'
         /\ UNCHANGED <<file, total>>
  <1>1. BatchInv
    BY DEF AioInv, BatchInv, ZoneInv, AioStateInv
  <1>2. CASE UNCHANGED <<zone, mem, file, aio, total>>
    <2>1. \/ rc = "EINPROGRESS" /\ aio = "busy" /\ enqueued > 0
          \/ rc = "failed" /\ Failed
          \/ aio = "none" /\ rc = "none" /\ Used = 0
      <3>1. CASE Prepare(rc)
        <4>1. /\ size' = size + enqueued /\ Used' = waiting
              /\ enqueued' = 0 => waiting' = 0
              /\ \/ rc = "none" /\ aio' = "none"
                 \/ rc = "EINPROGRESS" /\ aio' = "busy"
                 \/ rc = "failed" /\ aio' = "error"
          BY <1>1, <3>1, PrepareFacts
        <4> QED BY <1>2, <4>1 DEF zone, Failed, AioInv, AioStateInv, TypeOK, Used
      <3> QED BY <3>1 DEF Queue, Failed
    <2>2. BatchInv'
      BY <1>1, <1>2 DEF BatchInv, TypeOK, MemInv, Used, Wrap, zone
    <2>3. FileInv'
      BY <1>2 DEF AioInv, FileInv, Prefix, zone
    <2>4. Used' = Used /\ enqueued' = enqueued /\ Failed' = Failed
      BY <1>2 DEF Failed, Used, zone
    <2> QED BY <1>2, <2>1, <2>2, <2>3, <2>4 DEF Failed
  <1>3. CASE Prepare(rc) /\ (enqueued = 0 \/ aio = "done")
    <2>1. /\ BatchInv'
          /\ size' = size + enqueued /\ Used' = waiting
          /\ enqueued' = 0 => waiting' = 0
          /\ \/ rc = "none" /\ aio' = "none"
             \/ rc = "EINPROGRESS" /\ aio' = "busy"
             \/ rc = "failed" /\ aio' = "error"
          /\ UNCHANGED <<file, total>>
      BY <1>1, <1>3, PrepareFacts
    <2>2. enqueued \in Nat /\ size \in Nat /\ enqueued' \in Nat
          /\ (enqueued' = 0 <=> aio' = "none") /\ Used' = enqueued' + waiting'
      BY <2>1 DEF AioInv, TypeOK, BatchInv, Used
    <2>3. ~Failed
      BY <1>3 DEF AioInv, AioStateInv, Failed
    <2>4. file = Prefix(size + enqueued)
      <3>1. PICK m \in Nat : /\ file = Prefix(m)
                             /\ aio \in {"none", "busy", "error"} => m = size
                             /\ aio = "done" => m = size + enqueued
        BY DEF AioInv, FileInv
      <3>2. m = size + enqueued
        BY <1>3, <2>2, <3>1 DEF AioInv, AioStateInv
      <3> QED BY <3>1, <3>2
    <2>5. FileInv'
      <3>1. size' \in Nat
        BY <2>1, <2>2
      <3>2. aio' \in {"none", "busy", "error"} /\ Prefix(size)' = file'
        BY <2>1, <2>4 DEF Prefix, Appending!Prefix
      <3> QED BY <3>1, <3>2 DEF FileInv, Prefix, Appending!Prefix
    <2> QED BY <2>1, <2>2, <2>3, <2>5 DEF Failed
  <1> QED BY <1>2, <1>3 DEF Queue

\* The two calls of s_queue_aiobuf in s_try_queue_aiobuf, and the one in
\* s_flush
LEMMA QueueStepInv ==
  ASSUME AioInv, QueueStep
  PROVE  /\ AioInv' /\ pc # "closed" /\ pc' # "closed"
         /\ UNCHANGED <<file, total>>
         /\ Failed => Failed'
  <1> USE AioAssumption
  <1>1. PICK force \in BOOLEAN, rc \in Results :
          /\ Queue(force, rc) /\ pc # "closed"
          /\ \/ AfterQueue(rc)
             \/ pc' = IF rc = "EINPROGRESS" THEN "flush" ELSE "flushed"
    BY DEF QueueStep, TryQueue, ForceQueue, Flush
  <1>2. pc' \in {"ready", "force", "failed", "flush", "flushed", "aborted"}
    BY <1>1 DEF AfterQueue
  <1>3. /\ BatchInv' /\ FileInv'
        /\ rc = "none" => Used' = 0
        /\ rc = "failed" <=> Failed'
        /\ rc = "EINPROGRESS" => enqueued' > 0
        /\ Failed => Failed'
        /\ UNCHANGED <<file, total>>
    BY <1>1, <1>2, QueueFacts
  <1>4. /\ pc' = "ready" => rc = "none" \/ (rc = "EINPROGRESS" /\ Room')
        /\ pc' = "failed" => Room'
        /\ pc' = "aborted" => ~Room' /\ rc \in {"none", "failed"}
        /\ pc' = "flushed" => rc \in {"none", "failed"}
    BY <1>1 DEF AfterQueue, Results
  <1>5. enqueued' \in Nat /\ waiting' \in Nat /\ Used' = enqueued' + waiting'
    BY <1>3 DEF BatchInv, TypeOK, Used
  <1>8. ASSUME rc = "none" PROVE enqueued' = 0 /\ waiting' = 0
    <2>1. Used' = 0
      BY <1>3, <1>8
    <2>2. enqueued' + waiting' = 0
      BY <1>5, <2>1
    <2> QED BY <1>5, <2>2, SumZero
  <1>9. rc = "none" => Room'
    BY <1>8 DEF Room
  <1>6. ZoneInv'
    <2>1. pc' \in {"ready", "failed"} => Room'
      BY <1>4, <1>9
    <2>2. pc' = "ready" /\ enqueued' = 0 => waiting' = 0
      <3>1. rc = "EINPROGRESS" => enqueued' # 0
        BY <1>3, <1>5
      <3> QED BY <1>4, <1>8, <3>1
    <2> QED BY <1>3, <2>1, <2>2 DEF BatchInv, ZoneInv
  <1>7. AioStateInv'
    BY <1>2, <1>3, <1>4, <1>9 DEF BatchInv, AioStateInv
  <1> QED BY <1>1, <1>2, <1>3, <1>6, <1>7 DEF AioInv, BatchInv

\* What the kernel has written is what the zone holds: the file goes on
\* with the byte that follows
LEMMA WritePrefix ==
  ASSUME AioInv, pc # "closed", aio = "busy", NEW n \in 0 .. enqueued, WriteBytes(n)
  PROVE  file' = Prefix(size + n) /\ file = Prefix(size)
  <1> USE AioAssumption DEF AioInv
  <1>1. file = Prefix(size) /\ size \in Nat /\ enqueued \in Nat /\ tail \in Zone
        /\ tail + enqueued <= BufSize /\ waiting \in Nat
    BY DEF FileInv, TypeOK, ZoneInv
  <1>2. ASSUME NEW i \in 0 .. size + n - 1
        PROVE  (IF i < size THEN file[i] ELSE mem[tail + i - size]) = i
    <2>1. CASE i < size
      BY <1>1, <2>1 DEF Prefix, Appending!Prefix
    <2>2. CASE i >= size
      <3> DEFINE k == i - size
      <3>1. k \in 0 .. Used - 1 /\ tail + k < BufSize /\ tail + k = tail + i - size
            /\ size + k = i
        BY <1>1, <2>2 DEF Used, Zone
      <3>2. mem[Wrap(tail + k)] = size + k
        BY <3>1 DEF MemInv
      <3>3. Wrap(tail + k) = tail + k
        BY <1>1, <3>1 DEF Wrap, Zone
      <3> QED BY <1>1, <2>2, <3>1, <3>2, <3>3
    <2> QED BY <1>1, <2>1, <2>2
  <1>3. file' = [i \in 0 .. size + n - 1 |-> i]
    BY <1>2 DEF WriteBytes
  <1> QED BY <1>1, <1>3 DEF Prefix, Appending!Prefix

\* AioDone adds bytes to the file, possibly none
LEMMA AioDoneFacts ==
  ASSUME AioInv, AioDone
  PROVE  \E n \in 0 .. enqueued :
           /\ file' = Prefix(size + n) /\ file = Prefix(size)
           /\ aio' = "done" => n = enqueued
           /\ aio' = "short" => n < enqueued
           /\ aio' = "error" => n = 0
           /\ aio' \in {"done", "short", "error"}
  <1>1. aio = "busy" /\ pc # "closed" /\ enqueued \in Nat /\ size \in Nat
    BY DEF AioDone, AioInv, AioStateInv, TypeOK, Used
  <1>2. CASE aio' = "done" /\ WriteBytes(enqueued)
    BY <1>1, <1>2, WritePrefix
  <1>3. ASSUME aio' = "short", NEW m \in 0 .. enqueued - 1, WriteBytes(m)
        PROVE  file' = Prefix(size + m) /\ file = Prefix(size) /\ m \in 0 .. enqueued
               /\ m < enqueued
    BY <1>1, <1>3, WritePrefix
  <1>4. CASE aio' = "error" /\ UNCHANGED file
    <2>1. file = Prefix(size)
      BY <1>1 DEF AioInv, FileInv
    <2> QED BY <1>1, <1>4, <2>1
  <1> QED BY <1>1, <1>2, <1>3, <1>4 DEF AioDone

LEMMA AioDoneInv == ASSUME AioInv, AioDone PROVE AioInv'
  <1> USE DEF AioInv
  <1>1. aio = "busy" /\ UNCHANGED <<pc, tail, cur, waiting, enqueued, size, mem, total>>
    BY DEF AioDone, zone
  <1>2. PICK n \in 0 .. enqueued :
           /\ file' = Prefix(size + n)
           /\ aio' = "done" => n = enqueued
           /\ aio' = "short" => n < enqueued
           /\ aio' = "error" => n = 0
           /\ aio' \in {"done", "short", "error"}
    BY AioDoneFacts
  <1>3. TypeOK'
    BY <1>1, <1>2 DEF TypeOK
  <1>4. ZoneInv' /\ MemInv'
    BY <1>1 DEF ZoneInv, MemInv, Used, Wrap, Room
  <1>5. AioStateInv'
    BY <1>1, <1>2 DEF AioStateInv, Used, Failed
  <1>6. FileInv'
    <2>1. size + n \in Nat /\ size \in Nat /\ enqueued \in Nat
      BY DEF TypeOK
    <2>2. file' = Prefix(size + n)
      BY <1>2
    <2> SUFFICES \E m \in Nat :
                   /\ file' = Prefix(m)
                   /\ aio' \in {"none", "busy", "error"} => m = size
                   /\ aio' = "done" => m = size + enqueued
                   /\ aio' = "short" => size <= m /\ m < size + enqueued
      BY <1>1 DEF FileInv, Prefix, Appending!Prefix
    <2>3. /\ aio' \in {"none", "busy", "error"} => size + n = size
          /\ aio' = "done" => size + n = size + enqueued
          /\ aio' = "short" => size <= size + n /\ size + n < size + enqueued
      BY <1>2, <2>1
    <2> QED BY <2>1, <2>2, <2>3
  <1> QED BY <1>3, <1>4, <1>5, <1>6

LEMMA BeginFlushInv == ASSUME AioInv, BeginFlush PROVE AioInv'
  BY DEF AioInv, BeginFlush, zone, TypeOK, ZoneInv, AioStateInv, MemInv, FileInv,
     Used, Wrap, Room, Failed, Prefix

\* A new process after a failed assertion
LEMMA RestartInv == ASSUME AioInv, Restart PROVE AioInv'
  <1> USE AioAssumption DEF AioInv, Restart
  <1>1. TypeOK'
    BY DEF TypeOK, Zone
  <1>2. ZoneInv'
    BY DEF ZoneInv, Used, Wrap, Room
  <1>3. AioStateInv'
    BY DEF AioStateInv, Used
  <1>4. MemInv'
    BY DEF MemInv, Used
  <1>5. FileInv'
    BY DEF FileInv
  <1> QED BY <1>1, <1>2, <1>3, <1>4, <1>5

LEMMA InvNext == AioInv /\ [Next]_vars => AioInv'
  <1> SUFFICES ASSUME AioInv, [Next]_vars PROVE AioInv'
    OBVIOUS
  <1>1. CASE UNCHANGED vars
    BY <1>1 DEF AioInv, vars, zone, TypeOK, ZoneInv, AioStateInv, MemInv, FileInv,
       Used, Wrap, Room, Failed, Prefix
  <1> QED BY <1>1, OpenInv, QueueStepInv, BeginFlushInv, CloseInv, AioDoneInv, CopyInv,
         RestartInv DEF Next

LEMMA InvAlways == Spec => []AioInv
  BY InvInit, InvNext, PTL DEF Spec

(***************************************************************************)
(* The assertions of s_try_queue_aiobuf hold, whatever the sizes of the    *)
(* frames and the speed of the kernel, provided MINSIZE + TESPKT_MTU is at *)
(* most BUFSIZE; the one that there is room at the exit fails only after a *)
(* write has failed.                                                       *)
(***************************************************************************)
THEOREM ZoneAssertions == Spec => []ZoneConsistent
  <1>1. AioInv => ZoneConsistent
    BY AioAssumption
       DEF AioInv, TypeOK, ZoneInv, AioStateInv, ZoneConsistent, Failed, Used, Wrap, Room, Zone
  <1> QED BY <1>1, InvAlways, PTL

(***************************************************************************)
(* Positions recorded in the index files are positions in the data files.  *)
(***************************************************************************)
THEOREM BytesAccounted == Spec => []Accounted
  <1>1. AioInv => Accounted
    BY DEF AioInv, TypeOK, AioStateInv, Accounted, Used
  <1> QED BY <1>1, InvAlways, PTL

-----------------------------------------------------------------------------
(***************************************************************************)
(* Every step is a step of the append-only file, or invisible to it.       *)
(***************************************************************************)
LEMMA InitRefines == Init => Appending!Init
  BY PrefixZero DEF Init, Appending!Init, Prefix, Failed

LEMMA OpenRefines == ASSUME AioInv, Open PROVE Appending!Open
  <1>1. file' = Prefix(0)
    BY PrefixZero DEF Open
  <1> QED BY <1>1 DEF Open, Appending!Open, Prefix

LEMMA CopyRefines ==
  ASSUME AioInv, NEW len \in 1 .. MTU, Copy(len) PROVE Appending!Append
  BY DEF Copy, Appending!Append

LEMMA QueueRefines ==
  ASSUME AioInv, QueueStep PROVE [Appending!Next]_(Appending!vars)
  <1>1. /\ pc # "closed" /\ pc' # "closed" /\ UNCHANGED <<file, total>>
        /\ Failed => Failed'
    BY QueueStepInv
  <1>2. CASE Failed' = Failed
    BY <1>1, <1>2 DEF Appending!vars, Failed
  <1>3. CASE ~Failed /\ Failed'
    <2>1. PICK n \in Nat : /\ file = Prefix(n)
                           /\ aio \in {"none", "busy", "error"} => n = size
                           /\ aio = "done" => n = size + enqueued
      BY <1>1 DEF AioInv, FileInv
    <2>2. n \in 0 .. total
      BY <1>1, <1>3, <2>1 DEF AioInv, TypeOK, AioStateInv, Used, Failed
    <2>3. DOMAIN file \subseteq 0 .. n - 1 /\ file' = Appending!Prefix(n)
      BY <1>1, <2>1 DEF Prefix, Appending!Prefix
    <2>4. Appending!Persist
      BY <1>1, <1>3, <2>2, <2>3 DEF Appending!Persist, Failed
    <2> QED BY <2>4 DEF Appending!Next
  <1> QED BY <1>1, <1>2, <1>3 DEF Failed

LEMMA AioDoneRefines == ASSUME AioInv, AioDone PROVE Appending!Persist
  <1>1. PICK n \in 0 .. enqueued : file' = Prefix(size + n) /\ file = Prefix(size)
    BY AioDoneFacts
  <1>2. aio = "busy" /\ UNCHANGED <<pc, total>> /\ pc # "closed"
    BY DEF AioDone, AioInv, AioStateInv, TypeOK, Used
  <1>3. size + n \in 0 .. total /\ size \in Nat /\ n \in Nat
    BY <1>2 DEF AioInv, TypeOK, AioStateInv, Used
  <1>4. DOMAIN file \subseteq 0 .. (size + n) - 1 /\ file' = Appending!Prefix(size + n)
    BY <1>1, <1>3 DEF Prefix, Appending!Prefix
  <1> QED BY <1>2, <1>3, <1>4 DEF Appending!Persist

LEMMA CloseRefines == ASSUME AioInv, Close PROVE Appending!Close
  <1>1. /\ pc # "closed" /\ pc' = "closed" /\ total' = total /\ aio' = "none"
        /\ file' = [i \in 0 .. size - 1 |-> file[i]]
    BY DEF Close, CloseAio
  <1>2. size \in Nat /\ enqueued \in Nat /\ waiting \in Nat /\ total \in Nat
        /\ size + (enqueued + waiting) = total
    BY <1>1 DEF AioInv, TypeOK, AioStateInv, Used
  <1>3. size \in 0 .. total
    BY <1>2
  <1>4. size = total \/ Failed
    BY <1>2 DEF Close, AioInv, AioStateInv, Used
  <1>5. file' = Appending!Prefix(size)
    <2>1. PICK n \in Nat : file = Prefix(n) /\ size <= n
      BY <1>1, <1>2 DEF AioInv, FileInv, TypeOK
    <2>2. \A i \in 0 .. size - 1 : file[i] = i
      BY <1>2, <2>1 DEF Prefix, Appending!Prefix
    <2> QED BY <1>1, <2>2 DEF Appending!Prefix
  <1> QED BY <1>1, <1>3, <1>4, <1>5 DEF Appending!Close, Failed

\* An aborted process leaves the file as far as it had come
LEMMA RestartRefines == ASSUME AioInv, Restart PROVE Appending!Close
  <1>1. /\ pc = "aborted" /\ pc' = "closed" /\ aio' = "none" /\ UNCHANGED <<file, total>>
    BY DEF Restart
  <1>2. Failed /\ size + Used = total
    BY <1>1 DEF AioInv, AioStateInv
  <1>3. PICK n \in Nat : /\ file = Prefix(n)
                         /\ aio = "error" => n = size
                         /\ aio = "short" => n < size + enqueued
    BY <1>1 DEF AioInv, FileInv
  <1>4. n \in 0 .. total
    BY <1>2, <1>3 DEF AioInv, TypeOK, Used, Failed
  <1> QED BY <1>1, <1>2, <1>3, <1>4 DEF Appending!Close, Failed, Prefix

(***************************************************************************)
(* The asynchronous buffer zone implements the append-only file: batches,  *)
(* wrap-around and a kernel that reads the zone at its own pace never put  *)
(* a wrong byte in the file, and a file that is closed without a failed    *)
(* write is complete.                                                      *)
(***************************************************************************)
THEOREM BufferIsAppendFile == Spec => ImplementsAppendFile
  <1>1. ASSUME AioInv, [Next]_vars PROVE [Appending!Next]_(Appending!vars)
    <2>1. CASE UNCHANGED vars \/ BeginFlush
      BY <2>1 DEF vars, BeginFlush, Appending!vars
    <2>2. CASE Next /\ ~BeginFlush
      BY <1>1, <2>2, OpenRefines, CopyRefines, QueueRefines, AioDoneRefines, CloseRefines,
         RestartRefines DEF Next, Appending!Next
    <2> QED BY <1>1, <2>1, <2>2
  <1> QED BY <1>1, InitRefines, InvAlways, PTL DEF Spec, ImplementsAppendFile, Appending!Spec
=============================================================================
