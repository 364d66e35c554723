---------------------------- MODULE Tasks_proofs ----------------------------
(***************************************************************************)
(* Proofs about the info task, for any modulus of the sequence numbers and *)
(* any losses, and about the tasks' threads together.                      *)
(***************************************************************************)
EXTENDS MCTasks, Streams_proofs, Jitter_proofs, TLAPS

-----------------------------------------------------------------------------
(***************************************************************************)
(* Remainders.                                                             *)
(***************************************************************************)
LEMMA ModRange ==
  ASSUME NEW a \in Int, NEW m \in Nat \ {0}
  PROVE  a % m \in 0 .. m - 1
  OBVIOUS

LEMMA ModUnique ==
  ASSUME NEW m \in Nat \ {0}, NEW q \in Int, NEW r \in 0 .. m - 1, NEW a \in Int,
         a = m * q + r
  PROVE  a % m = r
  OBVIOUS

LEMMA ModSplit ==
  ASSUME NEW a \in Int, NEW m \in Nat \ {0}
  PROVE  \E q \in Int : a = m * q + (a % m)
  <1>1. ASSUME NEW q, q = a \div m, NEW r, r = a % m
        PROVE  q \in Int /\ a = m * q + r
    BY <1>1
  <1> QED BY <1>1

LEMMA ModShift ==
  ASSUME NEW a \in Int, NEW m \in Nat \ {0}, NEW q \in Int
  PROVE  (a + m * q) % m = a % m
  <1>1. PICK p \in Int : a = m * p + (a % m)
    BY ModSplit
  <1>2. a % m \in 0 .. m - 1
    BY ModRange
  <1> DEFINE r == a % m
             x == a + m * q
             y == p + q
  <1> HIDE DEF r
  <1>3. x = m * y + r /\ x \in Int /\ y \in Int /\ r \in 0 .. m - 1
    BY <1>1, <1>2 DEF r
  <1> HIDE DEF x, y
  <1>4. x % m = r
    BY ONLY <1>3, m \in Nat \ {0}, ModUnique
  <1> QED BY <1>4 DEF r, x

LEMMA ModDiff ==
  ASSUME NEW m \in Nat \ {0}, NEW a \in Int, NEW b \in Int, a % m = b % m
  PROVE  \E x \in Int : a = b + m * x
  <1>1. PICK p \in Int : a = m * p + (a % m)
    BY ModSplit
  <1>2. PICK q \in Int : b = m * q + (b % m)
    BY ModSplit
  <1> DEFINE r == a % m
  <1>3. r \in Int
    BY ModRange
  <1>4. a = m * p + r /\ b = m * q + r
    BY <1>1, <1>2
  <1> HIDE DEF r
  <1>5. a = b + m * (p - q) /\ p - q \in Int
    BY <1>3, <1>4
  <1> QED BY <1>5

\* The gap before a frame, from the sequence numbers alone
LEMMA GapLost ==
  ASSUME NEW m \in Nat \ {0}, NEW prev \in Int, NEW lost \in Nat
  PROVE  (((((prev + 1) % m) + lost) % m) - prev - 1) % m = lost % m
  <1> DEFINE seq == (prev + 1) % m
             cur == (seq + lost) % m
  <1>0. prev + 1 \in Int
    OBVIOUS
  <1>1. PICK p \in Int : prev + 1 = m * p + seq
    BY <1>0, ModSplit, Zenon
  <1>2. seq \in Int
    BY ModRange
  <1> HIDE DEF seq
  <1>3. seq + lost \in Int
    BY <1>2
  <1>4. PICK q \in Int : seq + lost = m * q + cur
    BY <1>3, ModSplit, Zenon
  <1>5. cur \in Int
    BY <1>2, ModRange
  <1> HIDE DEF cur
  <1> DEFINE x == 0 - p - q
  <1>6. cur - prev - 1 = lost + m * x /\ x \in Int
    BY <1>1, <1>2, <1>4, <1>5
  <1> HIDE DEF x
  <1>7. lost \in Int
    OBVIOUS
  <1>8. (lost + m * x) % m = lost % m
    BY <1>6, <1>7, ModShift, Zenon
  <1>9. (cur - prev - 1) % m = lost % m
    BY <1>6, <1>8, Zenon
  <1> QED BY <1>9 DEF cur, seq

-----------------------------------------------------------------------------
(***************************************************************************)
(* The info task.  Counters are clear between jobs, and while the task     *)
(* reads, the next frame has the number after the one read last.           *)
(***************************************************************************)
InfoClear ==
  ijob = "none" =>
    info = Zero /\ seen = NoneSeen /\ nevents = 0 /\ span = 0 /\ ~wrapped

InfoReading ==
  ijob \in {"active", "stuck"} /\ ~fresh => iseq = (iprev + 1) % FSeqMod

InfoInv ==
  /\ InfoTypeOK
  /\ InfoClear
  /\ InfoReading
  /\ InfoCountsJob
  /\ InfoSpan

InfoRecord == [received : Nat, missed : Nat, bad : Nat, ticks : Nat, mcas : Nat,
               traces : Nat, events : Nat]

LEMMA InfoFields ==
  /\ \A i : i \in [DOMAIN Zero -> Nat] <=> i \in InfoRecord
  /\ Zero \in InfoRecord /\ Zero.received = 0 /\ Zero.missed = 0 /\ Zero.bad = 0
  /\ Zero.ticks = 0 /\ Zero.mcas = 0 /\ Zero.traces = 0 /\ Zero.events = 0
  /\ NoneSeen \in [Kinds -> Nat] /\ \A k \in Kinds : NoneSeen[k] = 0
  <1>1. DOMAIN Zero = {"received", "missed", "bad", "ticks", "mcas", "traces", "events"}
    BY DEF Zero
  <1>2. \A i : i \in [DOMAIN Zero -> Nat] <=> i \in InfoRecord
    <2>1. ASSUME NEW i \in InfoRecord PROVE i \in [DOMAIN Zero -> Nat]
      BY <1>1 DEF InfoRecord
    <2>2. ASSUME NEW i \in [DOMAIN Zero -> Nat] PROVE i \in InfoRecord
      BY <1>1 DEF InfoRecord
    <2> QED BY <2>1, <2>2
  <1>3. /\ Zero \in InfoRecord /\ Zero.received = 0 /\ Zero.missed = 0 /\ Zero.bad = 0
        /\ Zero.ticks = 0 /\ Zero.mcas = 0 /\ Zero.traces = 0 /\ Zero.events = 0
    BY DEF Zero, InfoRecord
  <1>4. NoneSeen \in [Kinds -> Nat] /\ \A k \in Kinds : NoneSeen[k] = 0
    BY DEF NoneSeen
  <1> QED BY <1>2, <1>3, <1>4

(***************************************************************************)
(* What a frame adds to the counters.                                      *)
(***************************************************************************)
LEMMA CountedFields ==
  ASSUME info \in InfoRecord, NEW kind \in Kinds, NEW gap \in Nat, NEW n \in Nat,
         NEW i, i = Counted(kind, gap, n)
  PROVE  /\ i \in InfoRecord
         /\ i.received = info.received + 1 /\ i.missed = info.missed + gap
         /\ i.bad = IF kind = "bad" THEN info.bad + 1 ELSE info.bad
         /\ i.ticks = IF kind = "tick" THEN info.ticks + 1 ELSE info.ticks
         /\ i.mcas = IF kind = "mcahdr" THEN info.mcas + 1 ELSE info.mcas
         /\ i.traces = IF kind \in {"trhdr", "trdp"} THEN info.traces + 1 ELSE info.traces
         /\ i.events = IF kind \in {"mcapart", "trpart", "event"}
                         THEN info.events + n ELSE info.events
  <1> DEFINE j == [info EXCEPT !.received = @ + 1, !.missed = @ + gap]
  <1>1. /\ j \in InfoRecord
        /\ j.received = info.received + 1 /\ j.missed = info.missed + gap
        /\ j.bad = info.bad /\ j.ticks = info.ticks /\ j.mcas = info.mcas
        /\ j.traces = info.traces /\ j.events = info.events
    <2> DEFINE h == [info EXCEPT !.received = @ + 1]
    <2>1. /\ h \in InfoRecord /\ h.received = info.received + 1
          /\ h.missed = info.missed /\ h.bad = info.bad /\ h.ticks = info.ticks
          /\ h.mcas = info.mcas /\ h.traces = info.traces /\ h.events = info.events
      BY DEF InfoRecord
    <2>2. j = [h EXCEPT !.missed = @ + gap]
      BY DEF InfoRecord
    <2> HIDE DEF h, j
    <2> QED BY <2>1, <2>2 DEF InfoRecord
  <1>2. i = CASE kind = "bad"               -> [j EXCEPT !.bad = @ + 1]
              [] kind = "tick"              -> [j EXCEPT !.ticks = @ + 1]
              [] kind = "mcahdr"            -> [j EXCEPT !.mcas = @ + 1]
              [] kind \in {"trhdr", "trdp"} -> [j EXCEPT !.traces = @ + 1]
              [] OTHER                      -> [j EXCEPT !.events = @ + n]
    BY DEF Counted
  <1> HIDE DEF j
  <1>3. CASE kind = "bad"
    BY <1>1, <1>2, <1>3 DEF InfoRecord
  <1>4. CASE kind = "tick"
    BY <1>1, <1>2, <1>4 DEF InfoRecord
  <1>5. CASE kind = "mcahdr"
    BY <1>1, <1>2, <1>5 DEF InfoRecord
  <1>6. CASE kind \in {"trhdr", "trdp"}
    BY <1>1, <1>2, <1>6 DEF InfoRecord
  <1>7. CASE kind \in {"mcapart", "trpart", "event"}
    BY <1>1, <1>2, <1>7 DEF InfoRecord
  <1> QED BY <1>3, <1>4, <1>5, <1>6, <1>7 DEF Kinds

\* The same for the history
LEMMA SeenFields ==
  ASSUME NEW s \in [Kinds -> Nat], NEW kind \in Kinds,
         NEW t, t = [s EXCEPT ![kind] = @ + 1]
  PROVE  /\ t \in [Kinds -> Nat] /\ Total(t) = Total(s) + 1
         /\ \A k \in Kinds : t[k] = IF k = kind THEN s[k] + 1 ELSE s[k]
  <1>1. t \in [Kinds -> Nat] /\ \A k \in Kinds : t[k] = IF k = kind THEN s[k] + 1 ELSE s[k]
    OBVIOUS
  <1>2. \A k \in Kinds : s[k] \in Nat
    OBVIOUS
  <1>3. Total(t) = Total(s) + 1
    BY <1>1, <1>2 DEF Total, Kinds
  <1> QED BY <1>1, <1>3

LEMMA InfoFrameInv == InfoInv /\ InfoFrame => InfoInv'
  <1> SUFFICES ASSUME InfoInv, InfoFrame PROVE InfoInv'
    OBVIOUS
  <1>0. /\ InfoTypeOK /\ FSeqMod \in Nat \ {0} /\ info \in InfoRecord
        /\ iseq \in Int /\ iprev \in Int /\ seen \in [Kinds -> Nat]
        /\ nevents \in Nat /\ span \in Nat
    BY InfoAssumption, InfoFields DEF InfoInv, InfoTypeOK
  <1>1. PICK lost \in Losses, kind \in Kinds : \E n \in EventsOf(kind) :
          LET cur == (iseq + lost) % FSeqMod
              new == IF fresh THEN 1 ELSE lost + 1
          IN  /\ span' = span + new
              /\ wrapped' = (wrapped \/ (~fresh /\ lost >= FSeqMod))
              /\ info' = Counted(kind, GapBefore(cur), n)
              /\ seen' = [seen EXCEPT ![kind] = @ + 1]
              /\ nevents' = IF kind = "event" THEN nevents + n ELSE nevents
              /\ iprev' = cur /\ iseq' = (cur + 1) % FSeqMod
    BY DEF InfoFrame
  <1> DEFINE cur == (iseq + lost) % FSeqMod
             new == IF fresh THEN 1 ELSE lost + 1
             gap == GapBefore(cur)
  <1>2. PICK n \in EventsOf(kind) :
          /\ span' = span + new
          /\ wrapped' = (wrapped \/ (~fresh /\ lost >= FSeqMod))
          /\ info' = Counted(kind, gap, n)
          /\ seen' = [seen EXCEPT ![kind] = @ + 1]
          /\ nevents' = IF kind = "event" THEN nevents + n ELSE nevents
          /\ iprev' = cur /\ iseq' = (cur + 1) % FSeqMod
    BY <1>1
  <1>3. /\ ijob \in {"active", "stuck"} /\ fresh' = FALSE /\ ~fresh'
        /\ UNCHANGED <<ijob, ireply>>
    BY DEF InfoFrame
  <1>4. lost \in Nat /\ lost \in Int /\ n \in Nat /\ (kind = "trpart" => n = 0)
    BY InfoAssumption DEF EventsOf
  <1>5. iseq + lost \in Int /\ cur \in 0 .. FSeqMod - 1
    <2>1. iseq + lost \in Int
      BY <1>0, <1>4
    <2> QED BY <1>0, <2>1, ModRange, Zenon
  <1>6. cur \in Int /\ cur + 1 \in Int /\ cur - iprev - 1 \in Int
    <2> HIDE DEF cur
    <2> QED BY <1>0, <1>5
  <1>7. iseq' \in 0 .. FSeqMod - 1
    BY <1>0, <1>2, <1>6, ModRange, Zenon
  <1>8. IF fresh THEN gap = 0 ELSE gap = lost % FSeqMod
    <2>1. CASE fresh
      BY <2>1 DEF GapBefore
    <2>2. CASE ~fresh
      <3>1. iseq = (iprev + 1) % FSeqMod
        BY <1>3, <2>2 DEF InfoInv, InfoReading
      <3>2. gap = (cur - iprev - 1) % FSeqMod
        BY <2>2 DEF GapBefore
      <3>3. (cur - iprev - 1) % FSeqMod = lost % FSeqMod
        BY <1>0, <1>4, <3>1, GapLost, Zenon
      <3> QED BY <2>2, <3>2, <3>3, Zenon
    <2> QED BY <2>1, <2>2
  <1>9. lost % FSeqMod \in 0 .. FSeqMod - 1 /\ (lost < FSeqMod => lost % FSeqMod = lost)
    BY <1>0, <1>4
  <1> DEFINE l == lost % FSeqMod
  <1>10. gap \in Nat /\ new \in Nat
    <2> HIDE DEF gap
    <2> QED BY <1>0, <1>4, <1>8, <1>9
  <1> HIDE DEF cur, gap
  <1>11. /\ info' \in InfoRecord
         /\ info'.received = info.received + 1 /\ info'.missed = info.missed + gap
         /\ info'.bad = IF kind = "bad" THEN info.bad + 1 ELSE info.bad
         /\ info'.ticks = IF kind = "tick" THEN info.ticks + 1 ELSE info.ticks
         /\ info'.mcas = IF kind = "mcahdr" THEN info.mcas + 1 ELSE info.mcas
         /\ info'.traces = IF kind \in {"trhdr", "trdp"} THEN info.traces + 1 ELSE info.traces
         /\ info'.events = IF kind \in {"mcapart", "trpart", "event"}
                             THEN info.events + n ELSE info.events
    BY <1>0, <1>2, <1>4, <1>10, CountedFields
  <1>12. /\ seen' \in [Kinds -> Nat] /\ Total(seen') = Total(seen) + 1
         /\ \A k \in Kinds : seen'[k] = IF k = kind THEN seen[k] + 1 ELSE seen[k]
    BY <1>0, <1>2, SeenFields
  <1>13. InfoTypeOK'
    <2>1. nevents' \in Nat /\ span' \in Nat
      BY <1>0, <1>2, <1>4, <1>10
    <2>2. wrapped' \in BOOLEAN
      BY <1>2
    <2>3. info' \in [DOMAIN Zero -> Nat]
      BY <1>11, InfoFields
    <2> QED BY <1>0, <1>2, <1>3, <1>5, <1>7, <1>12, <2>1, <2>2, <2>3 DEF InfoTypeOK
  <1>14. InfoClear' /\ InfoReading'
    BY <1>2, <1>3 DEF InfoClear, InfoReading
  <1>15. InfoCountsJob'
    <2> SUFFICES ASSUME ijob \in {"active", "stuck"}
                 PROVE  /\ info'.received = Total(seen')
                        /\ info'.bad = seen'["bad"] /\ info'.ticks = seen'["tick"]
                        /\ info'.mcas = seen'["mcahdr"]
                        /\ info'.traces = seen'["trhdr"] + seen'["trdp"]
                        /\ info'.events >= nevents'
                        /\ seen'["mcapart"] = 0 => info'.events = nevents'
      BY <1>3 DEF InfoCountsJob
    <2>1. /\ info.received = Total(seen)
          /\ info.bad = seen["bad"] /\ info.ticks = seen["tick"]
          /\ info.mcas = seen["mcahdr"] /\ info.traces = seen["trhdr"] + seen["trdp"]
          /\ info.events >= nevents
          /\ seen["mcapart"] = 0 => info.events = nevents
      BY DEF InfoInv, InfoCountsJob
    <2>2. \A k \in Kinds : seen[k] \in Nat
      BY <1>0
    <2>3. info.events \in Nat
      BY <1>0 DEF InfoRecord
    <2>4. info'.received = Total(seen')
      BY <1>11, <1>12, <2>1
    <2>5. /\ info'.bad = seen'["bad"] /\ info'.ticks = seen'["tick"]
          /\ info'.mcas = seen'["mcahdr"]
      BY <1>11, <1>12, <2>1 DEF Kinds
    <2>6. info'.traces = seen'["trhdr"] + seen'["trdp"]
      BY <1>11, <1>12, <2>1, <2>2 DEF Kinds
    <2>7. info'.events >= nevents' /\ (seen'["mcapart"] = 0 => info'.events = nevents')
      BY <1>0, <1>2, <1>4, <1>11, <1>12, <2>1, <2>2, <2>3 DEF Kinds
    <2> QED BY <2>4, <2>5, <2>6, <2>7
  <1>16. InfoSpan'
    <2> SUFFICES ASSUME ijob = "active"
                 PROVE  /\ (info'.received + info'.missed) % FSeqMod = span' % FSeqMod
                        /\ ~wrapped' => info'.received + info'.missed = span'
      BY <1>3 DEF InfoSpan
    <2> DEFINE a == info.received + info.missed
               c == 1 + gap
    <2>1. a % FSeqMod = span % FSeqMod /\ (~wrapped => a = span)
      BY DEF InfoInv, InfoSpan
    <2>2. a \in Nat /\ a \in Int /\ span \in Int
      BY <1>0 DEF InfoRecord
    <2>3. info'.received + info'.missed = a + c /\ span' = span + new
      BY <1>0, <1>2, <1>10, <1>11 DEF InfoRecord
    <2>4. PICK y \in Int : c = new + FSeqMod * y
      <3>1. CASE fresh
        <4>1. c = new + FSeqMod * 0 /\ 0 \in Int
          BY <1>0, <1>8, <3>1
        <4> QED BY <4>1
      <3>2. CASE ~fresh
        <4>1. PICK q \in Int : lost = FSeqMod * q + l
          BY <1>0, <1>4, ModSplit
        <4>2. gap = l /\ new = lost + 1 /\ l \in Int
          BY <1>8, <1>9, <3>2
        <4> HIDE DEF l, new
        <4>3. c = new + FSeqMod * (0 - q) /\ 0 - q \in Int
          BY <1>0, <1>4, <4>1, <4>2
        <4> QED BY <4>3
      <3> QED BY <3>1, <3>2
    <2>5. ~wrapped' => a + c = span + new
      <3> SUFFICES ASSUME ~wrapped' PROVE a + c = span + new
        OBVIOUS
      <3>1. ~wrapped /\ (fresh \/ lost < FSeqMod)
        <4>1. ~wrapped /\ ~(~fresh /\ lost >= FSeqMod)
          BY <1>2
        <4> QED BY <1>0, <1>4, <4>1
      <3>2. c = new
        BY <1>4, <1>8, <1>9, <1>10, <3>1
      <3> QED BY <2>1, <3>1, <3>2
    <2>6. PICK x \in Int : a = span + FSeqMod * x
      BY <1>0, <2>1, <2>2, ModDiff
    <2> DEFINE z == x + y
               t == span + new
    <2> HIDE DEF a, c, new
    <2>7. a + c = t + FSeqMod * z /\ t \in Int /\ z \in Int
      BY <1>0, <1>10, <2>2, <2>4, <2>6
    <2> HIDE DEF t, z
    <2>8. (a + c) % FSeqMod = t % FSeqMod
      <3>1. FSeqMod \in Nat \ {0} /\ t \in Int /\ z \in Int
        BY <1>0, <2>7
      <3>2. (t + FSeqMod * z) % FSeqMod = t % FSeqMod
        BY ONLY <3>1, ModShift, Zenon
      <3> QED BY ONLY <2>7, <3>2, Zenon
    <2> QED BY <2>3, <2>5, <2>8, Zenon DEF t
  <1> QED BY <1>13, <1>14, <1>15, <1>16 DEF InfoInv

LEMMA InfoInvNext == InfoInv /\ [InfoNext]_ivars => InfoInv'
  <1> SUFFICES ASSUME InfoInv, [InfoNext]_ivars PROVE InfoInv'
    OBVIOUS
  <1>0. InfoTypeOK /\ InfoClear /\ InfoReading /\ InfoCountsJob /\ InfoSpan
    BY DEF InfoInv
  <1>1. CASE InfoReq
    <2>1. /\ ijob = "none" /\ ijob' \in {"none", "active", "gone"}
          /\ UNCHANGED <<info, iseq, iprev, seen, nevents, span, wrapped>>
          /\ ireply' \in {"none", "EINV"} /\ fresh' \in BOOLEAN
          /\ ijob' = "active" => fresh'
      BY <1>0, <1>1 DEF InfoReq, InfoTypeOK
    <2>2. info = Zero /\ seen = NoneSeen /\ nevents = 0 /\ span = 0 /\ ~wrapped
      BY <1>0, <2>1 DEF InfoClear
    <2>3. InfoTypeOK' /\ InfoClear' /\ InfoReading'
      BY <1>0, <2>1, <2>2 DEF InfoTypeOK, InfoClear, InfoReading
    <2>4. InfoCountsJob' /\ InfoSpan'
      BY <2>1, <2>2, InfoFields DEF InfoCountsJob, InfoSpan, Total, Kinds
    <2> QED BY <2>3, <2>4 DEF InfoInv
  <1>2. CASE InfoTimeout
    <2>1. /\ ijob = "active" /\ ijob' \in {"none", "stuck"} /\ ireply' = "OK"
          /\ info' = Zero /\ seen' = NoneSeen /\ nevents' = 0 /\ span' = 0
          /\ ~wrapped' /\ wrapped' \in BOOLEAN /\ UNCHANGED <<iseq, iprev, fresh>>
      BY <1>2 DEF InfoTimeout
    <2>2. info' \in [DOMAIN Zero -> Nat] /\ seen' \in [Kinds -> Nat]
      BY <2>1, InfoFields
    <2> QED
      <3>1. InfoTypeOK' /\ InfoClear' /\ InfoReading' /\ InfoSpan'
        BY <1>0, <2>1, <2>2 DEF InfoInv, InfoTypeOK, InfoClear, InfoReading, InfoSpan
      <3>2. InfoCountsJob'
        BY <2>1, InfoFields DEF InfoCountsJob, Total, Kinds
      <3> QED BY <3>1, <3>2 DEF InfoInv
  <1>3. CASE InfoFrame
    BY <1>3, InfoFrameInv
  <1>4. CASE InfoUnread
    <2>1. /\ ijob = "none" /\ iseq' = (iseq + 1) % FSeqMod
          /\ UNCHANGED <<ijob, info, iprev, fresh, ireply, seen, nevents, span, wrapped>>
      BY <1>4 DEF InfoUnread
    <2>2. FSeqMod \in Nat \ {0} /\ iseq + 1 \in Int
      BY <1>0, InfoAssumption DEF InfoTypeOK
    <2>3. iseq' \in 0 .. FSeqMod - 1
      BY <2>1, <2>2, ModRange, Zenon
    <2> QED
      BY <1>0, <2>1, <2>3
      DEF InfoInv, InfoTypeOK, InfoClear, InfoReading, InfoCountsJob, InfoSpan
  <1>5. CASE InfoCrash
    <2>1. /\ ijob' = "crashed"
          /\ UNCHANGED <<info, iseq, iprev, fresh, ireply, seen, nevents, span, wrapped>>
      BY <1>5 DEF InfoCrash
    <2> QED
      BY <1>0, <2>1
      DEF InfoInv, InfoTypeOK, InfoClear, InfoReading, InfoCountsJob, InfoSpan
  <1>6. CASE UNCHANGED ivars
    BY <1>0, <1>6
    DEF ivars, InfoInv, InfoTypeOK, InfoClear, InfoReading, InfoCountsJob, InfoSpan
  <1> QED BY <1>1, <1>2, <1>3, <1>4, <1>5, <1>6 DEF InfoNext

LEMMA InfoInvInit == InfoInit => InfoInv
  <1> SUFFICES ASSUME InfoInit PROVE InfoInv
    OBVIOUS
  <1>1. /\ ijob = "none" /\ info = Zero /\ iseq = 0 /\ iprev = 0
        /\ fresh \in BOOLEAN /\ ireply = "none" /\ seen = NoneSeen /\ nevents = 0
        /\ span = 0 /\ ~wrapped /\ wrapped \in BOOLEAN
    BY DEF InfoInit
  <1>2. 0 \in 0 .. FSeqMod - 1
    BY InfoAssumption
  <1>3. info \in [DOMAIN Zero -> Nat] /\ seen \in [Kinds -> Nat]
    BY <1>1, InfoFields
  <1> QED
    BY <1>1, <1>2, <1>3
    DEF InfoInv, InfoTypeOK, InfoClear, InfoReading, InfoCountsJob, InfoSpan

LEMMA InfoInvariant == InfoSpec => []InfoInv
  BY InfoInvInit, InfoInvNext, PTL DEF InfoSpec

(***************************************************************************)
(* The client gets the counts of its own job, whatever earlier jobs read:  *)
(* every frame read is received once, and counted under its heading unless *)
(* it is part of a histogram; no event is left out.                        *)
(***************************************************************************)
THEOREM CountsOfOneJob == InfoSpec => [](InfoTypeOK /\ InfoCountsJob)
  <1>1. InfoInv => InfoTypeOK /\ InfoCountsJob
    BY DEF InfoInv
  <1> QED BY <1>1, InfoInvariant, PTL

(***************************************************************************)
(* Received and missed frames add up to the frames sent, modulo the range  *)
(* of the sequence numbers, and exactly if fewer than that were lost in a  *)
(* row: the arithmetic of the gap across the wrap-around.                  *)
(***************************************************************************)
THEOREM GapsCounted == InfoSpec => []InfoSpan
  <1>1. InfoInv => InfoSpan
    BY DEF InfoInv
  <1> QED BY <1>1, InfoInvariant, PTL

-----------------------------------------------------------------------------
(***************************************************************************)
(* The tasks have no common variables: what each does in the company of    *)
(* the others it can do alone, so that all that is proved about one of     *)
(* them holds there too.                                                   *)
(***************************************************************************)
LEMMA TasksAlone == Spec => AvgSpec /\ HistSpec /\ InfoSpec /\ JitterSpec
  <1>1. Init => AvgInit /\ HistInit /\ InfoInit /\ JitterInit
    BY DEF Init
  <1>2. [Next]_tvars => /\ [AvgNext]_avars /\ [HistNext]_hvars
                       /\ [InfoNext]_ivars /\ [JitterNext]_jvars
    BY DEF Next, tvars
  <1> QED BY <1>1, <1>2, PTL DEF Spec, AvgSpec, HistSpec, InfoSpec, JitterSpec

(***************************************************************************)
(* An assertion of the histogram or the jitter task fails only in the      *)
(* cases that HistAsserts and JitterAsserts name, and the variables of all *)
(* four tasks keep their types, for any frames, clients and losses.        *)
(***************************************************************************)
THEOREM TasksAssertions == Spec => []TaskAsserts
  <1>1. /\ AvgSpec => [](AvgTypeOK /\ AvgOneAnswer)
        /\ HistSpec => [](HistTypeOK /\ HistAsserts)
        /\ InfoSpec => [](InfoTypeOK /\ InfoCountsJob)
        /\ JitterSpec => [](JitterTypeOK /\ JitterAsserts)
    BY OneAnswerPerJob, HistAssertions, CountsOfOneJob, PointsHaveRoom
  <1>2. /\ AvgTypeOK /\ AvgOneAnswer /\ HistTypeOK /\ HistAsserts
        /\ InfoTypeOK /\ InfoCountsJob /\ JitterTypeOK /\ JitterAsserts
        => TaskAsserts
    BY DEF TaskAsserts
  <1> QED BY <1>1, <1>2, TasksAlone, PTL

=============================================================================
