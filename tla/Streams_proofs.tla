--------------------------- MODULE Streams_proofs ---------------------------
(***************************************************************************)
(* Proofs about the two tasks that put streams of frames together, Hist    *)
(* and AvgTrace, for streams of any lengths and any number of them.        *)
(***************************************************************************)
EXTENDS Hist, AvgTrace, TLAPS

-----------------------------------------------------------------------------
(***************************************************************************)
(* Frames.                                                                 *)
(***************************************************************************)

\* A frame is added at the end
LEMMA AppendFrame ==
  ASSUME NEW b \in Seq(Frames), NEW f \in Frames
  PROVE  /\ Append(b, f) \in Seq(Frames) /\ Append(b, f) # <<>>
         /\ Len(b) \in Nat /\ Len(Append(b, f)) = Len(b) + 1
         /\ \A k \in 1 .. Len(b) : Append(b, f)[k] = b[k]
         /\ Append(b, f)[Len(b) + 1] = f
         /\ b # <<>> => Append(b, f)[1] = b[1] /\ Len(b) >= 1
  <1>1. /\ Append(b, f) \in Seq(Frames)
        /\ Len(b) \in Nat /\ Len(Append(b, f)) = Len(b) + 1
        /\ \A k \in 1 .. Len(b) : Append(b, f)[k] = b[k]
        /\ Append(b, f)[Len(b) + 1] = f
    OBVIOUS
  <1>2. Append(b, f) # <<>>
    BY <1>1
  <1>3. b # <<>> => Len(b) >= 1
    OBVIOUS
  <1> QED BY <1>1, <1>2, <1>3

LEMMA FirstFrame ==
  ASSUME NEW f \in FirstFrames
  PROVE  f \in Frames
  <1>1. Lens \subseteq Nat \ {0}
    BY FpgaAssumption
  <1>2. f.id = 1 /\ f.len \in Lens /\ f.pseq = 0
    BY DEF FirstFrames
  <1>3. f = [id |-> f.id, len |-> f.len, pseq |-> f.pseq]
    BY DEF FirstFrames
  <1>4. f.len \in Nat \ {0}
    BY <1>1, <1>2
  <1>5. f.id \in Nat /\ f.pseq \in Nat
    BY <1>2
  <1> QED BY <1>3, <1>4, <1>5 DEF Frames

\* The frame that the sender sends after f
LEMMA NextFrame ==
  ASSUME NEW f \in Frames, NEW g \in NextFrames(f)
  PROVE  /\ g \in Frames
         /\ \/ IsHeader(g)
            \/ g.id = f.id /\ g.len = f.len /\ g.pseq = f.pseq + 1 /\ ~IsLast(f)
  BY FpgaAssumption DEF NextFrames, NextHeaders, Frames, IsHeader, IsLast

-----------------------------------------------------------------------------
(***************************************************************************)
(* Histograms.  Both properties of what is published need, between two     *)
(* frames, a hold on the one to come: prev_pseq_mca is that of the         *)
(* buffer's last frame, and the sender goes on with the same histogram or  *)
(* begins another, unless frames came that the buffer does not show.       *)
(***************************************************************************)
Ordered(b) == \A k \in 1 .. Len(b) : b[k].pseq = k - 1

BufferInv ==
  ~hdead /\ Ongoing =>
    /\ hist.buf # <<>>
    /\ hist.nbins + bare = hist.buf[1].len
    /\ spoilt \/ (hprev = Len(hist.buf) - 1 /\ Ordered(hist.buf))
    /\ \/ lossy \/ spoilt
       \/ /\ OneStream(hist.buf)
          /\ IsHeader(hsrc) \/ hsrc.id = hist.buf[1].id

\* A histogram that is being followed from its header is all in the buffer
IntactInv ==
  ~hdead /\ intact /\ ~IsHeader(hsrc) =>
    /\ Ongoing
    /\ Len(hist.buf) = hsrc.pseq /\ hist.nbins + bare = hsrc.len
    /\ hprev = hsrc.pseq - 1
    /\ \A k \in 1 .. Len(hist.buf) : hist.buf[k].id = hsrc.id

HistInv ==
  /\ HistTypeOK
  /\ HistAsserts
  /\ BufferInv
  /\ IntactInv
  /\ HistInOrder
  /\ HistOneStream

HistType == [nbins : Nat, cur_nbins : Nat, discard : BOOLEAN, buf : Seq(Frames)]

(***************************************************************************)
(* What task_hist_pkt_hn makes of a frame if its first assertions hold: a  *)
(* header begins a histogram; a frame in sequence is added to one that has *)
(* begun and lacks frames; else the histogram is, or stays, dropped.       *)
(***************************************************************************)
Begun(g, f, m) ==
  /\ g.nbins = f.len - m /\ g.cur_nbins = 1 - m
  /\ g.discard = FALSE /\ g.buf = <<f>>

Added(g, h, f, n) ==
  /\ g.nbins = h.nbins /\ g.cur_nbins = h.cur_nbins + n
  /\ g.discard = FALSE /\ g.buf = Append(h.buf, f)

LEMMA AddFrame ==
  ASSUME NEW h \in HistType, ~h.discard, NEW f \in Frames, NEW n \in {0, 1}
  PROVE  /\ Add(h, f, n) \in HistType
         /\ IF h.cur_nbins + n > h.nbins THEN Add(h, f, n).discard = TRUE
                                         ELSE Added(Add(h, f, n), h, f, n)
  <1> DEFINE g == [h EXCEPT !.cur_nbins = @ + n]
  <1>1. /\ g \in HistType /\ g.nbins = h.nbins /\ g.cur_nbins = h.cur_nbins + n
        /\ g.discard = FALSE /\ g.buf = h.buf
    BY DEF HistType
  <1>2. Add(h, f, n) = IF g.cur_nbins > g.nbins THEN [g EXCEPT !.discard = TRUE]
                                                ELSE [g EXCEPT !.buf = Append(@, f)]
    BY DEF Add
  <1>3. Append(g.buf, f) \in Seq(Frames)
    BY <1>1, AppendFrame DEF HistType
  <1> HIDE DEF g
  <1>4. CASE g.cur_nbins > g.nbins
    BY <1>1, <1>2, <1>4 DEF HistType
  <1>5. CASE ~(g.cur_nbins > g.nbins)
    BY <1>1, <1>2, <1>3, <1>5 DEF HistType, Added
  <1> QED BY <1>4, <1>5

LEMMA ClearFields ==
  /\ Clear \in HistType
  /\ Clear.nbins = 0 /\ Clear.cur_nbins = 0 /\ Clear.discard = FALSE /\ Clear.buf = <<>>
  BY DEF Clear, HistType

LEMMA AfterCases ==
  ASSUME HistTypeOK, HistAsserts, ~hdead, NEW f \in Frames, NEW m \in Bares(f),
         NEW g, g = After(hist, hprev, f, m), IsHeader(f) => Dropped(hist) = Clear
  PROVE  /\ g \in HistType
         /\ \/ IsHeader(f) /\ Begun(g, f, m)
            \/ ~IsHeader(f) /\ g.discard
            \/ /\ ~IsHeader(f) /\ Ongoing /\ f.pseq = hprev + 1
               /\ Added(g, hist, f, 1)
               /\ hist.cur_nbins + 1 <= hist.nbins
               /\ Len(hist.buf) = hist.cur_nbins + bare
  <1>0. /\ hist \in HistType /\ f.len \in Nat \ {0} /\ m \in {0, 1}
        /\ m = 1 => f.len > 1
    BY DEF HistTypeOK, HistType, Frames, Bares
  <1>1. CASE IsHeader(f)
    <2>1. Dropped(hist) = Clear
      BY <1>1
    <2> DEFINE h == [Clear EXCEPT !.nbins = f.len - m]
    <2>2. g = Add(h, f, 1 - m)
      BY <1>1, <2>1 DEF After, AddHeader
    <2>3. /\ h \in HistType /\ h.nbins = f.len - m /\ h.cur_nbins = 0 /\ ~h.discard
          /\ h.buf = <<>>
      <3>1. f.len - m \in Nat
        BY <1>0
      <3> QED BY <3>1, ClearFields DEF HistType
    <2> HIDE DEF h
    <2>4. Added(g, h, f, 1 - m) /\ g \in HistType
      <3>1. ~(h.cur_nbins + (1 - m) > h.nbins) /\ 1 - m \in {0, 1}
        BY <1>0, <2>3
      <3> QED BY <2>2, <2>3, <3>1, AddFrame
    <2>5. Append(<<>>, f) = <<f>>
      OBVIOUS
    <2>6. 0 + (1 - m) = 1 - m
      BY <1>0
    <2> QED BY <1>1, <2>3, <2>4, <2>5, <2>6 DEF Added, Begun
  <1>2. CASE ~IsHeader(f) /\ (hist.discard \/ f.pseq # hprev + 1)
    BY <1>0, <1>2 DEF After, HistType
  <1>3. CASE ~IsHeader(f) /\ ~hist.discard /\ f.pseq = hprev + 1
    <2>1. g = Add(hist, f, 1)
      BY <1>3 DEF After
    <2>2. CASE hist.cur_nbins + 1 > hist.nbins
      BY <1>0, <1>3, <2>1, <2>2, AddFrame
    <2>3. CASE ~(hist.cur_nbins + 1 > hist.nbins)
      <3>1. Added(g, hist, f, 1) /\ g \in HistType
        BY <1>0, <1>3, <2>1, <2>3, AddFrame
      <3>2. hist.cur_nbins + 1 <= hist.nbins
        BY <1>0, <2>3 DEF HistType
      <3>3. Ongoing
        BY <1>0, <1>3, <3>2, ClearFields DEF Ongoing, HistType
      <3>4. Len(hist.buf) = hist.cur_nbins + bare
        BY <3>3 DEF HistAsserts
      <3> QED
        BY <1>3, <3>1, <3>2, <3>3, <3>4
    <2> QED BY <2>2, <2>3
  <1> QED BY <1>1, <1>2, <1>3

LEMMA HistInvInit == HistInit => HistInv
  <1> SUFFICES ASSUME HistInit PROVE HistInv
    OBVIOUS
  <1>1. hist = Discarding /\ hsrc \in FirstFrames
    BY DEF HistInit
  <1>2. hist.discard /\ hist.cur_nbins = 0 /\ hist \in HistType
    BY <1>1, ClearFields DEF Discarding, HistType
  <1>3. hsrc \in Frames
    BY <1>1, FirstFrame
  <1>4. HistTypeOK
    <2>1. published \in [buf : Seq(Frames), lossy : BOOLEAN, spoilt : BOOLEAN]
      BY DEF HistInit
    <2> QED
      BY <1>2, <1>3, <2>1 DEF HistInit, HistTypeOK, HistType
  <1>5. HistInOrder /\ HistOneStream
    BY DEF HistInit, HistInOrder, HistOneStream, InOrder, OneStream
  <1>6. ~intact /\ ~habort
    BY DEF HistInit
  <1> QED
    BY <1>2, <1>4, <1>5, <1>6 DEF HistInv, HistAsserts, BufferInv, IntactInv, Ongoing

(***************************************************************************)
(* The buffer after a good frame.                                          *)
(***************************************************************************)
LEMMA GoodFrame ==
  ASSUME HistInv, ~hdead, NEW m \in Bares(hsrc), NEW g, g = After(hist, hprev, hsrc, m),
         ~g.discard, IsHeader(hsrc) => Dropped(hist) = Clear,
         NEW c, c = IF IsHeader(hsrc) THEN m ELSE bare
  PROVE  /\ Len(g.buf) = g.cur_nbins + c /\ g.buf # <<>>
         /\ g.cur_nbins \in 0 .. g.nbins /\ g.nbins + c = g.buf[1].len
         /\ \/ spoilt /\ ~IsHeader(hsrc)
            \/ Ordered(g.buf) /\ hsrc.pseq = Len(g.buf) - 1
         /\ \/ (lossy \/ spoilt) /\ ~IsHeader(hsrc)
            \/ OneStream(g.buf) /\ g.buf[1].id = hsrc.id
  <1> DEFINE f == hsrc
  <1>0. /\ f \in Frames /\ f.len \in Nat \ {0} /\ f.pseq \in Nat
        /\ hist \in HistType /\ hist.buf \in Seq(Frames) /\ hprev \in Nat
        /\ HistTypeOK /\ HistAsserts /\ BufferInv /\ bare \in {0, 1}
    BY DEF HistInv, HistTypeOK, HistType, Frames
  <1>m. m \in {0, 1} /\ (m = 1 => f.len > 1)
    BY DEF Bares
  <1>1. CASE IsHeader(f) /\ Begun(g, f, m)
    <2>1. g.buf = <<f>> /\ Len(g.buf) = 1 /\ g.buf[1] = f
      BY <1>1 DEF Begun
    <2>2. g.cur_nbins = 1 - m /\ g.nbins = f.len - m /\ f.pseq = 0 /\ c = m
      BY <1>1 DEF Begun, IsHeader
    <2>3. Ordered(g.buf)
      BY <2>1, <2>2 DEF Ordered
    <2>4. OneStream(g.buf)
      BY <2>1 DEF OneStream
    <2>5. /\ Len(g.buf) = g.cur_nbins + c /\ g.nbins + c = g.buf[1].len
          /\ g.cur_nbins \in 0 .. g.nbins
      BY <1>0, <1>m, <2>1, <2>2
    <2> QED BY <1>0, <2>1, <2>2, <2>3, <2>4, <2>5
  <1>2. CASE /\ ~IsHeader(f) /\ Ongoing /\ f.pseq = hprev + 1
             /\ Added(g, hist, f, 1)
             /\ hist.cur_nbins + 1 <= hist.nbins /\ Len(hist.buf) = hist.cur_nbins + bare
    <2>1. /\ g.buf = Append(hist.buf, f) /\ g.nbins = hist.nbins
          /\ g.cur_nbins = hist.cur_nbins + 1 /\ c = bare
      BY <1>2 DEF Added
    <2>4. /\ hist.buf # <<>>
          /\ hist.nbins + bare = hist.buf[1].len
          /\ spoilt \/ (hprev = Len(hist.buf) - 1 /\ Ordered(hist.buf))
          /\ lossy \/ spoilt \/ (OneStream(hist.buf) /\ f.id = hist.buf[1].id)
      BY <1>0, <1>2 DEF BufferInv
    <2>2. /\ Len(g.buf) = Len(hist.buf) + 1 /\ Len(hist.buf) \in Nat \ {0}
          /\ g.buf # <<>> /\ g.buf[1] = hist.buf[1]
          /\ \A k \in 1 .. Len(hist.buf) : g.buf[k] = hist.buf[k]
          /\ g.buf[Len(hist.buf) + 1] = f
      BY <1>0, <2>1, <2>4, AppendFrame
    <2>3. \A k \in 1 .. Len(g.buf) : k \in 1 .. Len(hist.buf) \/ k = Len(hist.buf) + 1
      BY <2>2
    <2>5. spoilt \/ (Ordered(g.buf) /\ f.pseq = Len(g.buf) - 1)
      <3>1. SUFFICES ASSUME hprev = Len(hist.buf) - 1, Ordered(hist.buf)
                     PROVE  Ordered(g.buf) /\ f.pseq = Len(g.buf) - 1
        BY <2>4
      <3>2. f.pseq = Len(hist.buf) /\ Len(g.buf) - 1 = Len(hist.buf)
        BY <1>0, <1>2, <2>2, <3>1
      <3>3. ASSUME NEW k \in 1 .. Len(g.buf) PROVE g.buf[k].pseq = k - 1
        <4>1. CASE k \in 1 .. Len(hist.buf)
          BY <2>2, <3>1, <4>1 DEF Ordered
        <4>2. CASE k = Len(hist.buf) + 1
          BY <2>2, <3>2, <4>2
        <4> QED BY <2>3, <4>1, <4>2
      <3> QED BY <3>2, <3>3 DEF Ordered
    <2>6. lossy \/ spoilt \/ (OneStream(g.buf) /\ g.buf[1].id = f.id)
      <3>1. SUFFICES ASSUME OneStream(hist.buf), f.id = hist.buf[1].id
                     PROVE  OneStream(g.buf)
        BY <2>2, <2>4
      <3>2. \A k \in 1 .. Len(g.buf) : g.buf[k].id = f.id
        BY <2>2, <2>3, <3>1 DEF OneStream
      <3> QED BY <3>2 DEF OneStream
    <2>7. g.cur_nbins \in 0 .. g.nbins /\ Len(g.buf) = g.cur_nbins + c
      BY <1>0, <1>2, <2>1, <2>2 DEF HistType
    <2> QED BY <1>2, <2>1, <2>2, <2>4, <2>5, <2>6, <2>7
  <1> QED BY <1>0, <1>1, <1>2, AfterCases

\* The buffer after a good frame of a histogram that is being followed
LEMMA FollowedFrame ==
  ASSUME HistInv, ~hdead, NEW m \in Bares(hsrc), NEW g, g = After(hist, hprev, hsrc, m),
         IsHeader(hsrc) => Dropped(hist) = Clear, IsHeader(hsrc) \/ intact,
         NEW c, c = IF IsHeader(hsrc) THEN m ELSE bare
  PROVE  /\ ~g.discard /\ Len(g.buf) = hsrc.pseq + 1 /\ g.nbins + c = hsrc.len
         /\ g.buf # <<>> /\ g.cur_nbins + c = Len(g.buf)
         /\ \A k \in 1 .. Len(g.buf) : g.buf[k].id = hsrc.id
  <1> DEFINE f == hsrc
  <1>0. /\ f \in Frames /\ f.len \in Nat \ {0} /\ f.pseq \in Nat
        /\ hist \in HistType /\ hist.buf \in Seq(Frames) /\ hprev \in Nat
        /\ HistTypeOK /\ HistAsserts /\ IntactInv /\ BufferInv /\ bare \in {0, 1}
    BY DEF HistInv, HistTypeOK, HistType, Frames
  <1>1. CASE IsHeader(f)
    <2>1. Begun(g, f, m) /\ c = m /\ m \in {0, 1}
      BY <1>0, <1>1, AfterCases DEF Bares
    <2>2. g.buf = <<f>> /\ Len(g.buf) = 1 /\ g.buf[1] = f /\ f.pseq = 0
      BY <1>1, <2>1 DEF Begun, IsHeader
    <2>3. g.nbins + c = f.len /\ g.cur_nbins + c = 1
      BY <1>0, <2>1 DEF Begun
    <2>4. ~g.discard /\ g.buf # <<>> /\ Len(g.buf) = f.pseq + 1
      BY <2>1, <2>2 DEF Begun
    <2>5. \A k \in 1 .. Len(g.buf) : g.buf[k].id = f.id
      BY <2>2
    <2> QED BY <2>2, <2>3, <2>4, <2>5
  <1>2. CASE ~IsHeader(f)
    <2>1. /\ Ongoing /\ ~hist.discard
          /\ Len(hist.buf) = f.pseq /\ hist.nbins + bare = f.len /\ hprev = f.pseq - 1
          /\ \A k \in 1 .. Len(hist.buf) : hist.buf[k].id = f.id
      BY <1>0, <1>2 DEF IntactInv, Ongoing
    <2>2. /\ Len(hist.buf) = hist.cur_nbins + bare /\ hist.cur_nbins < hist.nbins
      BY <2>1, <1>0 DEF HistAsserts
    <2>3. f.pseq = hprev + 1
      BY <1>0, <2>1
    <2>4. g = Add(hist, f, 1)
      BY <1>2, <2>1, <2>3 DEF After
    <2>5. ~(hist.cur_nbins + 1 > hist.nbins)
      BY <1>0, <2>2 DEF HistType
    <2>6. Added(g, hist, f, 1)
      BY <1>0, <2>1, <2>4, <2>5, AddFrame
    <2>7. /\ Len(g.buf) = Len(hist.buf) + 1 /\ Len(hist.buf) \in Nat
          /\ g.buf # <<>>
          /\ \A k \in 1 .. Len(hist.buf) : g.buf[k] = hist.buf[k]
          /\ g.buf[Len(hist.buf) + 1] = f
      BY <1>0, <2>6, AppendFrame DEF Added
    <2>8. \A k \in 1 .. Len(g.buf) : g.buf[k].id = f.id
      <3>1. \A k \in 1 .. Len(g.buf) : k \in 1 .. Len(hist.buf) \/ k = Len(hist.buf) + 1
        BY <2>7
      <3> QED BY <2>1, <2>7, <3>1
    <2>9. g.cur_nbins + c = Len(g.buf) /\ g.nbins + c = f.len
      BY <1>0, <1>2, <2>1, <2>2, <2>6, <2>7 DEF Added, HistType
    <2> QED BY <2>1, <2>2, <2>6, <2>7, <2>8, <2>9 DEF Added
  <1> QED BY <1>1, <1>2

(***************************************************************************)
(* An assertion fails only if a header comes after one without bins, or if *)
(* the histogram does not fit into the buffer.                             *)
(***************************************************************************)
LEMMA FailedAssertion ==
  ASSUME HistInv, ~hdead, NEW m \in Bares(hsrc), NEW g, g = After(hist, hprev, hsrc, m),
         ~Asserts(hist, hsrc, g)
  PROVE  /\ Ongoing
         /\ hist.nbins + bare > HistCap \/ (hist.cur_nbins = 0 /\ bare = 1)
  <1> DEFINE f == hsrc
  <1>0. /\ f \in Frames /\ hist \in HistType /\ hist.buf \in Seq(Frames)
        /\ HistTypeOK /\ HistAsserts /\ BufferInv /\ bare \in {0, 1}
    BY DEF HistInv, HistTypeOK, HistType
  <1>1. CASE IsHeader(f) /\ Dropped(hist) # Clear
    <2>1. ~hist.discard /\ hist.cur_nbins = 0 /\ hist # Clear
      BY <1>0, <1>1 DEF Dropped, HistType
    <2>2. Ongoing /\ hist.buf # <<>> /\ Len(hist.buf) = hist.cur_nbins + bare
      BY <1>0, <2>1 DEF Ongoing, BufferInv, HistAsserts
    <2>3. Len(hist.buf) # 0
      BY <1>0, <2>2
    <2> QED BY <1>0, <2>1, <2>2, <2>3
  <1>2. CASE IsHeader(f) => Dropped(hist) = Clear
    <2>1. ~g.discard /\ ~(Len(g.buf) <= HistCap)
      BY <1>2 DEF Asserts
    <2>2. ~IsHeader(f)
      <3>1. SUFFICES ASSUME IsHeader(f) PROVE FALSE
        OBVIOUS
      <3>2. Begun(g, f, m)
        BY <1>0, <1>2, <3>1, AfterCases
      <3>3. Len(g.buf) = 1
        BY <3>2 DEF Begun
      <3> QED BY <2>1, <3>3, HistAssumption
    <2>3. /\ Ongoing /\ Added(g, hist, f, 1) /\ hist.cur_nbins + 1 <= hist.nbins
          /\ Len(hist.buf) = hist.cur_nbins + bare
      BY <1>0, <1>2, <2>1, <2>2, AfterCases
    <2>4. Len(g.buf) = Len(hist.buf) + 1
      BY <1>0, <2>3, AppendFrame DEF Added
    <2> QED BY <1>0, <2>1, <2>3, <2>4, HistAssumption DEF HistType
  <1> QED BY <1>1, <1>2

LEMMA HistFrameInv == HistInv /\ HistFrame => HistInv'
  <1> SUFFICES ASSUME HistInv, HistFrame PROVE HistInv'
    OBVIOUS
  <1> DEFINE f == hsrc
  <1>0. /\ HistTypeOK /\ HistAsserts /\ BufferInv /\ IntactInv
        /\ HistInOrder /\ HistOneStream /\ f \in Frames
    BY DEF HistInv, HistTypeOK
  <1>1. /\ ~hdead /\ UNCHANGED hactive /\ hsrc' \in NextFrames(f)
    BY DEF HistFrame
  <1>2. /\ hsrc' \in Frames
        /\ IsHeader(hsrc') \/ (/\ hsrc'.id = f.id /\ hsrc'.len = f.len
                               /\ hsrc'.pseq = f.pseq + 1 /\ ~IsLast(f))
    BY <1>0, <1>1, NextFrame
  <1>3. PICK fate \in Fates :
          /\ intact' = (fate = "good" /\ hactive /\ (IsHeader(f) \/ intact))
          /\ hprev' = IF hactive /\ fate # "lost" THEN f.pseq ELSE hprev
          /\ \/ /\ hactive /\ fate = "good" /\ \E m \in Bares(f) : Accumulate(f, m)
             \/ /\ hactive /\ fate = "bad" /\ spoilt' = TRUE
                /\ UNCHANGED <<hist, hdead, habort, published, bare, lossy>>
             \/ /\ ~hactive \/ fate = "lost"
                /\ lossy' = TRUE
                /\ UNCHANGED <<hist, hdead, habort, published, bare, spoilt>>
    BY DEF HistFrame
  <1>4. f.pseq \in Nat /\ hprev' \in Nat /\ intact' \in BOOLEAN
    BY <1>0, <1>3 DEF HistTypeOK, Frames
  <1>5. CASE hactive /\ fate = "bad" /\ spoilt' = TRUE
             /\ UNCHANGED <<hist, hdead, habort, published, bare, lossy>>
    <2>1. ~intact'
      BY <1>3, <1>5
    <2>2. HistTypeOK'
      BY <1>0, <1>1, <1>2, <1>4, <1>5 DEF HistTypeOK
    <2> QED
      BY <1>0, <1>5, <2>1, <2>2
      DEF HistInv, HistAsserts, Ongoing, BufferInv, IntactInv, HistInOrder, HistOneStream
  <1>6. CASE (~hactive \/ fate = "lost") /\ lossy' = TRUE
             /\ UNCHANGED <<hist, hdead, habort, published, bare, spoilt>>
    <2>1. ~intact' /\ hprev' = hprev
      BY <1>3, <1>6
    <2>2. HistTypeOK'
      BY <1>0, <1>1, <1>2, <1>4, <1>6 DEF HistTypeOK
    <2> QED
      BY <1>0, <1>6, <2>1, <2>2
      DEF HistInv, HistAsserts, Ongoing, BufferInv, IntactInv, HistInOrder, HistOneStream
  <1>7. CASE hactive /\ fate = "good" /\ \E m \in Bares(f) : Accumulate(f, m)
    <2>0. PICK m \in Bares(f) : Accumulate(f, m)
      BY <1>7
    <2> DEFINE g == After(hist, hprev, f, m)
               l == lossy /\ ~IsHeader(f)
               s == spoilt /\ ~IsHeader(f)
               c == IF IsHeader(f) THEN m ELSE bare
    <2>a. CASE ~Asserts(hist, f, g)
      <3>1. /\ habort' = TRUE /\ hdead' = TRUE
            /\ UNCHANGED <<hist, published, bare, lossy, spoilt>>
        BY <2>0, <2>a DEF Accumulate
      <3>2. /\ Ongoing
            /\ hist.nbins + bare > HistCap \/ (hist.cur_nbins = 0 /\ bare = 1)
        BY <1>1, <2>a, FailedAssertion
      <3>3. HistTypeOK'
        BY <1>0, <1>1, <1>2, <1>4, <3>1 DEF HistTypeOK
      <3>4. HistAsserts'
        BY <1>0, <3>1, <3>2 DEF HistAsserts, Ongoing
      <3> QED BY <1>0, <3>1, <3>3, <3>4
              DEF HistInv, BufferInv, IntactInv, HistInOrder, HistOneStream
    <2>b. CASE Asserts(hist, f, g)
      <3>1. /\ lossy' = l /\ spoilt' = s /\ bare' = c /\ UNCHANGED habort
            /\ \/ ~Complete(g) /\ hist' = g /\ UNCHANGED <<published, hdead>>
               \/ /\ Complete(g) /\ hist' = Clear /\ UNCHANGED hdead
                  /\ published' = [buf |-> g.buf, lossy |-> l, spoilt |-> s]
               \/ Complete(g) /\ hist' = g /\ hdead' = TRUE /\ UNCHANGED published
        BY <2>0, <2>b DEF Accumulate
      <3>d. (IsHeader(f) => Dropped(hist) = Clear) /\ (~g.discard => Len(g.buf) <= HistCap)
        BY <2>b DEF Asserts
      <3>2. g \in HistType
        BY <1>0, <1>1, <3>d, AfterCases
      <3>3. ~g.discard =>
              /\ Len(g.buf) = g.cur_nbins + c /\ g.buf # <<>>
              /\ g.cur_nbins \in 0 .. g.nbins /\ g.nbins + c = g.buf[1].len
              /\ s \/ (Ordered(g.buf) /\ f.pseq = Len(g.buf) - 1)
              /\ l \/ s \/ (OneStream(g.buf) /\ g.buf[1].id = f.id)
        BY <1>1, <3>d, GoodFrame
      <3>4. intact' => /\ ~g.discard /\ Len(g.buf) = f.pseq + 1 /\ g.nbins + c = f.len
                       /\ g.buf # <<>> /\ g.cur_nbins + c = Len(g.buf)
                       /\ \A k \in 1 .. Len(g.buf) : g.buf[k].id = f.id
        BY <1>1, <1>3, <3>d, FollowedFrame
      <3>5. hprev' = f.pseq
        BY <1>3, <1>7
      <3>6. l \in BOOLEAN /\ s \in BOOLEAN
        OBVIOUS
      <3>c. c \in {0, 1} /\ ~habort
        <4>1. m \in {0, 1}
          BY DEF Bares
        <4>2. bare \in {0, 1}
          BY <1>0 DEF HistTypeOK
        <4>3. ~habort
          BY <1>0, <1>1 DEF HistAsserts
        <4> QED BY <4>1, <4>2, <4>3
      <3> HIDE DEF g, l, s, c
      <3>7. HistTypeOK'
        <4>1. hist' \in HistType
          BY <3>1, <3>2, ClearFields
        <4>2. published' \in [buf : Seq(Frames), lossy : BOOLEAN, spoilt : BOOLEAN]
          BY <1>0, <3>1, <3>2, <3>6 DEF HistTypeOK, HistType
        <4>3. hdead' \in BOOLEAN /\ hactive' \in BOOLEAN /\ habort' \in BOOLEAN
          BY <1>0, <1>1, <3>1 DEF HistTypeOK
        <4>4. lossy' \in BOOLEAN /\ spoilt' \in BOOLEAN /\ bare' \in {0, 1}
          BY <3>1, <3>6, <3>c
        <4> QED BY <1>2, <1>4, <4>1, <4>2, <4>3, <4>4 DEF HistTypeOK, HistType
      <3>8. HistInOrder' /\ HistOneStream'
        <4>1. CASE UNCHANGED published
          BY <1>0, <4>1 DEF HistInOrder, HistOneStream
        <4>2. CASE Complete(g) /\ published' = [buf |-> g.buf, lossy |-> l, spoilt |-> s]
          <5>1. /\ published'.buf = g.buf /\ published'.lossy = l /\ published'.spoilt = s
                /\ ~g.discard /\ g.cur_nbins = g.nbins
            BY <4>2 DEF Complete
          <5>2. s \/ InOrder(g.buf)
            BY <3>3, <5>1 DEF InOrder, Ordered
          <5> QED BY <3>3, <5>1, <5>2 DEF HistInOrder, HistOneStream
        <4> QED BY <3>1, <4>1, <4>2
      <3>9. CASE hist' = g
        <4>1. HistAsserts'
          <5>1. ~g.discard => Len(g.buf) = g.cur_nbins + c /\ Len(g.buf) <= HistCap
            BY <3>3, <3>d
          <5>2. ~g.discard /\ ~hdead' => g.cur_nbins < g.nbins
            <6>1. ~g.discard /\ ~hdead' => g.cur_nbins # g.nbins
              BY <1>1, <3>1, <3>9, <3>3, ClearFields DEF Complete
            <6> QED BY <3>2, <3>3, <6>1 DEF HistType
          <5> QED BY <3>1, <3>9, <3>c, <5>1, <5>2 DEF HistAsserts, Ongoing
        <4>2. BufferInv'
          BY <1>2, <3>1, <3>3, <3>5, <3>9 DEF BufferInv, Ongoing
        <4>3. IntactInv'
          <5>1. ASSUME intact', ~IsHeader(hsrc')
                PROVE  /\ Len(g.buf) = hsrc'.pseq /\ g.nbins + c = hsrc'.len
                       /\ hprev' = hsrc'.pseq - 1
                       /\ \A k \in 1 .. Len(g.buf) : g.buf[k].id = hsrc'.id
            BY <1>2, <1>4, <3>4, <3>5, <5>1
          <5>2. ~g.discard /\ g.buf # <<>> => g # Clear
            BY ClearFields
          <5> QED BY <3>1, <3>4, <3>9, <5>1, <5>2 DEF IntactInv, Ongoing
        <4> QED BY <3>7, <3>8, <4>1, <4>2, <4>3 DEF HistInv
      <3>10. CASE hist' = Clear /\ Complete(g)
        <4>1. HistAsserts' /\ BufferInv'
          BY <3>10, <3>1, <3>c DEF HistAsserts, BufferInv, Ongoing
        <4>2. IntactInv'
          <5>1. SUFFICES ASSUME intact' PROVE IsHeader(hsrc')
            BY DEF IntactInv
          <5>2. f.pseq + 1 = f.len
            BY <3>4, <3>10, <5>1 DEF Complete
          <5> QED BY <1>2, <5>2 DEF IsLast
        <4> QED BY <3>7, <3>8, <4>1, <4>2 DEF HistInv
      <3> QED BY <3>1, <3>9, <3>10
    <2> QED BY <2>a, <2>b
  <1> QED BY <1>3, <1>5, <1>6, <1>7

LEMMA HistInvNext == HistInv /\ [HistNext]_hvars => HistInv'
  <1> SUFFICES ASSUME HistInv, [HistNext]_hvars PROVE HistInv'
    OBVIOUS
  <1>1. CASE HistFrame
    BY <1>1, HistFrameInv
  <1>2. CASE HistWakeup
    <2>1. /\ hist' = Discarding /\ ~intact' /\ hactive' = TRUE /\ intact' = FALSE
          /\ UNCHANGED <<hsrc, hdead, habort, hprev, published, bare, lossy, spoilt>>
      BY <1>2 DEF HistWakeup
    <2>2. hist'.discard /\ hist'.cur_nbins = 0 /\ hist' \in HistType
      BY <2>1, ClearFields DEF Discarding, HistType
    <2>3. HistTypeOK'
      BY <2>1, <2>2 DEF HistInv, HistTypeOK, HistType
    <2>4. ~habort
      BY <1>2 DEF HistWakeup, HistInv, HistAsserts
    <2> QED
      BY <2>1, <2>2, <2>3, <2>4
      DEF HistInv, HistAsserts, Ongoing, BufferInv, IntactInv, HistInOrder, HistOneStream
  <1>3. CASE HistSleep
    BY <1>3 DEF HistSleep, HistInv, HistTypeOK, HistAsserts, Ongoing, BufferInv,
                IntactInv, HistInOrder, HistOneStream
  <1>4. CASE UNCHANGED hvars
    BY <1>4 DEF hvars, HistInv, HistTypeOK, HistAsserts, Ongoing, BufferInv, IntactInv,
                HistInOrder, HistOneStream
  <1> QED BY <1>1, <1>2, <1>3, <1>4 DEF HistNext

LEMMA HistInvariant == HistSpec => []HistInv
  BY HistInvInit, HistInvNext, PTL DEF HistSpec

(***************************************************************************)
(* The variables have their types, and an assertion of task_hist_pkt_hn    *)
(* fails only after a header without bins or for a histogram longer than   *)
(* the buffer, for buffers and histograms of any size.                     *)
(***************************************************************************)
THEOREM HistAssertions == HistSpec => [](HistTypeOK /\ HistAsserts)
  <1>1. HistInv => HistTypeOK /\ HistAsserts
    BY DEF HistInv
  <1> QED BY <1>1, HistInvariant, PTL

(***************************************************************************)
(* A published histogram has the frames its header asks for, in order,     *)
(* whatever frames were lost, unless a bad frame came in its middle.       *)
(***************************************************************************)
THEOREM HistogramsInOrder == HistSpec => []HistInOrder
  <1>1. HistInv => HistInOrder
    BY DEF HistInv
  <1> QED BY <1>1, HistInvariant, PTL

(***************************************************************************)
(* A published histogram is one of the sender's, unless frames were lost   *)
(* or bad in its middle.                                                   *)
(***************************************************************************)
THEOREM HistogramsNotMixed == HistSpec => []HistOneStream
  <1>1. HistInv => HistOneStream
    BY DEF HistInv
  <1> QED BY <1>1, HistInvariant, PTL

(***************************************************************************)
(* A histogram whose frames all come good since the task was last          *)
(* activated is published with its last frame, whatever state the task was *)
(* in before, unless the task ends.                                        *)
(***************************************************************************)
THEOREM WholeHistogramsPublished == HistSpec => HistPublished
  <1> DEFINE P == intact' /\ IsLast(hsrc) /\ hsrc' # hsrc
                    => hdead' \/ /\ published'.buf # <<>>
                                 /\ \A k \in 1 .. Len(published'.buf) :
                                      published'.buf[k].id = hsrc.id
  <1>1. HistInv /\ [HistNext]_hvars => P
    <2> SUFFICES ASSUME HistInv, [HistNext]_hvars, intact', IsLast(hsrc), hsrc' # hsrc,
                        ~hdead'
                 PROVE  /\ published'.buf # <<>>
                        /\ \A k \in 1 .. Len(published'.buf) :
                             published'.buf[k].id = hsrc.id
      OBVIOUS
    <2>1. HistFrame /\ ~hdead
      BY DEF HistNext, HistWakeup, HistSleep, HistFrame, hvars
    <2>2. (IsHeader(hsrc) \/ intact) /\ \E m \in Bares(hsrc) : Accumulate(hsrc, m)
      BY <2>1 DEF HistFrame
    <2>3. PICK m \in Bares(hsrc) : Accumulate(hsrc, m)
      BY <2>2
    <2> DEFINE g == After(hist, hprev, hsrc, m)
               c == IF IsHeader(hsrc) THEN m ELSE bare
    <2>4. Asserts(hist, hsrc, g)
      BY <2>3 DEF Accumulate
    <2>5. IsHeader(hsrc) => Dropped(hist) = Clear
      BY <2>4 DEF Asserts
    <2>6. /\ ~g.discard /\ Len(g.buf) = hsrc.pseq + 1 /\ g.nbins + c = hsrc.len
          /\ g.buf # <<>> /\ g.cur_nbins + c = Len(g.buf)
          /\ \A k \in 1 .. Len(g.buf) : g.buf[k].id = hsrc.id
      BY <2>1, <2>2, <2>5, FollowedFrame
    <2>7. g \in HistType /\ c \in {0, 1}
      BY <2>1, <2>5, AfterCases DEF HistInv, HistTypeOK, Bares
    <2>8. Complete(g)
      <3> HIDE DEF g, c
      <3> QED BY <2>6, <2>7 DEF Complete, IsLast, HistType
    <2>9. published'.buf = g.buf
      BY <2>3, <2>4, <2>8 DEF Accumulate
    <2> QED BY <2>6, <2>9
  <1> QED BY <1>1, HistInvariant, PTL DEF HistSpec, HistPublished

-----------------------------------------------------------------------------
(***************************************************************************)
(* Average traces.  As for histograms, what is being recorded is known     *)
(* together with the frame to come.                                        *)
(***************************************************************************)
RecordedInv ==
  IF trace.recording
    THEN /\ trace.buf # <<>> /\ Len(trace.buf) < trace.size
         /\ trace.size = trace.buf[1].len
         /\ \/ alost
            \/ /\ aprev = Len(trace.buf) - 1
               /\ \A k \in 1 .. Len(trace.buf) :
                    trace.buf[k].id = trace.buf[1].id /\ trace.buf[k].pseq = k - 1
               /\ IsHeader(asrc) \/ asrc.id = trace.buf[1].id
    ELSE trace.buf = <<>>

\* A trace that is being followed from its header is all in the buffer
UnbrokenInv ==
  unbroken /\ ~IsHeader(asrc) /\ client = "waiting" =>
    /\ trace.recording
    /\ Len(trace.buf) = asrc.pseq /\ trace.size = asrc.len /\ aprev = asrc.pseq - 1
    /\ \A k \in 1 .. Len(trace.buf) :
         trace.buf[k].id = asrc.id /\ trace.buf[k].pseq = k - 1

AvgInv ==
  /\ AvgTypeOK
  /\ AvgOneAnswer
  /\ RecordedInv
  /\ UnbrokenInv
  /\ AvgWhole

TraceType == [recording : BOOLEAN, size : Nat, buf : Seq(Frames)]
ReplyType == [status : {"none", "OK", "EERR", "ETOUT", "EINV"},
              buf : Seq(Frames), lost : BOOLEAN]

LEMMA DelayType ==
  ASSUME NEW t \in Nat
  PROVE  /\ Delay(t) \in Nat
         /\ PerSec * t < Width => Delay(t) = PerSec * t
  <1>1. PerSec * t \in Nat /\ Width \in Nat \ {0}
    BY AvgAssumption
  <1>2. ASSUME NEW x \in Nat, NEW w \in Nat \ {0}
        PROVE  x % w \in Nat /\ (x < w => x % w = x)
    OBVIOUS
  <1> QED BY <1>1, <1>2 DEF Delay

LEMMA NoTraceFields ==
  NoTrace \in TraceType /\ NoTrace.recording = FALSE /\ NoTrace.buf = <<>>
  BY DEF NoTrace, TraceType

LEMMA StartedFields ==
  ASSUME AvgInv, NEW tr, tr = Started(asrc)
  PROVE  /\ tr \in TraceType
         /\ IF Starts(asrc) THEN /\ tr.recording = TRUE /\ tr.size = asrc.len
                                 /\ tr.buf = <<>> /\ trace.recording = FALSE
                            ELSE tr = trace
  <1>1. trace \in TraceType /\ asrc.len \in Nat
    BY DEF AvgInv, AvgTypeOK, TraceType, Frames
  <1>2. CASE Starts(asrc)
    <2>1. tr = [trace EXCEPT !.recording = TRUE, !.size = asrc.len]
      BY <1>2 DEF Started
    <2>2. trace.buf = <<>> /\ trace.recording = FALSE
      BY <1>1, <1>2 DEF AvgInv, RecordedInv, Starts, TraceType
    <2>3. tr \in TraceType
      BY <1>1, <2>1 DEF TraceType
    <2>4. tr.recording = TRUE /\ tr.size = asrc.len /\ tr.buf = trace.buf
      BY <1>1, <2>1 DEF TraceType
    <2> QED BY <1>2, <2>2, <2>3, <2>4
  <1>3. CASE ~Starts(asrc)
    BY <1>1, <1>3 DEF Started
  <1> QED BY <1>2, <1>3

(***************************************************************************)
(* The buffer after a frame in sequence.                                   *)
(***************************************************************************)
LEMMA RecordedFrame ==
  ASSUME AvgInv, NEW tr, tr = Started(asrc), tr.recording, InSequence(tr, asrc),
         NEW b, b = Append(tr.buf, asrc)
  PROVE  /\ b \in Seq(Frames) /\ b # <<>> /\ Len(b) \in Nat
         /\ Len(b) <= tr.size /\ tr.size = b[1].len
         /\ \/ alost /\ trace.recording
            \/ /\ asrc.pseq = Len(b) - 1 /\ b[1].id = asrc.id
               /\ \A k \in 1 .. Len(b) : b[k].id = asrc.id /\ b[k].pseq = k - 1
  <1> DEFINE f == asrc
  <1>0. /\ f \in Frames /\ f.len \in Nat \ {0} /\ f.pseq \in Nat /\ aprev \in Nat
        /\ trace \in TraceType /\ RecordedInv /\ tr \in TraceType /\ tr.buf \in Seq(Frames)
        /\ tr.size \in Nat
    BY StartedFields DEF AvgInv, AvgTypeOK, TraceType, Frames
  <1>1. CASE Starts(f)
    <2>1. tr.buf = <<>> /\ tr.size = f.len /\ f.pseq = 0
      BY <1>1, StartedFields DEF Starts, IsHeader
    <2>2. b = <<f>> /\ Len(b) = 1 /\ b[1] = f /\ b \in Seq(Frames)
      BY <1>0, <2>1
    <2>3. Len(b) <= tr.size
      BY <1>0, <2>1, <2>2
    <2>4. \A k \in 1 .. Len(b) : b[k].id = f.id /\ b[k].pseq = k - 1
      BY <2>1, <2>2
    <2> QED BY <2>1, <2>2, <2>3, <2>4
  <1>2. CASE ~Starts(f)
    <2>1. tr = trace /\ trace.recording
      BY <1>2, StartedFields
    <2>2. /\ trace.buf # <<>> /\ Len(trace.buf) < trace.size
          /\ trace.size = trace.buf[1].len
          /\ \/ alost
             \/ /\ aprev = Len(trace.buf) - 1
                /\ \A k \in 1 .. Len(trace.buf) :
                     trace.buf[k].id = trace.buf[1].id /\ trace.buf[k].pseq = k - 1
                /\ IsHeader(f) \/ f.id = trace.buf[1].id
      BY <1>0, <2>1 DEF RecordedInv
    <2>3. /\ b \in Seq(Frames) /\ b # <<>>
          /\ Len(tr.buf) \in Nat \ {0} /\ Len(b) = Len(tr.buf) + 1 /\ b[1] = tr.buf[1]
          /\ \A k \in 1 .. Len(tr.buf) : b[k] = tr.buf[k]
          /\ b[Len(tr.buf) + 1] = f
      BY <1>0, <2>1, <2>2, AppendFrame
    <2>4. f.pseq = aprev + 1
      BY <2>1, <2>2 DEF InSequence
    <2>5. Len(b) <= tr.size /\ tr.size = b[1].len
      BY <1>0, <2>1, <2>2, <2>3
    <2>6. ASSUME ~alost
          PROVE  /\ f.pseq = Len(b) - 1 /\ b[1].id = f.id
                 /\ \A k \in 1 .. Len(b) : b[k].id = f.id /\ b[k].pseq = k - 1
      <3>1. f.pseq = Len(tr.buf) /\ Len(b) - 1 = Len(tr.buf)
        BY <1>0, <2>1, <2>2, <2>3, <2>4, <2>6
      <3>2. f.id = tr.buf[1].id
        BY <2>1, <2>2, <2>3, <2>6, <3>1 DEF IsHeader
      <3>3. ASSUME NEW k \in 1 .. Len(b)
            PROVE  b[k].id = f.id /\ b[k].pseq = k - 1
        <4>1. CASE k \in 1 .. Len(tr.buf)
          BY <2>1, <2>2, <2>3, <2>6, <3>2, <4>1
        <4>2. CASE k = Len(tr.buf) + 1
          BY <2>3, <3>1, <4>2
        <4> QED BY <2>3, <4>1, <4>2
      <3> QED BY <2>3, <3>1, <3>2, <3>3
    <2> QED BY <2>1, <2>3, <2>5, <2>6
  <1> QED BY <1>1, <1>2

\* The same for a trace that is being followed
LEMMA UnbrokenFrame ==
  ASSUME AvgInv, client = "waiting", IF IsHeader(asrc) THEN Starts(asrc) ELSE unbroken,
         NEW tr, tr = Started(asrc), NEW b, b = Append(tr.buf, asrc)
  PROVE  /\ tr.recording /\ InSequence(tr, asrc)
         /\ Len(b) = asrc.pseq + 1 /\ tr.size = asrc.len
         /\ \A k \in 1 .. Len(b) : b[k].id = asrc.id /\ b[k].pseq = k - 1
  <1> DEFINE f == asrc
  <1>0. /\ f \in Frames /\ f.len \in Nat \ {0} /\ f.pseq \in Nat /\ aprev \in Nat
        /\ UnbrokenInv /\ tr \in TraceType /\ tr.buf \in Seq(Frames)
    BY StartedFields DEF AvgInv, AvgTypeOK, TraceType, Frames
  <1>1. CASE IsHeader(f)
    <2>1. tr.recording /\ tr.buf = <<>> /\ tr.size = f.len /\ f.pseq = 0
      BY <1>1, StartedFields DEF IsHeader
    <2>2. b = <<f>> /\ Len(b) = 1 /\ b[1] = f
      BY <1>0, <2>1
    <2> QED BY <2>1, <2>2 DEF InSequence
  <1>2. CASE ~IsHeader(f)
    <2>1. tr = trace
      BY <1>2, StartedFields DEF Starts
    <2>2. /\ tr.recording
          /\ Len(tr.buf) = f.pseq /\ tr.size = f.len /\ aprev = f.pseq - 1
          /\ \A k \in 1 .. Len(tr.buf) : tr.buf[k].id = f.id /\ tr.buf[k].pseq = k - 1
      BY <1>0, <1>2, <2>1 DEF UnbrokenInv
    <2>3. /\ Len(tr.buf) \in Nat /\ Len(b) = Len(tr.buf) + 1
          /\ \A k \in 1 .. Len(tr.buf) : b[k] = tr.buf[k]
          /\ b[Len(tr.buf) + 1] = f
      BY <1>0, AppendFrame
    <2>4. InSequence(tr, f)
      BY <1>0, <2>2 DEF InSequence
    <2>5. ASSUME NEW k \in 1 .. Len(b)
          PROVE  b[k].id = f.id /\ b[k].pseq = k - 1
      <3>1. CASE k \in 1 .. Len(tr.buf)
        BY <2>2, <2>3, <3>1
      <3>2. CASE k = Len(tr.buf) + 1
        BY <1>0, <2>2, <2>3, <3>2
      <3> QED BY <2>3, <3>1, <3>2
    <2> QED BY <2>2, <2>3, <2>4, <2>5
  <1> QED BY <1>1, <1>2

LEMMA AvgInvInit == AvgInit => AvgInv
  <1> SUFFICES ASSUME AvgInit PROVE AvgInv
    OBVIOUS
  <1>1. asrc \in Frames
    BY FirstFrame DEF AvgInit
  <1>2. /\ job = "none" /\ timer = NoTimer /\ client = "idle" /\ trace = NoTrace
        /\ aprev = 0 /\ asked = 0 /\ waited = 0
        /\ reply = [status |-> "none", buf |-> <<>>, lost |-> FALSE]
        /\ ~alost /\ alost \in BOOLEAN /\ ~stale /\ stale \in BOOLEAN
        /\ ~unbroken /\ unbroken \in BOOLEAN
    BY DEF AvgInit
  <1>3. trace \in TraceType /\ ~trace.recording /\ trace.buf = <<>>
    BY <1>2, NoTraceFields
  <1>4. reply \in ReplyType /\ reply.status = "none"
    BY <1>2 DEF ReplyType
  <1>5. AvgTypeOK
    BY <1>1, <1>2, <1>3, <1>4 DEF AvgTypeOK, TraceType, ReplyType
  <1> QED
    BY <1>2, <1>3, <1>4, <1>5
    DEF AvgInv, AvgOneAnswer, RecordedInv, UnbrokenInv, AvgWhole

\* An answer, and what it says
LEMMA SendFrame ==
  ASSUME AvgInv, NEW s \in {"OK", "EERR", "ETOUT"}, NEW b \in Seq(Frames), Send(s, b),
         s = "OK" => (alost /\ trace.recording) \/ WholeTrace(b)
  PROVE  reply' \in ReplyType /\ AvgWhole'
  <1> DEFINE l == alost /\ trace.recording
  <1>1. reply \in ReplyType /\ AvgWhole /\ l \in BOOLEAN
    BY DEF AvgInv, AvgTypeOK, ReplyType, TraceType
  <1>2. CASE reply' = reply
    BY <1>1, <1>2 DEF AvgWhole
  <1>3. CASE reply' = [status |-> s, buf |-> b, lost |-> l]
    <2> HIDE DEF l
    <2>1. reply' \in ReplyType /\ reply'.status = s /\ reply'.buf = b /\ reply'.lost = l
      BY <1>1, <1>3 DEF ReplyType
    <2> QED BY <2>1 DEF l, AvgWhole
  <1> QED BY <1>2, <1>3 DEF Send, Answer

\* The end of a job
LEMMA FinishInv ==
  ASSUME AvgInv, NEW s \in {"OK", "EERR"}, NEW b \in Seq(Frames), Finish(s, b),
         s = "OK" => (alost /\ trace.recording) \/ WholeTrace(b),
         UNCHANGED <<asked, waited, stale>>,
         asrc' \in Frames, aprev' \in Nat, alost' \in BOOLEAN, unbroken' \in BOOLEAN
  PROVE  AvgInv'
  <1>1. /\ trace' = NoTrace /\ job' \in {"none", "stuck"} /\ client' = "idle"
        /\ timer' = NoTimer /\ Send(s, b)
    BY DEF Finish, Deactivated
  <1>2. reply' \in ReplyType /\ AvgWhole'
    BY <1>1, SendFrame
  <1>3. trace' \in TraceType /\ ~trace'.recording /\ trace'.buf = <<>>
    BY <1>1, NoTraceFields
  <1>4. AvgTypeOK'
    BY <1>1, <1>2, <1>3 DEF AvgInv, AvgTypeOK, TraceType, ReplyType
  <1> QED
    BY <1>1, <1>2, <1>3, <1>4
    DEF AvgInv, AvgOneAnswer, RecordedInv, UnbrokenInv

LEMMA AvgFrameInv == AvgInv /\ AvgFrame => AvgInv'
  <1> SUFFICES ASSUME AvgInv, AvgFrame PROVE AvgInv'
    OBVIOUS
  <1> DEFINE f == asrc
             tr == Started(f)
             b == Append(tr.buf, f)
  <1>0. /\ AvgTypeOK /\ AvgOneAnswer /\ RecordedInv /\ UnbrokenInv /\ AvgWhole
        /\ f \in Frames /\ f.len \in Nat \ {0} /\ f.pseq \in Nat /\ aprev \in Nat
        /\ alost \in BOOLEAN
    BY DEF AvgInv, AvgTypeOK, Frames
  <1>1. /\ asrc' \in Frames
        /\ \/ IsHeader(asrc')
           \/ /\ asrc'.id = f.id /\ asrc'.len = f.len /\ asrc'.pseq = f.pseq + 1
              /\ ~IsLast(f)
    BY <1>0, NextFrame DEF AvgFrame
  <1>2. UNCHANGED <<asked, waited, stale>>
    BY DEF AvgFrame
  <1>3. CASE /\ alost' = TRUE /\ unbroken' = FALSE
             /\ UNCHANGED <<aprev, trace, job, client, timer, reply>>
    BY <1>0, <1>1, <1>2, <1>3
    DEF AvgInv, AvgTypeOK, AvgOneAnswer, RecordedInv, UnbrokenInv, AvgWhole,
        WholeTrace
  <1>4. ASSUME NEW err \in BOOLEAN, AvgPkt(f, err), aprev' = f.pseq,
               alost' = (alost /\ ~Starts(f)), unbroken' \in BOOLEAN,
               unbroken' => /\ ~err /\ client = "waiting"
                            /\ IF IsHeader(f) THEN Starts(f) ELSE unbroken
        PROVE  AvgInv'
    <2>1. aprev' \in Nat /\ alost' \in BOOLEAN
      BY <1>0, <1>4
    <2>2. CASE ~tr.recording /\ UNCHANGED <<trace, job, client, timer, reply>>
      <3>1. ~unbroken'
        BY <1>4, <2>2, UnbrokenFrame
      <3>2. ~trace.recording
        BY <2>2, StartedFields
      <3>3. AvgTypeOK'
        BY <1>0, <1>1, <1>2, <1>4, <2>1, <2>2 DEF AvgTypeOK
      <3> QED
        BY <1>0, <1>2, <2>2, <3>1, <3>2, <3>3
        DEF AvgInv, AvgOneAnswer, RecordedInv, UnbrokenInv, AvgWhole, WholeTrace
    <2>3. CASE Finish("EERR", <<>>)
      <3>1. <<>> \in Seq(Frames)
        OBVIOUS
      <3> QED BY <1>1, <1>2, <1>4, <2>1, <2>3, <3>1, FinishInv
    <2>4. CASE tr.recording /\ InSequence(tr, f) /\ Len(b) = tr.size /\ Finish("OK", b)
      <3>1. /\ b \in Seq(Frames) /\ tr.size = b[1].len
            /\ \/ alost /\ trace.recording
               \/ /\ b[1].id = f.id
                  /\ \A k \in 1 .. Len(b) : b[k].id = f.id /\ b[k].pseq = k - 1
        BY <2>4, RecordedFrame
      <3>2. (alost /\ trace.recording) \/ WholeTrace(b)
        BY <2>4, <3>1 DEF WholeTrace
      <3> QED BY <1>1, <1>2, <1>4, <2>1, <2>4, <3>1, <3>2, FinishInv
    <2>5. CASE /\ tr.recording /\ InSequence(tr, f) /\ Len(b) # tr.size
               /\ trace' = [tr EXCEPT !.buf = b] /\ UNCHANGED <<job, client, timer, reply>>
      <3>1. /\ b \in Seq(Frames) /\ b # <<>> /\ Len(b) \in Nat
            /\ Len(b) <= tr.size /\ tr.size = b[1].len
            /\ \/ alost /\ trace.recording
               \/ /\ f.pseq = Len(b) - 1 /\ b[1].id = f.id
                  /\ \A k \in 1 .. Len(b) : b[k].id = f.id /\ b[k].pseq = k - 1
        BY <2>5, RecordedFrame
      <3>2. tr \in TraceType /\ tr.size \in Nat
        <4>1. tr \in TraceType
          BY StartedFields
        <4> QED BY <4>1 DEF TraceType
      <3>3. unbroken' => /\ Len(b) = f.pseq + 1 /\ tr.size = f.len
                         /\ \A k \in 1 .. Len(b) : b[k].id = f.id /\ b[k].pseq = k - 1
        BY <1>4, UnbrokenFrame
      <3>4. alost' = (alost /\ trace.recording)
        BY <1>0, <1>4, <2>5, StartedFields DEF AvgTypeOK
      <3> HIDE DEF tr, b
      <3>5. /\ trace' \in TraceType /\ trace'.buf = b /\ trace'.size = tr.size
            /\ trace'.recording
        BY <2>5, <3>1, <3>2 DEF TraceType
      <3>6. AvgTypeOK'
        BY <1>0, <1>1, <1>2, <1>4, <2>1, <2>5, <3>5 DEF AvgTypeOK, TraceType
      <3>7. RecordedInv'
        <4>1. Len(b) < tr.size
          BY <2>5, <3>1, <3>2
        <4>2. \/ alost'
              \/ /\ aprev' = Len(b) - 1
                 /\ \A k \in 1 .. Len(b) : b[k].id = b[1].id /\ b[k].pseq = k - 1
                 /\ IsHeader(asrc') \/ asrc'.id = b[1].id
          BY <1>1, <1>4, <3>1, <3>4
        <4> QED BY <3>1, <3>5, <4>1, <4>2 DEF RecordedInv
      <3>8. UnbrokenInv'
        <4>1. SUFFICES ASSUME unbroken', ~IsHeader(asrc')
                       PROVE  /\ Len(b) = asrc'.pseq /\ tr.size = asrc'.len
                              /\ aprev' = asrc'.pseq - 1
                              /\ \A k \in 1 .. Len(b) : b[k].id = asrc'.id /\ b[k].pseq = k - 1
          BY <3>5 DEF UnbrokenInv
        <4> QED BY <1>0, <1>1, <1>4, <3>3, <4>1
      <3> QED
        BY <1>0, <1>2, <2>5, <3>6, <3>7, <3>8
        DEF AvgInv, AvgOneAnswer, AvgWhole, WholeTrace
    <2> QED BY <1>4, <2>2, <2>3, <2>4, <2>5 DEF AvgPkt
  <1>5. PICK fate \in Fates :
          LET seen == Running /\ fate # "lost" IN
          /\ alost' = IF seen THEN alost /\ ~Starts(f) ELSE TRUE
          /\ unbroken' = (/\ seen /\ fate = "good" /\ client = "waiting"
                          /\ IF IsHeader(f) THEN Starts(f) ELSE unbroken)
          /\ aprev' = IF seen THEN f.pseq ELSE aprev
          /\ IF seen THEN AvgPkt(f, fate = "bad")
                     ELSE UNCHANGED <<trace, job, client, timer, reply>>
    BY DEF AvgFrame
  <1>6. CASE Running /\ fate # "lost"
    <2>1. unbroken' \in BOOLEAN /\ (fate = "bad") \in BOOLEAN
      BY <1>5
    <2>2. unbroken' => /\ ~(fate = "bad") /\ client = "waiting"
                       /\ IF IsHeader(f) THEN Starts(f) ELSE unbroken
      BY <1>5
    <2>3. /\ AvgPkt(f, fate = "bad") /\ aprev' = f.pseq
          /\ alost' = (alost /\ ~Starts(f))
      BY <1>5, <1>6
    <2> QED BY <1>4, <2>1, <2>2, <2>3
  <1>7. CASE ~(Running /\ fate # "lost")
    BY <1>3, <1>5, <1>7
  <1> QED BY <1>6, <1>7

LEMMA AvgInvNext == AvgInv /\ [AvgNext]_avars => AvgInv'
  <1> SUFFICES ASSUME AvgInv, [AvgNext]_avars PROVE AvgInv'
    OBVIOUS
  <1>0. /\ AvgTypeOK /\ AvgOneAnswer /\ RecordedInv /\ UnbrokenInv /\ AvgWhole
    BY DEF AvgInv
  <1>1. CASE AvgReq
    <2>1. PICK t \in Timeouts :
            /\ asked' = t /\ waited' = 0
            /\ \/ /\ t = 0
                  /\ reply' = Answer("EINV", <<>>)
                  /\ UNCHANGED <<job, timer, client, stale>>
               \/ /\ t > 0
                  /\ client' = "waiting" /\ stale' = trace.recording
                  /\ \/ job' = "active" /\ timer' = Delay(t)
                     \/ job' = "gone" /\ UNCHANGED timer
                  /\ UNCHANGED reply
      BY <1>1 DEF AvgReq
    <2>2. /\ job = "none" /\ client = "idle" /\ ~unbroken' /\ unbroken' = FALSE
          /\ UNCHANGED <<asrc, trace, aprev, alost>>
      BY <1>1 DEF AvgReq
    <2>3. timer = NoTimer
      BY <1>0, <2>2 DEF AvgOneAnswer
    <2>4. t \in Nat /\ Delay(t) \in Nat
      BY AvgAssumption, DelayType
    <2>5. trace.recording \in BOOLEAN
      BY <1>0 DEF AvgTypeOK
    <2>6. reply' \in ReplyType /\ AvgWhole'
      <3> DEFINE l == alost /\ trace.recording
      <3>1. l \in BOOLEAN
        BY <2>5
      <3>2. CASE reply' = [status |-> "EINV", buf |-> <<>>, lost |-> l]
        <4> HIDE DEF l
        <4>1. reply' \in ReplyType /\ reply'.status = "EINV"
          BY <3>1, <3>2 DEF ReplyType
        <4> QED BY <4>1 DEF AvgWhole
      <3>3. CASE reply' = reply
        BY <1>0, <3>3 DEF AvgWhole, WholeTrace, AvgTypeOK, ReplyType
      <3> QED BY <2>1, <3>2, <3>3 DEF Answer
    <2>7. AvgTypeOK'
      BY <1>0, <2>1, <2>2, <2>3, <2>4, <2>5, <2>6 DEF AvgTypeOK, ReplyType
    <2>8. AvgOneAnswer'
      BY <1>0, <2>1, <2>2, <2>3, <2>4 DEF AvgOneAnswer, NoTimer
    <2>9. RecordedInv' /\ UnbrokenInv'
      BY <1>0, <2>2 DEF RecordedInv, UnbrokenInv
    <2> QED BY <2>6, <2>7, <2>8, <2>9 DEF AvgInv
  <1>2. CASE Elapse
    <2>1. timer > 0 /\ timer \in Nat /\ timer - 1 \in Nat /\ waited + 1 \in Nat
      BY <1>0, <1>2 DEF Elapse, AvgTypeOK, NoTimer
    <2>2. /\ timer' = timer - 1 /\ waited' = waited + 1
          /\ UNCHANGED <<asrc, job, trace, aprev, client, asked, reply, alost, stale,
                         unbroken>>
      BY <1>2 DEF Elapse
    <2>3. AvgTypeOK'
      BY <1>0, <2>1, <2>2 DEF AvgTypeOK
    <2>4. AvgOneAnswer'
      <3>1. timer # NoTimer /\ timer' # NoTimer
        BY <1>0, <2>1, <2>2 DEF NoTimer
      <3> QED BY <1>0, <2>2, <3>1 DEF AvgOneAnswer
    <2> QED BY <1>0, <2>2, <2>3, <2>4 DEF AvgInv, RecordedInv, UnbrokenInv, AvgWhole, WholeTrace
  <1>3. CASE AvgTimeout
    <2>1. /\ timer' = NoTimer /\ job' \in {"none", "stuck"} /\ client' = "idle"
          /\ Send("ETOUT", <<>>)
          /\ UNCHANGED <<asrc, trace, aprev, asked, waited, alost, stale, unbroken>>
      BY <1>3 DEF AvgTimeout, Deactivated
    <2>2. <<>> \in Seq(Frames)
      OBVIOUS
    <2>3. reply' \in ReplyType /\ AvgWhole'
      BY <2>1, <2>2, SendFrame
    <2>4. AvgTypeOK'
      BY <1>0, <2>1, <2>3 DEF AvgTypeOK, ReplyType
    <2> QED
      BY <1>0, <2>1, <2>3, <2>4
      DEF AvgInv, AvgOneAnswer, RecordedInv, UnbrokenInv
  <1>4. CASE AvgFrame
    BY <1>4, AvgFrameInv
  <1>5. CASE OtherTrace
    <2>1. /\ alost' = TRUE /\ unbroken' = FALSE
          /\ UNCHANGED <<asrc, job, timer, trace, client, asked, waited, reply, stale>>
      BY <1>5 DEF OtherTrace
    <2>2. aprev' \in Nat
      BY <1>5, FpgaAssumption DEF OtherTrace
    <2> QED
      BY <1>0, <2>1, <2>2
      DEF AvgInv, AvgTypeOK, AvgOneAnswer, RecordedInv, UnbrokenInv, AvgWhole,
          WholeTrace
  <1>6. CASE UNCHANGED avars
    BY <1>0, <1>6
    DEF avars, AvgInv, AvgTypeOK, AvgOneAnswer, RecordedInv, UnbrokenInv,
        AvgWhole, WholeTrace
  <1> QED BY <1>1, <1>2, <1>3, <1>4, <1>5, <1>6 DEF AvgNext

LEMMA AvgInvariant == AvgSpec => []AvgInv
  BY AvgInvInit, AvgInvNext, PTL DEF AvgSpec

(***************************************************************************)
(* The variables have their types, and a timer is set exactly while a job  *)
(* with a waiting client lasts: the last frame and the timer do not both   *)
(* answer, whatever the timeouts asked for.                                *)
(***************************************************************************)
THEOREM OneAnswerPerJob == AvgSpec => [](AvgTypeOK /\ AvgOneAnswer)
  <1>1. AvgInv => AvgTypeOK /\ AvgOneAnswer
    BY DEF AvgInv
  <1> QED BY <1>1, AvgInvariant, PTL

(***************************************************************************)
(* A trace answered with OK is one whole trace of the sender, unless       *)
(* frames were lost in its middle, whichever jobs its frames came in.      *)
(***************************************************************************)
THEOREM WholeTracesAnswered == AvgSpec => []AvgWhole
  <1>1. AvgInv => AvgWhole
    BY DEF AvgInv
  <1> QED BY <1>1, AvgInvariant, PTL

(***************************************************************************)
(* A trace that comes good from its header on during a job answers it.     *)
(***************************************************************************)
THEOREM GoodTracesServed == AvgSpec => AvgServed
  <1> DEFINE P == unbroken' /\ IsLast(asrc) /\ asrc' # asrc
                    => /\ reply'.status = "OK" /\ client' = "idle"
                       /\ WholeTrace(reply'.buf)
  <1>1. AvgInv /\ [AvgNext]_avars => P
    <2> SUFFICES ASSUME AvgInv, [AvgNext]_avars, unbroken', IsLast(asrc), asrc' # asrc
                 PROVE  /\ reply'.status = "OK" /\ client' = "idle"
                        /\ WholeTrace(reply'.buf)
      OBVIOUS
    <2> DEFINE f == asrc
               tr == Started(f)
               b == Append(tr.buf, f)
    <2>1. AvgFrame
      BY DEF AvgNext, AvgReq, Elapse, AvgTimeout, OtherTrace, avars
    <2>2. /\ client = "waiting" /\ AvgPkt(f, FALSE)
          /\ IF IsHeader(f) THEN Starts(f) ELSE unbroken
      <3>1. PICK fate \in Fates :
              LET seen == Running /\ fate # "lost" IN
              /\ unbroken' = (/\ seen /\ fate = "good" /\ client = "waiting"
                              /\ IF IsHeader(f) THEN Starts(f) ELSE unbroken)
              /\ IF seen THEN AvgPkt(f, fate = "bad")
                         ELSE UNCHANGED <<trace, job, client, timer, reply>>
        BY <2>1 DEF AvgFrame
      <3>2. (fate = "bad") = FALSE /\ AvgPkt(f, fate = "bad")
        BY <3>1
      <3> QED BY <3>1, <3>2
    <2>3. /\ tr.recording /\ InSequence(tr, f)
          /\ Len(b) = f.pseq + 1 /\ tr.size = f.len
          /\ \A k \in 1 .. Len(b) : b[k].id = f.id /\ b[k].pseq = k - 1
      BY <2>2, UnbrokenFrame
    <2>4. Len(b) = tr.size
      BY <2>3 DEF IsLast
    <2>5. Finish("OK", b)
      BY <2>2, <2>3, <2>4 DEF AvgPkt
    <2>6. reply'.status = "OK" /\ reply'.buf = b /\ client' = "idle"
      BY <2>2, <2>5 DEF Finish, Send, Answer
    <2>7. WholeTrace(b)
      <3>1. tr.size = b[1].len
        BY <2>3, RecordedFrame
      <3>2. Len(b) = b[1].len /\ 1 \in 1 .. Len(b)
        BY <2>3, <2>4, <3>1 DEF AvgInv, AvgTypeOK, Frames
      <3> QED BY <2>3, <3>2 DEF WholeTrace
    <2> QED BY <2>6, <2>7
  <1> QED BY <1>1, AvgInvariant, PTL DEF AvgSpec, AvgServed

=============================================================================
