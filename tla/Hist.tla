-------------------------------- MODULE Hist --------------------------------
(***************************************************************************)
(* The histogram publisher (tesd_task_hist.c): it puts the frames of an    *)
(* MCA histogram together and publishes the histogram with its last frame. *)
(* It runs while it has subscribers.                                       *)
(*                                                                         *)
(* A frame carries one unit of bins, a header possibly none, and tells the *)
(* number of all bins.  Sizes in bytes are counted in frames.  An          *)
(* assertion that fails aborts the daemon.                                 *)
(***************************************************************************)
EXTENDS Fpga, Sequences

CONSTANT HistCap   \* frames that the buffer holds (TES_HIST_MAXSIZE)

ASSUME HistAssumption == HistCap \in Nat \ {0}

VARIABLES
  hsrc,      \* the frame that will be sent next
  hactive,   \* the task is active
  hdead,     \* it has ended: TASK_ERROR, or habort
  habort,    \* an assertion has failed
  hist,      \* struct s_data_t: the histogram being put together
  hprev,     \* prev_pseq_mca
  published, \* the last histogram published, with lossy and spoilt
  bare,      \* history: header frames without bins in the buffer, 0 or 1
  lossy,     \* history: frames were lost since the histogram's header
  spoilt,    \* history: bad frames came since the histogram's header
  intact     \* history: all of this histogram's frames so far came good

hvars == <<hsrc, hactive, hdead, habort, hist, hprev, published, bare, lossy, spoilt,
           intact>>

\* s_clear
Clear == [nbins |-> 0, cur_nbins |-> 0, discard |-> FALSE, buf |-> <<>>]

\* task_hist_init and task_hist_wakeup: wait for a header
Discarding == [Clear EXCEPT !.discard = TRUE]

HistInit ==
  /\ hsrc \in FirstFrames
  /\ hactive = FALSE /\ hdead = FALSE /\ habort = FALSE
  /\ hist = Discarding
  /\ hprev = 0
  /\ published = [buf |-> <<>>, lossy |-> FALSE, spoilt |-> FALSE]
  /\ bare = 0 /\ lossy = FALSE /\ spoilt = FALSE /\ intact = FALSE

-----------------------------------------------------------------------------
\* A header drops what has not been finished
Dropped(h) == IF h.cur_nbins > 0 \/ h.discard THEN Clear ELSE h

\* The frame's n bins are added, or there are too many of them
Add(h, f, n) ==
  LET g == [h EXCEPT !.cur_nbins = @ + n]
  IN  IF g.cur_nbins > g.nbins THEN [g EXCEPT !.discard = TRUE]
                               ELSE [g EXCEPT !.buf = Append(@, f)]

\* Faulty variant: a header is added to what has not been finished
AddHeaderKeep(h, f, m) ==
  Add([h EXCEPT !.nbins = f.len - m, !.discard = FALSE], f, 1 - m)

\* A header frame with 1 - m units of bins
AddHeader(h, f, m) == Add([Dropped(h) EXCEPT !.nbins = f.len - m], f, 1 - m)

\* Faulty variant: the protocol sequence is not checked
AfterUnchecked(h, prev, f, m) ==
  IF IsHeader(f) THEN AddHeader(h, f, m) ELSE IF h.discard THEN h ELSE Add(h, f, 1)

\* What task_hist_pkt_hn makes of h, up to the test for completeness; the
\* sequence numbers are far from their wrap-around point
After(h, prev, f, m) ==
  IF IsHeader(f) THEN AddHeader(h, f, m)
  ELSE IF h.discard THEN h
  ELSE IF f.pseq # prev + 1 THEN [h EXCEPT !.discard = TRUE]
  ELSE Add(h, f, 1)

\* The assertions before a frame is copied: a header finds all fields
\* cleared, and the frame fits into the buffer
Asserts(h, f, g) ==
  /\ IsHeader(f) => Dropped(h) = Clear
  /\ ~g.discard => Len(g.buf) <= HistCap

\* Faulty variant: one bin too many is waited for
CompleteLate(h) == ~h.discard /\ h.cur_nbins > h.nbins

Complete(h) == ~h.discard /\ h.cur_nbins = h.nbins

\* A header may come without bins, but not for a histogram without bins
Bares(f) == IF IsHeader(f) /\ f.len > 1 THEN {0, 1} ELSE {0}

\* task_hist_pkt_hn on a good frame; zmq_send may fail
Accumulate(f, m) ==
  LET g == After(hist, hprev, f, m)
      l == lossy /\ ~IsHeader(f)
      s == spoilt /\ ~IsHeader(f)
  IN
  \/ /\ ~Asserts(hist, f, g)
     /\ habort' = TRUE /\ hdead' = TRUE
     /\ UNCHANGED <<hist, published, bare, lossy, spoilt>>
  \/ /\ Asserts(hist, f, g)
     /\ bare' = IF IsHeader(f) THEN m ELSE bare
     /\ lossy' = l /\ spoilt' = s
     /\ \/ /\ ~Complete(g)
           /\ hist' = g /\ UNCHANGED <<published, hdead>>
        \/ /\ Complete(g)
           /\ hist' = Clear
           /\ published' = [buf |-> g.buf, lossy |-> l, spoilt |-> s]
           /\ UNCHANGED hdead
        \/ /\ Complete(g)
           /\ hist' = g /\ hdead' = TRUE /\ UNCHANGED published
     /\ UNCHANGED habort

\* A frame arrives or is lost.  The dispatcher notes the protocol sequence
\* number of bad frames too; an inactive task sees nothing.
HistFrame ==
  LET f == hsrc IN
  /\ Sends(f) /\ ~hdead
  /\ hsrc' \in NextFrames(f)
  /\ \E fate \in Fates :
       /\ intact' = (fate = "good" /\ hactive /\ (IsHeader(f) \/ intact))
       /\ hprev' = IF hactive /\ fate # "lost" THEN f.pseq ELSE hprev
       /\ \/ /\ hactive /\ fate = "good" /\ \E m \in Bares(f) : Accumulate(f, m)
          \/ /\ hactive /\ fate = "bad" /\ spoilt' = TRUE
             /\ UNCHANGED <<hist, hdead, habort, published, bare, lossy>>
          \/ /\ ~hactive \/ fate = "lost"
             /\ lossy' = TRUE
             /\ UNCHANGED <<hist, hdead, habort, published, bare, spoilt>>
  /\ UNCHANGED hactive

\* There is one subscriber: the first has come, or the last but one has
\* left and the task was active.  task_activate, with task_hist_wakeup.
HistWakeup ==
  /\ ~hdead
  /\ hactive' = TRUE
  /\ hist' = Discarding
  /\ intact' = FALSE
  /\ UNCHANGED <<hsrc, hdead, habort, hprev, published, bare, lossy, spoilt>>

\* The last subscriber leaves: task_deactivate
HistSleep ==
  /\ hactive /\ ~hdead
  /\ hactive' = FALSE
  /\ UNCHANGED <<hsrc, hdead, habort, hist, hprev, published, bare, lossy, spoilt,
                 intact>>

HistNext == HistFrame \/ HistWakeup \/ HistSleep

HistSpec == HistInit /\ [][HistNext]_hvars

-----------------------------------------------------------------------------
HistTypeOK ==
  /\ hsrc \in Frames
  /\ hactive \in BOOLEAN /\ hdead \in BOOLEAN /\ habort \in BOOLEAN
  /\ hist \in [nbins : Nat, cur_nbins : Nat, discard : BOOLEAN, buf : Seq(Frames)]
  /\ hprev \in Nat
  /\ published \in [buf : Seq(Frames), lossy : BOOLEAN, spoilt : BOOLEAN]
  /\ bare \in {0, 1} /\ lossy \in BOOLEAN /\ spoilt \in BOOLEAN /\ intact \in BOOLEAN

(***************************************************************************)
(* The assertions of task_hist_pkt_hn: what is being put together has as   *)
(* many bytes as bins were counted, fewer than it needs, and all of them   *)
(* are in the buffer.  An assertion fails in two cases only: a histogram   *)
(* is longer than the buffer, or a header comes after a header that had no *)
(* bins, which the handler takes for none.                                 *)
(***************************************************************************)
Ongoing == ~hist.discard /\ hist # Clear

HistAsserts ==
  /\ Ongoing => /\ Len(hist.buf) = hist.cur_nbins + bare
                /\ Len(hist.buf) <= HistCap
                /\ ~hdead => hist.cur_nbins < hist.nbins
  /\ habort => /\ hdead /\ Ongoing
               /\ \/ hist.nbins + bare > HistCap
                  \/ hist.cur_nbins = 0 /\ bare = 1

(***************************************************************************)
(* A published histogram has the frames its header asks for, each once and *)
(* in order, whatever frames were lost, unless a bad frame came in its     *)
(* middle: the dispatcher remembers the sequence number of a bad frame     *)
(* that the handler has skipped.                                           *)
(***************************************************************************)
InOrder(b) == b # <<>> => /\ Len(b) = b[1].len
                          /\ \A k \in 1 .. Len(b) : b[k].pseq = k - 1

HistInOrder == published.spoilt \/ InOrder(published.buf)

(***************************************************************************)
(* A published histogram is one histogram of the sender, not parts of two, *)
(* unless frames were lost or bad in its middle, also when the sender      *)
(* starts again or subscribers come and go.                                *)
(***************************************************************************)
OneStream(b) == \A j, k \in 1 .. Len(b) : b[j].id = b[k].id

HistOneStream == published.lossy \/ published.spoilt \/ OneStream(published.buf)

(***************************************************************************)
(* A histogram all of whose frames come good since the task was last       *)
(* activated is published with its last frame, whatever came before it,    *)
(* unless the task ends.                                                   *)
(***************************************************************************)
HistPublished ==
  [][intact' /\ IsLast(hsrc) /\ hsrc' # hsrc
       => hdead' \/ /\ published'.buf # <<>>
                    /\ \A k \in 1 .. Len(published'.buf) :
                         published'.buf[k].id = hsrc.id]_hvars

-----------------------------------------------------------------------------
(***************************************************************************)
(* "It aborts the whole histogram if an MCA frame is lost": what is        *)
(* published is always one histogram.                                      *)
(***************************************************************************)
HistAborts == OneStream(published.buf)

(***************************************************************************)
(* The assertions of task_hist_pkt_hn hold.  dbg_assert (hist->nbins == 0) *)
(* fails after a header without bins, and nothing keeps a histogram from   *)
(* being longer than the buffer.                                           *)
(***************************************************************************)
HistNoAbort == ~habort

(***************************************************************************)
(* As HistPublished, of the histograms that come while there are           *)
(* subscribers: the task does not drop one when it is activated although   *)
(* it is active.                                                           *)
(***************************************************************************)
HistKept == [][hactive /\ ~hdead /\ hist' = Discarding => hist.discard]_hvars
=============================================================================
