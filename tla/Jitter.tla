------------------------------- MODULE Jitter -------------------------------
(***************************************************************************)
(* The jitter publisher (tesd_task_jitter.c).  It measures how long before *)
(* or after the nearest event of a reference channel the events of the     *)
(* other channels come, keeps a histogram of these delays for each of      *)
(* them, and publishes the histograms every so many ticks.  Clients set    *)
(* the channel and the number of ticks at any time.                        *)
(*                                                                         *)
(* A frame is a tick or a list of events; an event is its channel and its  *)
(* delay since the event before it.  Frames the handler skips (histograms, *)
(* parts of traces, bad frames of events) change nothing and are left out, *)
(* as are lost ones.  An assertion that fails aborts the daemon.           *)
(***************************************************************************)
EXTENDS Integers, Sequences, FiniteSets

CONSTANTS
  NHists,      \* TES_JITTER_NHISTS: there is one channel more
  MaxCh,       \* the highest channel an event may name (7)
  NBins,       \* TES_JITTER_NBINS
  DMax,        \* UINT16_MAX
  MaxPoints,   \* MAX_SIMULT_POINTS
  Default,     \* the configuration set by task_jitter_init
  Confs,       \* bound: configurations that clients ask for
  Delays,      \* bound: delays of an event
  FrameLens,   \* bound: events in a frame
  MaxWindow,   \* bound: events after a reference event or a publication
  MaxTicks,    \* bound: ticks counted
  MaxCount     \* bound: points in a bin after which no events come

Channels == 0 .. NHists   \* that can be the reference
EventChs == 0 .. MaxCh    \* that events name
Bins     == 0 .. NBins - 1
ConfType == [ticks : Nat \ {0}, ref_ch : Channels]

ASSUME JitterAssumption ==
  /\ NHists \in Nat \ {0} /\ NBins \in Nat \ {0} /\ DMax \in Nat
  /\ MaxCh \in Nat /\ MaxCh >= NHists
  /\ MaxPoints \in Nat /\ MaxPoints >= 3
  /\ Default \in ConfType
  /\ Confs \subseteq [ticks : Nat, ref_ch : Nat]
  /\ Delays \subseteq 0 .. DMax /\ FrameLens \subseteq Nat \ {0}
  /\ MaxWindow \in Nat /\ MaxTicks \in Nat /\ MaxCount \in Nat

VARIABLES
  jactive, jdead,  \* the task is active; it has ended: TASK_ERROR or jabort
  jabort,          \* an assertion has failed
  conf,            \* configuration to be applied at the next histogram
  cur_conf,        \* configuration in use
  jticks,          \* ticks so far
  publishing,      \* a tick has come since wake-up
  points,          \* the first cur_npts points; the last one is a ghost
  bins,            \* the histograms' bins
  refch,           \* the header's reference channel
  window,          \* history: events since the last reference event
  wref,            \* history: the channel of that event
  npub             \* history: changes with every publication

jvars == <<jactive, jdead, jabort, conf, cur_conf, jticks, publishing, points,
           bins, refch, window, wref, npub>>

\* Events of no channel: a tick, and all that came before a publication
Tick == -1
Carried == -2

Empty == [h \in 0 .. NHists - 1 |-> [b \in Bins |-> 0]]
Ghost == [since |-> 0, until |-> 0, hid |-> -1]

JitterInit ==
  /\ jactive = FALSE /\ jdead = FALSE /\ jabort = FALSE
  /\ conf = Default /\ cur_conf = [ticks |-> 0, ref_ch |-> 0]
  /\ jticks = 0 /\ publishing = FALSE
  /\ points = <<>> /\ bins = Empty /\ refch = 0
  /\ window = <<>> /\ wref = 0 /\ npub = FALSE

-----------------------------------------------------------------------------
\* s_add_to_since and s_add_to_until saturate
Sat(d) == IF d > DMax THEN DMax ELSE d

\* The histogram of a channel other than the reference, and the channel
\* that s_prep_next writes into the header of a histogram
Hid(ref, ch)   == IF ch > ref THEN ch - 1 ELSE ch
Label(ref, hid) == IF hid >= ref THEN hid + 1 ELSE hid

\* The bin of a point: its delay from the nearer reference, negative
\* before it, 0 in the middle bin, clipped at both ends
Bin(pt) ==
  LET d == (IF pt.since > pt.until THEN -pt.until ELSE pt.since) + NBins \div 2
  IN  IF d < 0 THEN 0 ELSE IF d >= NBins THEN NBins - 1 ELSE d

\* s_save_points: all points but the ghost
Saved(b, pts) ==
  [h \in DOMAIN b |-> [n \in Bins |->
     b[h][n] + Cardinality({p \in 1 .. Len(pts) - 1 :
                              pts[p].hid = h /\ Bin(pts[p]) = n})]]

\* Faulty variant: the new event's delay is not added to the ghost
DelayedNot(pts, d, ref) ==
  [p \in DOMAIN pts |->
     IF p < Len(pts) THEN [pts[p] EXCEPT !.until = Sat(@ + d)] ELSE pts[p]]

\* An event's delay is added to all points
Delayed(pts, d, ref) ==
  [p \in DOMAIN pts |->
     IF p < Len(pts) THEN [pts[p] EXCEPT !.until = Sat(@ + d)]
     ELSE IF ref THEN pts[p] ELSE [pts[p] EXCEPT !.since = Sat(@ + d)]]

\* Faulty variant: the room is not checked
WithPointNoRoom(pts, hid) ==
  LET g == pts[Len(pts)] IN
  Append([pts EXCEPT ![Len(pts)].hid = hid], [g EXCEPT !.until = 0, !.hid = -1])

\* The ghost becomes the point of an event, and a new ghost follows, if
\* there is room
WithPoint(pts, hid) ==
  IF Len(pts) < MaxPoints - 1
    THEN LET g == pts[Len(pts)] IN
         Append([pts EXCEPT ![Len(pts)].hid = hid], [g EXCEPT !.until = 0, !.hid = -1])
    ELSE pts

\* dbg_assert (pt->hid < TES_JITTER_NHISTS) in s_save_points
Saveable(pts) == \A p \in 1 .. Len(pts) - 1 : pts[p].hid < NHists

\* Faulty variant: a reference event without others does not count
WaitsNoPoints(pts, ref) == ~ref /\ Len(pts) <= 1

\* The handler waits for the first reference event
Waits(pts, ref) == ~ref /\ pts = <<>>

\* One pass of the loop over events; s is the points and bins so far.
\* A frame is left at the first event that finds no reference to refer to,
\* and if an assertion fails.
Event(s, e, tick) ==
  LET ref == e.ch = cur_conf.ref_ch /\ ~tick
      pts == Delayed(s.pts, e.d, ref)
  IN  IF s.left \/ Waits(s.pts, ref) THEN [s EXCEPT !.left = TRUE]
      ELSE IF ref /\ ~Saveable(s.pts) THEN [s EXCEPT !.left = TRUE, !.abort = TRUE]
      ELSE IF ref THEN [s EXCEPT !.bins = Saved(@, pts), !.pts = <<Ghost>>,
                                 !.window = <<>>, !.wref = e.ch]
      ELSE [s EXCEPT !.pts = IF tick THEN pts
                             ELSE WithPoint(pts, Hid(cur_conf.ref_ch, e.ch)),
                     !.window = Append(@, e)]

Loop(evs, tick) ==
  LET s[k \in 0 .. Len(evs)] ==
        IF k = 0 THEN [pts |-> points, bins |-> bins, left |-> FALSE, abort |-> FALSE,
                       window |-> window, wref |-> wref]
                 ELSE Event(s[k - 1], evs[k], tick)
  IN  s[Len(evs)]

\* s_prep_next, but for what depends on publishing
PrepNext ==
  /\ cur_conf' = conf
  /\ bins' = Empty
  /\ refch' = conf.ref_ch

\* The events of a window up to its n-th, as one delay
Elapsed(w, n) ==
  LET t[k \in 0 .. n] == IF k = 0 THEN 0 ELSE t[k - 1] + w[k].d IN t[n]

\* After n ticks the histograms are published
Due(n) == n = cur_conf.ticks + 1

\* task_jitter_pkt_hn on a good frame.  Publishing keeps the ghost only.
JitterPkt(evs, tick) ==
  LET s == Loop(evs, tick)
      n == IF tick THEN jticks + 1 ELSE jticks
      late == ~Due(n) /\ n > cur_conf.ticks   \* the assertion at the end fails
  IN
  /\ publishing \/ tick
  /\ publishing' = TRUE
  /\ wref' = s.wref
  /\ \/ /\ s.abort \/ (~s.left /\ late)
        /\ jabort' = TRUE /\ jdead' = TRUE
        /\ jticks' = n /\ points' = s.pts /\ bins' = s.bins /\ window' = s.window
        /\ UNCHANGED <<cur_conf, refch, npub>>
     \/ /\ ~s.abort
        /\ s.left \/ ~(Due(n) \/ late)
        /\ jticks' = n /\ points' = s.pts /\ bins' = s.bins /\ window' = s.window
        /\ UNCHANGED <<jabort, jdead, cur_conf, refch, npub>>
     \/ /\ ~s.left /\ Due(n)
        /\ jticks' = 1
        /\ points' = <<s.pts[Len(s.pts)]>>
        /\ window' = <<[ch |-> Carried, d |-> Sat(Elapsed(s.window, Len(s.window)))]>>
        /\ npub' = ~npub
        /\ PrepNext /\ UNCHANGED <<jabort, jdead>>
     \/ /\ ~s.left /\ Due(n)     \* zmq_send fails
        /\ jdead' = TRUE
        /\ jticks' = n /\ points' = s.pts /\ bins' = s.bins /\ window' = s.window
        /\ UNCHANGED <<jabort, cur_conf, refch, npub>>
  /\ UNCHANGED <<jactive, conf>>

Counting == jactive /\ ~jdead

\* A good tick
JitterTick ==
  /\ Counting /\ jticks < MaxTicks
  /\ \E d \in Delays : JitterPkt(<<[ch |-> Tick, d |-> d]>>, TRUE)

\* A good frame of events
JitterEvents ==
  /\ Counting
  /\ \A h \in DOMAIN bins, b \in Bins : bins[h][b] < MaxCount
  /\ \E n \in FrameLens :
       /\ Len(window) + n <= MaxWindow
       /\ \E evs \in [1 .. n -> [ch : EventChs, d : Delays]] : JitterPkt(evs, FALSE)

\* A bad tick counts as the first one, and for nothing else
JitterBadTick ==
  /\ Counting /\ ~publishing
  /\ publishing' = TRUE
  /\ UNCHANGED <<jactive, jdead, jabort, conf, cur_conf, jticks, points, bins,
                 refch, window, wref, npub>>

\* Faulty variant: a new configuration is used at once
JitterReqNow ==
  /\ ~jdead
  /\ \E c \in Confs :
       IF c.ticks = 0 \/ c.ref_ch > NHists THEN UNCHANGED <<conf, cur_conf>>
                                           ELSE conf' = c /\ cur_conf' = c
  /\ UNCHANGED <<jactive, jdead, jabort, jticks, publishing, points, bins,
                 refch, window, wref, npub>>

\* task_jitter_req_hn: a configuration that makes no sense is ignored
JitterReq ==
  /\ ~jdead
  /\ \E c \in Confs :
       conf' = IF c.ticks = 0 \/ c.ref_ch > NHists THEN conf ELSE c
  /\ UNCHANGED <<jactive, jdead, jabort, cur_conf, jticks, publishing, points, bins,
                 refch, window, wref, npub>>

\* There is one subscriber: the first has come, or the last but one has
\* left and the task was active.  task_activate, with task_jitter_wakeup.
JitterWakeup ==
  /\ ~jdead
  /\ jactive' = TRUE
  /\ publishing' = FALSE /\ points' = <<>> /\ jticks' = 0
  /\ window' = <<>>
  /\ PrepNext
  /\ UNCHANGED <<jdead, jabort, conf, wref, npub>>

\* The last subscriber leaves
JitterSleep ==
  /\ Counting
  /\ jactive' = FALSE
  /\ UNCHANGED <<jdead, jabort, conf, cur_conf, jticks, publishing, points, bins,
                 refch, window, wref, npub>>

JitterNext == JitterTick \/ JitterEvents \/ JitterBadTick \/ JitterReq
                \/ JitterWakeup \/ JitterSleep

JitterSpec == JitterInit /\ [][JitterNext]_jvars

\* The sender's clock goes on ticking
JitterFairness == WF_jvars(JitterTick)

-----------------------------------------------------------------------------
Events == [ch : EventChs \cup {Tick, Carried}, d : Nat]
Points == [since : 0 .. DMax, until : 0 .. DMax, hid : -1 .. MaxCh - 1]

JitterTypeOK ==
  /\ jactive \in BOOLEAN /\ jdead \in BOOLEAN /\ jabort \in BOOLEAN
  /\ publishing \in BOOLEAN /\ npub \in BOOLEAN
  /\ conf \in ConfType
  /\ cur_conf \in [ticks : Nat, ref_ch : Channels]
  /\ jticks \in Nat
  /\ points \in Seq(Points)
  /\ bins \in [0 .. NHists - 1 -> [Bins -> Nat]]
  /\ refch \in Channels /\ wref \in Channels
  /\ window \in Seq(Events)

(***************************************************************************)
(* The assertions of task_jitter_pkt_hn and of its helpers: the list of    *)
(* points has room for one more, its last point is the ghost and no other  *)
(* is, the configuration counts ticks, and a task that has seen a          *)
(* reference event never counts more of them.  An assertion fails in two   *)
(* cases only: there is a point of a channel that has no histogram, or the *)
(* first reference event comes more than a tick too late.                  *)
(***************************************************************************)
JitterAsserts ==
  /\ Len(points) < MaxPoints
  /\ points # <<>> => points[Len(points)].hid = -1
  /\ \A p \in 1 .. Len(points) - 1 : points[p].hid # -1
  /\ jactive => cur_conf.ticks > 0 /\ refch = cur_conf.ref_ch
  /\ Counting /\ points # <<>> => jticks <= cur_conf.ticks
  /\ jabort => jdead /\ (~Saveable(points) \/ jticks > cur_conf.ticks + 1)

(***************************************************************************)
(* The delays that are kept up event by event are what they are meant to   *)
(* be: each point belongs to an event of another channel since the last    *)
(* reference event, in order, as many as there is room for; its histogram  *)
(* is labelled with that channel; delay_since is the time from the         *)
(* reference to the event and delay_until the time from the event to now,  *)
(* saturated, as the delays of the events received give them.              *)
(***************************************************************************)
Others == {i \in 1 .. Len(window) : window[i].ch \in EventChs}

\* The p-th event of another channel
Nth(p) == CHOOSE i \in Others : Cardinality({j \in Others : j <= i}) = p

Lapse == Elapsed(window, Len(window))

JitterDelays ==
  points # <<>> =>
    LET n == Len(points) - 1 IN
    /\ n = IF Cardinality(Others) < MaxPoints - 2 THEN Cardinality(Others)
                                                  ELSE MaxPoints - 2
    /\ points[n + 1].since = Sat(Lapse)
    /\ \A p \in 1 .. n :
         LET at == Elapsed(window, Nth(p)) IN
         /\ points[p].since = Sat(at)
         /\ points[p].until = Sat(Lapse - at)
         /\ Label(refch, points[p].hid) = window[Nth(p)].ch

(***************************************************************************)
(* A new configuration is used from the next histogram on: it never        *)
(* changes in the course of one, which would mix delays from two channels. *)
(***************************************************************************)
JitterConfStable ==
  [][cur_conf' # cur_conf => bins' = Empty /\ jticks' \in {0, 1}]_jvars

(***************************************************************************)
(* Once a reference event has come, histograms go on being published, as   *)
(* long as the task runs and is not activated anew.                        *)
(***************************************************************************)
Measuring == Counting /\ points # <<>>

JitterPublishes ==
  \A b \in BOOLEAN : Measuring /\ npub = b ~> npub # b \/ ~Measuring

-----------------------------------------------------------------------------
(***************************************************************************)
(* The assertions of task_jitter_pkt_hn and of s_save_points hold.  CH is  *)
(* read from the frame unchecked, dbg_assert (pt->hid < TES_JITTER_NHISTS) *)
(* fails for a channel that has no histogram; and                          *)
(* dbg_assert (data->ticks <= data->cur_conf.ticks) if too many ticks come *)
(* before the first reference event.                                       *)
(***************************************************************************)
JitterNoAbort == ~jabort

(***************************************************************************)
(* Delays are measured from the channel that the header of the histogram   *)
(* names.  The time since an event of the old channel goes over into the   *)
(* histogram for which the new one is used.                                *)
(***************************************************************************)
JitterOneRef == points # <<>> => wref = refch
=============================================================================
