--------------------------- MODULE Jitter_proofs ----------------------------
(***************************************************************************)
(* Proofs about the jitter publisher, for any numbers of channels, bins    *)
(* and points, any configurations, and frames of any length.               *)
(***************************************************************************)
EXTENDS Jitter, FiniteSetTheorems, SequenceTheorems, TLAPS

-----------------------------------------------------------------------------
(***************************************************************************)
(* Induction over the natural numbers, for sets: a nonempty set of them    *)
(* has a least element.                                                    *)
(***************************************************************************)
LEMMA LeastOf ==
  ASSUME NEW T, T \subseteq Nat, T # {}
  PROVE  \E n \in T : \A m \in T : n <= m
  <1> DEFINE R == {ss \in Nat \X Nat : ss[1] < ss[2]}
  <1>1. IsWellFoundedOn(R, Nat)
    BY NatLessThanWellFounded DEF OpToRel
  <1>2. PICK n \in T : \A m \in T : ~(<<m, n>> \in R)
    <2> HIDE DEF R
    <2> QED BY <1>1, WFMin
  <1>3. \A m \in T : ~(m < n)
    BY <1>2
  <1> QED BY <1>3

LEMMA SetInduction ==
  ASSUME NEW S, 0 \in S, \A n \in Nat : n \in S => n + 1 \in S
  PROVE  \A n \in Nat : n \in S
  <1> SUFFICES ASSUME NEW n0 \in Nat, n0 \notin S PROVE FALSE
    OBVIOUS
  <1>1. PICK n \in Nat \ S : \A m \in Nat \ S : n <= m
    BY LeastOf
  <1>2. n # 0 /\ n - 1 \in Nat
    BY <1>1
  <1>3. n - 1 \in S
    BY <1>1, <1>2
  <1> QED BY <1>1, <1>2, <1>3

-----------------------------------------------------------------------------
(***************************************************************************)
(* Elapsed is the sum of the delays: the recursive function it is defined  *)
(* with exists.                                                            *)
(***************************************************************************)
Sums(t, w, n) == t = [k \in 0 .. n |-> IF k = 0 THEN 0 ELSE t[k - 1] + w[k].d]

LEMMA SumsExist ==
  ASSUME NEW w, NEW n \in Nat
  PROVE  \E t : Sums(t, w, n)
  <1> DEFINE S == {m \in Nat : \E t : Sums(t, w, m)}
  <1>1. 0 \in S
    <2>1. Sums([k \in 0 .. 0 |-> 0], w, 0)
      BY DEF Sums
    <2> QED BY <2>1
  <1>2. ASSUME NEW m \in Nat, m \in S PROVE m + 1 \in S
    <2>1. PICK t : Sums(t, w, m)
      BY <1>2
    <2> DEFINE u == [k \in 0 .. m + 1 |-> IF k = m + 1 THEN t[m] + w[m + 1].d ELSE t[k]]
    <2>2. \A k \in 0 .. m + 1 : u[k] = IF k = 0 THEN 0 ELSE u[k - 1] + w[k].d
      <3> SUFFICES ASSUME NEW k \in 0 .. m + 1
                   PROVE  u[k] = IF k = 0 THEN 0 ELSE u[k - 1] + w[k].d
        OBVIOUS
      <3>1. CASE k = m + 1
        BY <3>1
      <3>2. CASE k # m + 1
        <4>1. k \in 0 .. m /\ (k # 0 => k - 1 \in 0 .. m)
          BY <3>2
        <4>2. t[k] = IF k = 0 THEN 0 ELSE t[k - 1] + w[k].d
          BY <2>1, <4>1 DEF Sums
        <4>3. u[k] = t[k] /\ (k # 0 => u[k - 1] = t[k - 1])
          BY <3>2, <4>1
        <4> QED BY <4>2, <4>3
      <3> QED BY <3>1, <3>2
    <2>3. u = [k \in 0 .. m + 1 |-> u[k]]
      OBVIOUS
    <2> HIDE DEF u
    <2>4. Sums(u, w, m + 1)
      BY <2>2, <2>3 DEF Sums
    <2> QED BY <2>4
  <1> HIDE DEF S
  <1>3. n \in S
    BY <1>1, <1>2, SetInduction
  <1> QED BY <1>3 DEF S

LEMMA ElapsedSums ==
  ASSUME NEW w, NEW n \in Nat
  PROVE  \E t : Sums(t, w, n) /\ Elapsed(w, n) = t[n]
  <1> DEFINE t == CHOOSE t : Sums(t, w, n)
  <1>1. Sums(t, w, n)
    BY SumsExist
  <1>2. Elapsed(w, n) = t[n]
    BY DEF Elapsed, Sums
  <1> QED BY <1>1, <1>2

\* Sums of the same delays agree
SameDelays(w, x, n) == \A k \in 1 .. n : w[k].d = x[k].d

LEMMA SumsAgree ==
  ASSUME NEW w, NEW x, NEW n \in Nat, NEW m \in Nat, n <= m, SameDelays(w, x, n),
         NEW t, Sums(t, w, n), NEW u, Sums(u, x, m)
  PROVE  t[n] = u[n]
  <1> DEFINE S == {k \in Nat : k <= n => t[k] = u[k]}
  <1>1. 0 \in S
    BY DEF Sums
  <1>2. ASSUME NEW k \in Nat, k \in S PROVE k + 1 \in S
    <2> SUFFICES ASSUME k + 1 <= n PROVE t[k + 1] = u[k + 1]
      OBVIOUS
    <2>1. k + 1 \in 0 .. n /\ k + 1 \in 0 .. m /\ k + 1 \in 1 .. n /\ k + 1 # 0
          /\ (k + 1) - 1 = k
      OBVIOUS
    <2>2. t[k + 1] = t[k] + w[k + 1].d /\ u[k + 1] = u[k] + x[k + 1].d
      BY <2>1 DEF Sums
    <2>3. t[k] = u[k]
      BY <1>2
    <2> QED BY <2>1, <2>2, <2>3 DEF SameDelays
  <1> HIDE DEF S
  <1>3. n \in S
    BY <1>1, <1>2, SetInduction
  <1> QED BY <1>3 DEF S

LEMMA ElapsedStep ==
  ASSUME NEW w
  PROVE  /\ Elapsed(w, 0) = 0
         /\ \A n \in Nat : Elapsed(w, n + 1) = Elapsed(w, n) + w[n + 1].d
  <1>1. Elapsed(w, 0) = 0
    <2>1. PICK t : Sums(t, w, 0) /\ Elapsed(w, 0) = t[0]
      BY ElapsedSums
    <2> QED BY <2>1 DEF Sums
  <1>2. ASSUME NEW n \in Nat PROVE Elapsed(w, n + 1) = Elapsed(w, n) + w[n + 1].d
    <2>1. PICK t : Sums(t, w, n) /\ Elapsed(w, n) = t[n]
      BY ElapsedSums
    <2>2. PICK u : Sums(u, w, n + 1) /\ Elapsed(w, n + 1) = u[n + 1]
      BY ElapsedSums
    <2>3. n + 1 \in Nat /\ n <= n + 1 /\ n + 1 \in 0 .. n + 1 /\ (n + 1) - 1 = n /\ n + 1 # 0
      OBVIOUS
    <2>4. t[n] = u[n]
      <3>1. SameDelays(w, w, n)
        BY DEF SameDelays
      <3> QED BY <2>1, <2>2, <2>3, <3>1, SumsAgree
    <2>5. u[n + 1] = u[n] + w[n + 1].d
      BY <2>2, <2>3 DEF Sums
    <2> QED BY <2>1, <2>2, <2>4, <2>5
  <1> QED BY <1>1, <1>2

LEMMA ElapsedSame ==
  ASSUME NEW w, NEW x, NEW n \in Nat, SameDelays(w, x, n)
  PROVE  Elapsed(w, n) = Elapsed(x, n)
  <1>1. PICK t : Sums(t, w, n) /\ Elapsed(w, n) = t[n]
    BY ElapsedSums
  <1>2. PICK u : Sums(u, x, n) /\ Elapsed(x, n) = u[n]
    BY ElapsedSums
  <1>3. n <= n
    OBVIOUS
  <1> QED BY <1>1, <1>2, <1>3, SumsAgree

LEMMA ElapsedType ==
  ASSUME NEW w \in Seq(Events)
  PROVE  /\ \A n \in 0 .. Len(w) : Elapsed(w, n) \in Nat
         /\ \A n \in 0 .. Len(w) : Elapsed(w, n) <= Elapsed(w, Len(w))
  <1>0. Len(w) \in Nat /\ \A k \in 1 .. Len(w) : w[k].d \in Nat
    <2>1. Len(w) \in Nat /\ \A k \in 1 .. Len(w) : w[k] \in Events
      BY LenProperties, ElementOfSeq
    <2> QED BY <2>1 DEF Events
  <1> DEFINE S == {n \in Nat : n <= Len(w) => Elapsed(w, n) \in Nat}
  <1>1. 0 \in S
    BY ElapsedStep
  <1>2. ASSUME NEW n \in Nat, n \in S PROVE n + 1 \in S
    <2> SUFFICES ASSUME n + 1 <= Len(w) PROVE Elapsed(w, n + 1) \in Nat
      OBVIOUS
    <2>1. n + 1 \in 1 .. Len(w) /\ Elapsed(w, n) \in Nat
      BY <1>0, <1>2
    <2>2. Elapsed(w, n + 1) = Elapsed(w, n) + w[n + 1].d /\ w[n + 1].d \in Nat
      BY <1>0, <2>1, ElapsedStep
    <2> QED BY <2>1, <2>2
  <1>3. \A n \in Nat : n \in S
    <2> HIDE DEF S
    <2> QED BY <1>1, <1>2, SetInduction
  <1>4. \A n \in 0 .. Len(w) : Elapsed(w, n) \in Nat
    BY <1>0, <1>3
  <1> DEFINE D == {j \in Nat : j <= Len(w) => Elapsed(w, Len(w) - j) <= Elapsed(w, Len(w))}
  <1>5. 0 \in D
    BY <1>0, <1>4
  <1>6. ASSUME NEW j \in Nat, j \in D PROVE j + 1 \in D
    <2> SUFFICES ASSUME j + 1 <= Len(w)
                 PROVE  Elapsed(w, Len(w) - (j + 1)) <= Elapsed(w, Len(w))
      OBVIOUS
    <2> DEFINE n == Len(w) - (j + 1)
    <2>1. n \in Nat /\ n + 1 = Len(w) - j /\ n + 1 \in 1 .. Len(w) /\ n \in 0 .. Len(w)
          /\ Len(w) \in 0 .. Len(w) /\ n + 1 \in 0 .. Len(w)
      BY <1>0
    <2>2. Elapsed(w, n + 1) <= Elapsed(w, Len(w))
      BY <1>0, <1>6, <2>1
    <2> HIDE DEF n
    <2>3. Elapsed(w, n + 1) = Elapsed(w, n) + w[n + 1].d /\ w[n + 1].d \in Nat
      BY <1>0, <2>1, ElapsedStep
    <2>4. Elapsed(w, n) \in Nat /\ Elapsed(w, n + 1) \in Nat /\ Elapsed(w, Len(w)) \in Nat
      BY <1>4, <2>1
    <2>5. Elapsed(w, n) <= Elapsed(w, Len(w))
      BY <2>2, <2>3, <2>4
    <2> QED BY <2>5 DEF n
  <1>7. \A j \in Nat : j \in D
    <2> HIDE DEF D
    <2> QED BY <1>5, <1>6, SetInduction
  <1>8. ASSUME NEW n \in 0 .. Len(w) PROVE Elapsed(w, n) <= Elapsed(w, Len(w))
    <2> DEFINE j == Len(w) - n
    <2>1. j \in Nat /\ j <= Len(w) /\ Len(w) - j = n
      BY <1>0
    <2>2. Elapsed(w, Len(w) - j) <= Elapsed(w, Len(w))
      <3> HIDE DEF j
      <3> QED BY <1>7, <2>1
    <2> QED BY <2>1, <2>2
  <1> QED BY <1>4, <1>8

-----------------------------------------------------------------------------
(***************************************************************************)
(* Points.                                                                 *)
(***************************************************************************)
LEMMA SatFields ==
  ASSUME NEW d \in Nat
  PROVE  /\ Sat(d) \in 0 .. DMax /\ Sat(d) \in Nat
         /\ Sat(Sat(d)) = Sat(d)
         /\ \A e \in Nat : Sat(Sat(d) + e) = Sat(d + e)
  BY JitterAssumption DEF Sat

LEMMA ElementsOf ==
  ASSUME NEW S, NEW q \in Seq(S)
  PROVE  /\ Len(q) \in Nat /\ DOMAIN q = 1 .. Len(q)
         /\ \A k \in 1 .. Len(q) : q[k] \in S
         /\ q # <<>> <=> Len(q) >= 1
  <1>1. Len(q) \in Nat /\ DOMAIN q = 1 .. Len(q) /\ \A k \in 1 .. Len(q) : q[k] \in S
    BY LenProperties, ElementOfSeq
  <1>2. q # <<>> <=> Len(q) >= 1
    OBVIOUS
  <1> QED BY <1>1, <1>2

\* A function over 1 .. n is a sequence
LEMMA FunctionSeq ==
  ASSUME NEW S, NEW n \in Nat, NEW f \in [1 .. n -> S]
  PROVE  f \in Seq(S) /\ Len(f) = n
  <1>1. f \in Seq(S)
    BY SeqDef
  <1>2. DOMAIN f = 1 .. n /\ DOMAIN f = 1 .. Len(f) /\ Len(f) \in Nat
    BY <1>1, ElementsOf
  <1>3. Len(f) = n
    BY <1>2
  <1> QED BY <1>1, <1>3

\* What Delayed returns
IsDelayed(r, pts, d, ref) ==
  /\ r \in Seq(Points) /\ Len(r) = Len(pts)
  /\ \A p \in 1 .. Len(pts) - 1 :
       /\ r[p].since = pts[p].since /\ r[p].hid = pts[p].hid
       /\ r[p].until = Sat(pts[p].until + d)
  /\ pts # <<>> =>
       /\ r[Len(pts)].hid = pts[Len(pts)].hid
       /\ r[Len(pts)].until = pts[Len(pts)].until
       /\ ~ref => r[Len(pts)].since = Sat(pts[Len(pts)].since + d)

LEMMA DelayedFields ==
  ASSUME NEW pts \in Seq(Points), NEW d \in Nat, NEW ref \in BOOLEAN
  PROVE  IsDelayed(Delayed(pts, d, ref), pts, d, ref)
  <1> DEFINE r == Delayed(pts, d, ref)
  <1>0. /\ Len(pts) \in Nat /\ DOMAIN pts = 1 .. Len(pts)
        /\ \A k \in 1 .. Len(pts) : pts[k] \in Points
        /\ pts # <<>> <=> Len(pts) >= 1
    BY ElementsOf
  <1>1. ASSUME NEW pt \in Points
        PROVE  /\ pt.since \in Nat /\ pt.until \in Nat
               /\ [pt EXCEPT !.until = Sat(@ + d)] \in Points
               /\ [pt EXCEPT !.until = Sat(@ + d)].since = pt.since
               /\ [pt EXCEPT !.until = Sat(@ + d)].hid = pt.hid
               /\ [pt EXCEPT !.until = Sat(@ + d)].until = Sat(pt.until + d)
               /\ [pt EXCEPT !.since = Sat(@ + d)] \in Points
               /\ [pt EXCEPT !.since = Sat(@ + d)].until = pt.until
               /\ [pt EXCEPT !.since = Sat(@ + d)].hid = pt.hid
               /\ [pt EXCEPT !.since = Sat(@ + d)].since = Sat(pt.since + d)
    <2>1. pt.since \in Nat /\ pt.until \in Nat
      BY JitterAssumption DEF Points
    <2>2. Sat(pt.since + d) \in 0 .. DMax /\ Sat(pt.until + d) \in 0 .. DMax
      <3>1. pt.since + d \in Nat /\ pt.until + d \in Nat
        BY <2>1
      <3> QED BY <3>1, SatFields
    <2> QED BY <2>1, <2>2 DEF Points
  <1>2. ASSUME NEW p \in 1 .. Len(pts)
        PROVE  r[p] = IF p < Len(pts) THEN [pts[p] EXCEPT !.until = Sat(@ + d)]
                      ELSE IF ref THEN pts[p] ELSE [pts[p] EXCEPT !.since = Sat(@ + d)]
    BY <1>0 DEF Delayed
  <1>3. r \in [1 .. Len(pts) -> Points]
    <2>2. r = [p \in 1 .. Len(pts) |-> r[p]]
      BY <1>0 DEF Delayed
    <2> HIDE DEF r
    <2>1. \A p \in 1 .. Len(pts) : r[p] \in Points
      BY <1>0, <1>1, <1>2
    <2> QED BY <2>1, <2>2
  <1> HIDE DEF r
  <1>4. r \in Seq(Points) /\ Len(r) = Len(pts)
    BY <1>0, <1>3, FunctionSeq
  <1>5. ASSUME NEW p \in 1 .. Len(pts) - 1
        PROVE  /\ r[p].since = pts[p].since /\ r[p].hid = pts[p].hid
               /\ r[p].until = Sat(pts[p].until + d)
    <2>1. p \in 1 .. Len(pts) /\ p < Len(pts)
      BY <1>0
    <2> QED BY <1>0, <1>1, <1>2, <2>1
  <1>6. ASSUME pts # <<>>
        PROVE  /\ r[Len(pts)].hid = pts[Len(pts)].hid
               /\ r[Len(pts)].until = pts[Len(pts)].until
               /\ ~ref => r[Len(pts)].since = Sat(pts[Len(pts)].since + d)
    <2>1. Len(pts) \in 1 .. Len(pts) /\ ~(Len(pts) < Len(pts))
      BY <1>0, <1>6
    <2> QED BY <1>0, <1>1, <1>2, <2>1
  <1>7. IsDelayed(r, pts, d, ref)
    BY <1>4, <1>5, <1>6 DEF IsDelayed
  <1> QED BY <1>7 DEF r

\* What WithPoint returns
IsWithPoint(r, pts, hid) ==
  IF Len(pts) < MaxPoints - 1
    THEN /\ r \in Seq(Points) /\ Len(r) = Len(pts) + 1
         /\ \A p \in 1 .. Len(pts) - 1 : r[p] = pts[p]
         /\ r[Len(pts)].since = pts[Len(pts)].since
         /\ r[Len(pts)].until = pts[Len(pts)].until
         /\ r[Len(pts)].hid = hid
         /\ r[Len(pts) + 1].since = pts[Len(pts)].since
         /\ r[Len(pts) + 1].until = 0 /\ r[Len(pts) + 1].hid = -1
    ELSE r = pts

LEMMA WithPointFields ==
  ASSUME NEW pts \in Seq(Points), pts # <<>>, NEW hid \in 0 .. MaxCh - 1
  PROVE  IsWithPoint(WithPoint(pts, hid), pts, hid)
  <1> DEFINE r == WithPoint(pts, hid)
  <1>0. /\ Len(pts) \in Nat /\ DOMAIN pts = 1 .. Len(pts) /\ Len(pts) >= 1
        /\ \A k \in 1 .. Len(pts) : pts[k] \in Points
    BY ElementsOf
  <1> DEFINE n == Len(pts)
             g == pts[n]
             b == [g EXCEPT !.hid = hid]
             h == [g EXCEPT !.until = 0, !.hid = -1]
             q == [pts EXCEPT ![n] = b]
  <1>1. g \in Points /\ n \in 1 .. n
    BY <1>0
  <1>2. b \in Points /\ b.since = g.since /\ b.until = g.until /\ b.hid = hid
    <2>1. hid \in -1 .. MaxCh - 1
      BY JitterAssumption
    <2> HIDE DEF g
    <2> QED BY <1>1, <2>1 DEF Points
  <1>3. h \in Points /\ h.since = g.since /\ h.until = 0 /\ h.hid = -1
    <2>1. -1 \in -1 .. MaxCh - 1 /\ 0 \in 0 .. DMax
      BY JitterAssumption
    <2> DEFINE z == [g EXCEPT !.until = 0]
    <2>2. z \in Points /\ z.since = g.since /\ z.until = 0
      <3> HIDE DEF g
      <3> QED BY <1>1, <2>1 DEF Points
    <2>3. h = [z EXCEPT !.hid = -1]
      <3> HIDE DEF g
      <3> QED BY <1>1 DEF Points
    <2> HIDE DEF z, h
    <2> QED BY <2>1, <2>2, <2>3 DEF Points
  <1>4. /\ q \in Seq(Points) /\ Len(q) = n
        /\ \A p \in 1 .. n : q[p] = IF p = n THEN b ELSE pts[p]
    <2> HIDE DEF b
    <2> QED BY <1>1, <1>2, ExceptSeq
  <1>5. CASE n < MaxPoints - 1
    <2>1. r = Append(q, h)
      BY <1>5 DEF WithPoint
    <2> HIDE DEF q, h, b, g, r
    <2>2. /\ r \in Seq(Points) /\ Len(r) = Len(q) + 1 /\ r[Len(q) + 1] = h
          /\ \A p \in 1 .. Len(q) : r[p] = q[p]
      BY <1>3, <1>4, <2>1, AppendProperties
    <2>3. ASSUME NEW p \in 1 .. n PROVE r[p] = IF p = n THEN b ELSE pts[p]
      BY <1>4, <2>2
    <2>4. r[n] = b /\ \A p \in 1 .. n - 1 : r[p] = pts[p]
      <3>1. n \in Nat /\ n \in 1 .. n
        BY <1>0, <1>1
      <3> HIDE DEF n
      <3>2. \A p \in 1 .. n - 1 : p \in 1 .. n /\ p # n
        BY <3>1
      <3> QED BY <2>3, <3>1, <3>2
    <2>5. IsWithPoint(r, pts, hid)
      BY <1>2, <1>3, <1>4, <1>5, <2>2, <2>4 DEF g, IsWithPoint
    <2> QED BY <2>5 DEF r
  <1>6. CASE ~(n < MaxPoints - 1)
    BY <1>6 DEF WithPoint, IsWithPoint
  <1> QED BY <1>5, <1>6

-----------------------------------------------------------------------------
(***************************************************************************)
(* The invariant.  JitterDelays counts events with Cardinality; here the   *)
(* points are numbered instead: m is the increasing list of the events of  *)
(* window w that the n points belong to, which are all events of other     *)
(* channels, or the first ones if there is no more room.                   *)
(***************************************************************************)
Numbering(m, w, n) ==
  /\ m \in [1 .. n -> 1 .. Len(w)]
  /\ \A p \in 1 .. n : w[m[p]].ch \in EventChs
  /\ \A p, q \in 1 .. n : p < q => m[p] < m[q]
  /\ \A i \in 1 .. Len(w) :
       w[i].ch \in EventChs =>
         \/ \E p \in 1 .. n : m[p] = i
         \/ n = MaxPoints - 2 /\ \A p \in 1 .. n : m[p] < i

\* Point pt is that of event i
PointOf(pt, w, i, ref) ==
  /\ pt.since = Sat(Elapsed(w, i))
  /\ pt.until = Sat(Elapsed(w, Len(w)) - Elapsed(w, i))
  /\ Label(ref, pt.hid) = w[i].ch

\* The ghost has the delay since the reference, and points belong to events
Measured(pts, w, ref) ==
  pts # <<>> =>
    /\ pts[Len(pts)].since = Sat(Elapsed(w, Len(w)))
    /\ pts[Len(pts)].until = 0
    /\ \E m \in [1 .. Len(pts) - 1 -> 1 .. Len(w)] :
         /\ Numbering(m, w, Len(pts) - 1)
         /\ \A p \in 1 .. Len(pts) - 1 : PointOf(pts[p], w, m[p], ref)

Rooms(pts) ==
  /\ Len(pts) < MaxPoints
  /\ pts # <<>> => pts[Len(pts)].hid = -1
  /\ \A p \in 1 .. Len(pts) - 1 : pts[p].hid \in 0 .. MaxCh - 1

JitterInv ==
  /\ JitterTypeOK
  /\ JitterAsserts
  /\ Measured(points, window, refch)

-----------------------------------------------------------------------------
(***************************************************************************)
(* An event is added to the window.                                        *)
(***************************************************************************)
\* v is w with e added
IsAdded(v, w, e) ==
  /\ v \in Seq(Events) /\ Len(w) \in Nat /\ Len(v) = Len(w) + 1
  /\ \A i \in 1 .. Len(w) : v[i] = w[i]
  /\ v[Len(w) + 1] = e
  /\ Elapsed(w, Len(w)) \in Nat
  /\ Elapsed(v, Len(v)) = Elapsed(w, Len(w)) + e.d
  /\ \A i \in 1 .. Len(w) : /\ Elapsed(v, i) = Elapsed(w, i) /\ Elapsed(w, i) \in Nat
                            /\ Elapsed(w, i) <= Elapsed(w, Len(w))

LEMMA AddedEvent ==
  ASSUME NEW w \in Seq(Events), NEW e \in Events
  PROVE  IsAdded(Append(w, e), w, e)
  <1> DEFINE v == Append(w, e)
  <1>1. /\ v \in Seq(Events) /\ Len(w) \in Nat /\ Len(v) = Len(w) + 1
        /\ \A i \in 1 .. Len(w) : v[i] = w[i]
        /\ v[Len(w) + 1] = e
    BY AppendProperties, LenProperties
  <1> HIDE DEF v
  <1>2. ASSUME NEW i \in 0 .. Len(w) PROVE Elapsed(v, i) = Elapsed(w, i)
    <2>1. i \in Nat /\ \A k \in 1 .. i : k \in 1 .. Len(w)
      BY <1>1
    <2>2. SameDelays(v, w, i)
      BY <1>1, <2>1 DEF SameDelays
    <2> QED BY <2>1, <2>2, ElapsedSame
  <1>3. /\ \A i \in 0 .. Len(w) : Elapsed(w, i) \in Nat
        /\ \A i \in 0 .. Len(w) : Elapsed(w, i) <= Elapsed(w, Len(w))
    BY ElapsedType
  <1>4. Elapsed(v, Len(v)) = Elapsed(w, Len(w)) + e.d
    <2>1. Elapsed(v, Len(w) + 1) = Elapsed(v, Len(w)) + v[Len(w) + 1].d
      BY <1>1, ElapsedStep
    <2>2. Elapsed(v, Len(w)) = Elapsed(w, Len(w))
      BY <1>1, <1>2
    <2> QED BY <1>1, <2>1, <2>2
  <1>5. Len(w) \in 0 .. Len(w) /\ \A i \in 1 .. Len(w) : i \in 0 .. Len(w)
    BY <1>1
  <1>6. IsAdded(v, w, e)
    BY <1>1, <1>2, <1>3, <1>4, <1>5 DEF IsAdded
  <1> QED BY <1>6 DEF v

\* r is the points pts of window w after the event that makes it v
IsAged(r, v, pts, w, ref) ==
  /\ r \in Seq(Points) /\ Len(r) = Len(pts)
  /\ r[Len(pts)].since = Sat(Elapsed(v, Len(v)))
  /\ r[Len(pts)].until = 0
  /\ r[Len(pts)].hid = pts[Len(pts)].hid
  /\ \A p \in 1 .. Len(pts) - 1 : r[p].hid = pts[p].hid
  /\ \E m \in [1 .. Len(pts) - 1 -> 1 .. Len(w)] :
       /\ Numbering(m, w, Len(pts) - 1)
       /\ \A p \in 1 .. Len(pts) - 1 : PointOf(r[p], v, m[p], ref)

LEMMA DelayedPoints ==
  ASSUME NEW pts \in Seq(Points), pts # <<>>, NEW w \in Seq(Events), NEW e \in Events,
         NEW ref, Measured(pts, w, ref)
  PROVE  IsAged(Delayed(pts, e.d, FALSE), Append(w, e), pts, w, ref)
  <1> DEFINE r == Delayed(pts, e.d, FALSE)
             v == Append(w, e)
  <1> HIDE DEF r, v
  <1> DEFINE n == Len(pts) - 1
             L == Elapsed(w, Len(w))
  <1>0. /\ Len(pts) \in Nat /\ Len(pts) >= 1
        /\ \A k \in 1 .. Len(pts) : pts[k] \in Points
        /\ e.d \in Nat
    BY ElementsOf DEF Events
  <1>1. /\ r \in Seq(Points) /\ Len(r) = Len(pts)
        /\ \A p \in 1 .. n :
             /\ r[p].since = pts[p].since /\ r[p].hid = pts[p].hid
             /\ r[p].until = Sat(pts[p].until + e.d)
        /\ r[Len(pts)].hid = pts[Len(pts)].hid
        /\ r[Len(pts)].until = pts[Len(pts)].until
        /\ r[Len(pts)].since = Sat(pts[Len(pts)].since + e.d)
    <2>1. FALSE \in BOOLEAN
      OBVIOUS
    <2>2. IsDelayed(r, pts, e.d, FALSE)
      BY <1>0, <2>1, DelayedFields DEF r
    <2> QED BY <2>2 DEF IsDelayed
  <1>2. /\ pts[Len(pts)].since = Sat(L) /\ pts[Len(pts)].until = 0
        /\ \E m \in [1 .. n -> 1 .. Len(w)] :
             Numbering(m, w, n) /\ \A p \in 1 .. n : PointOf(pts[p], w, m[p], ref)
    BY DEF Measured
  <1>3. /\ Len(w) \in Nat /\ Len(v) = Len(w) + 1
        /\ \A i \in 1 .. Len(w) : v[i] = w[i]
        /\ L \in Nat /\ Elapsed(v, Len(v)) = L + e.d
        /\ \A i \in 1 .. Len(w) : /\ Elapsed(v, i) = Elapsed(w, i) /\ Elapsed(w, i) \in Nat
                                  /\ Elapsed(w, i) <= L
    <2>1. IsAdded(v, w, e)
      BY AddedEvent DEF v
    <2> QED BY <2>1 DEF IsAdded
  <1> HIDE DEF L
  <1>4. r[Len(pts)].since = Sat(L + e.d)
    <2>1. Sat(Sat(L) + e.d) = Sat(L + e.d)
      BY <1>0, <1>3, SatFields
    <2> QED BY <1>1, <1>2, <2>1
  <1>5. PICK m \in [1 .. n -> 1 .. Len(w)] :
          Numbering(m, w, n) /\ \A p \in 1 .. n : PointOf(pts[p], w, m[p], ref)
    BY <1>2
  <1>6. ASSUME NEW p \in 1 .. n PROVE PointOf(r[p], v, m[p], ref)
    <2> DEFINE i == m[p]
               x == Elapsed(w, i)
    <2>1. i \in 1 .. Len(w)
      BY <1>5
    <2>2. v[i] = w[i] /\ Elapsed(v, i) = x /\ x \in Nat /\ x <= L
      BY <1>3, <2>1
    <2>3. pts[p].since = Sat(x) /\ pts[p].until = Sat(L - x) /\ Label(ref, pts[p].hid) = w[i].ch
      BY <1>5 DEF PointOf, L
    <2> HIDE DEF i, x
    <2>4. L - x \in Nat /\ (L - x) + e.d = (L + e.d) - x
      BY <1>0, <1>3, <2>2
    <2>5. r[p].until = Sat((L + e.d) - x)
      <3>1. Sat(Sat(L - x) + e.d) = Sat((L - x) + e.d)
        BY <1>0, <2>4, SatFields
      <3> QED BY <1>1, <1>6, <2>3, <2>4, <3>1
    <2>6. r[p].since = Sat(x) /\ Label(ref, r[p].hid) = v[i].ch
      BY <1>1, <1>6, <2>2, <2>3
    <2>7. PointOf(r[p], v, i, ref)
      BY <1>3, <2>2, <2>5, <2>6 DEF PointOf
    <2> QED BY <2>7 DEF i
  <1>7. IsAged(r, v, pts, w, ref)
    BY <1>1, <1>2, <1>3, <1>4, <1>5, <1>6 DEF IsAged
  <1> QED BY <1>7 DEF r, v

\* A tick is no event of a channel
LEMMA MeasuredTick ==
  ASSUME NEW pts \in Seq(Points), pts # <<>>, NEW w \in Seq(Events), NEW e \in Events,
         e.ch \notin EventChs, NEW ref, Measured(pts, w, ref), Rooms(pts)
  PROVE  /\ Delayed(pts, e.d, FALSE) \in Seq(Points)
         /\ Delayed(pts, e.d, FALSE) # <<>>
         /\ Rooms(Delayed(pts, e.d, FALSE))
         /\ Measured(Delayed(pts, e.d, FALSE), Append(w, e), ref)
  <1> DEFINE r == Delayed(pts, e.d, FALSE)
             v == Append(w, e)
             n == Len(pts) - 1
  <1>1. IsAged(r, v, pts, w, ref)
    BY DelayedPoints
  <1>2. IsAdded(v, w, e)
    BY AddedEvent
  <1> HIDE DEF r, v
  <1>3. Len(pts) \in Nat /\ Len(pts) >= 1 /\ Len(w) \in Nat
    BY ElementsOf
  <1>4. PICK m \in [1 .. n -> 1 .. Len(w)] :
          Numbering(m, w, n) /\ \A p \in 1 .. n : PointOf(r[p], v, m[p], ref)
    BY <1>1 DEF IsAged
  <1>5. Numbering(m, v, n)
    <2>1. Len(v) = Len(w) + 1 /\ v[Len(w) + 1] = e /\ \A i \in 1 .. Len(w) : v[i] = w[i]
      BY <1>2 DEF IsAdded
    <2> HIDE DEF n
    <2>2. m \in [1 .. n -> 1 .. Len(v)]
      BY <1>3, <1>4, <2>1
    <2>3. \A p \in 1 .. n : v[m[p]].ch \in EventChs
      BY <1>4, <2>1 DEF Numbering
    <2>4. ASSUME NEW i \in 1 .. Len(v), v[i].ch \in EventChs
          PROVE  \/ \E p \in 1 .. n : m[p] = i
                 \/ n = MaxPoints - 2 /\ \A p \in 1 .. n : m[p] < i
      <3>1. i \in 1 .. Len(w)
        BY <1>3, <2>1, <2>4
      <3>2. w[i].ch \in EventChs
        BY <2>1, <2>4, <3>1
      <3> QED BY <1>4, <3>1, <3>2 DEF Numbering
    <2> QED BY <1>4, <2>2, <2>3, <2>4 DEF Numbering
  <1>6. m \in [1 .. n -> 1 .. Len(v)]
    BY <1>5 DEF Numbering
  <1>7. r \in Seq(Points) /\ Len(r) = Len(pts)
    BY <1>1 DEF IsAged
  <1>8. Measured(r, v, ref)
    BY <1>1, <1>4, <1>5, <1>6, <1>7 DEF Measured, IsAged
  <1>9. Rooms(r)
    BY <1>1, <1>3, <1>7 DEF Rooms, IsAged
  <1>10. r # <<>>
    BY <1>3, <1>7, ElementsOf
  <1> QED BY <1>7, <1>8, <1>9, <1>10 DEF r, v

\* The histogram of a channel has its label
LEMMA HidLabel ==
  ASSUME NEW ref \in Channels, NEW ch \in EventChs, ch # ref
  PROVE  Hid(ref, ch) \in 0 .. MaxCh - 1 /\ Label(ref, Hid(ref, ch)) = ch
  BY JitterAssumption DEF Hid, Label, Channels, EventChs

\* An event of another channel has a point of its own, if there is room
LEMMA MeasuredEvent ==
  ASSUME NEW pts \in Seq(Points), pts # <<>>, NEW w \in Seq(Events), NEW e \in Events,
         NEW ref \in Channels, e.ch \in EventChs, e.ch # ref,
         Measured(pts, w, ref), Rooms(pts)
  PROVE  /\ WithPoint(Delayed(pts, e.d, FALSE), Hid(ref, e.ch)) \in Seq(Points)
         /\ WithPoint(Delayed(pts, e.d, FALSE), Hid(ref, e.ch)) # <<>>
         /\ Rooms(WithPoint(Delayed(pts, e.d, FALSE), Hid(ref, e.ch)))
         /\ Measured(WithPoint(Delayed(pts, e.d, FALSE), Hid(ref, e.ch)), Append(w, e), ref)
  <1> DEFINE r == Delayed(pts, e.d, FALSE)
             v == Append(w, e)
             hid == Hid(ref, e.ch)
             x == WithPoint(r, hid)
             N == Len(pts)
             l == Len(w) + 1
  <1>0. hid \in 0 .. MaxCh - 1 /\ Label(ref, hid) = e.ch
    BY HidLabel
  <1>1. IsAged(r, v, pts, w, ref)
    BY DelayedPoints
  <1>2. /\ v \in Seq(Events) /\ Len(v) = l /\ v[l] = e /\ \A i \in 1 .. Len(w) : v[i] = w[i]
        /\ Elapsed(v, Len(v)) \in Nat
    <2>1. IsAdded(v, w, e)
      BY AddedEvent
    <2> HIDE DEF v
    <2>2. e.d \in Nat
      BY DEF Events
    <2> QED BY <2>1, <2>2 DEF IsAdded
  <1> HIDE DEF r, v, hid
  <1>3. N \in Nat /\ N >= 1 /\ Len(w) \in Nat /\ l \in Nat
    BY ElementsOf
  <1>4. r \in Seq(Points) /\ Len(r) = N /\ r # <<>>
    <2>1. r \in Seq(Points) /\ Len(r) = N
      BY <1>1 DEF IsAged
    <2> QED BY <1>3, <2>1, ElementsOf
  <1>5. PICK m \in [1 .. N - 1 -> 1 .. Len(w)] :
          Numbering(m, w, N - 1) /\ \A p \in 1 .. N - 1 : PointOf(r[p], v, m[p], ref)
    BY <1>1 DEF IsAged
  <1>6. /\ r[N].since = Sat(Elapsed(v, Len(v))) /\ r[N].until = 0
        /\ r[N].hid = pts[N].hid /\ \A p \in 1 .. N - 1 : r[p].hid = pts[p].hid
    BY <1>1 DEF IsAged
  <1>7. N < MaxPoints /\ pts[N].hid = -1 /\ \A p \in 1 .. N - 1 : pts[p].hid \in 0 .. MaxCh - 1
    BY DEF Rooms
  <1>8. IsWithPoint(x, r, hid)
    BY <1>0, <1>4, WithPointFields
  <1> HIDE DEF x, N, l
  <1>9. CASE N < MaxPoints - 1
    <2>1. /\ x \in Seq(Points) /\ Len(x) = N + 1
          /\ \A p \in 1 .. N - 1 : x[p] = r[p]
          /\ x[N].since = r[N].since /\ x[N].until = r[N].until /\ x[N].hid = hid
          /\ x[N + 1].since = r[N].since /\ x[N + 1].until = 0 /\ x[N + 1].hid = -1
      BY <1>4, <1>8, <1>9 DEF IsWithPoint
    <2> DEFINE k == [p \in 1 .. N |-> IF p = N THEN l ELSE m[p]]
    <2>2. ASSUME NEW p \in 1 .. N
          PROVE  p = N \/ (p \in 1 .. N - 1 /\ p # N)
      BY <1>3
    <2>3. ASSUME NEW p \in 1 .. N - 1
          PROVE  p \in 1 .. N /\ k[p] = m[p] /\ m[p] \in 1 .. Len(w) /\ m[p] < l /\ m[p] \in 1 .. l
      <3>1. p \in 1 .. N /\ p # N
        BY <1>3
      <3>2. m[p] \in 1 .. Len(w)
        BY <1>5
      <3> QED BY <1>3, <3>1, <3>2 DEF l
    <2>4. N \in 1 .. N /\ k[N] = l /\ l \in 1 .. l
      <3>1. N \in 1 .. N
        BY <1>3
      <3>2. l \in 1 .. l
        BY <1>3 DEF l
      <3> QED BY <3>1, <3>2
    <2>5. k \in [1 .. N -> 1 .. Len(v)]
      <3>1. \A p \in 1 .. N : k[p] \in 1 .. l
        BY <2>2, <2>3, <2>4
      <3>2. k = [p \in 1 .. N |-> k[p]]
        OBVIOUS
      <3> HIDE DEF k
      <3> QED BY <1>2, <3>1, <3>2
    <2> HIDE DEF k
    <2>6. \A p \in 1 .. N : v[k[p]].ch \in EventChs
      <3>1. \A p \in 1 .. N - 1 : v[k[p]].ch \in EventChs
        BY <1>2, <1>5, <2>3 DEF Numbering
      <3> QED BY <1>2, <2>2, <2>4, <3>1
    <2>7. ASSUME NEW p \in 1 .. N, NEW q \in 1 .. N, p < q PROVE k[p] < k[q]
      <3>1. p \in 1 .. N - 1
        BY <1>3, <2>7
      <3>2. CASE q = N
        BY <2>3, <2>4, <3>1, <3>2
      <3>3. CASE q # N
        <4>1. q \in 1 .. N - 1
          BY <2>2, <3>3
        <4> QED BY <1>5, <2>3, <2>7, <3>1, <4>1 DEF Numbering
      <3> QED BY <3>2, <3>3
    <2>8. ASSUME NEW i \in 1 .. Len(v), v[i].ch \in EventChs
          PROVE  \E p \in 1 .. N : k[p] = i
      <3>1. CASE i = l
        BY <2>4, <3>1
      <3>2. CASE i # l
        <4>1. i \in 1 .. Len(w)
          BY <1>2, <1>3, <3>2 DEF l
        <4>2. w[i].ch \in EventChs
          BY <1>2, <2>8, <4>1
        <4>3. N - 1 # MaxPoints - 2
          BY <1>3, <1>9, JitterAssumption
        <4>4. PICK p \in 1 .. N - 1 : m[p] = i
          BY <1>5, <4>1, <4>2, <4>3 DEF Numbering
        <4> QED BY <2>3, <4>4
      <3> QED BY <3>1, <3>2
    <2>9. Numbering(k, v, N)
      BY <2>5, <2>6, <2>7, <2>8 DEF Numbering
    <2>10. ASSUME NEW p \in 1 .. N PROVE PointOf(x[p], v, k[p], ref)
      <3>1. CASE p = N
        <4>1. Sat(Elapsed(v, Len(v)) - Elapsed(v, Len(v))) = 0
          BY <1>2, JitterAssumption DEF Sat
        <4> QED BY <1>0, <1>2, <1>6, <2>1, <2>4, <3>1, <4>1 DEF PointOf
      <3>2. CASE p # N
        <4>1. p \in 1 .. N - 1
          BY <2>2, <3>2
        <4> QED BY <1>5, <2>1, <2>3, <4>1
      <3> QED BY <3>1, <3>2
    <2>11. (N + 1) - 1 = N
      BY <1>3
    <2>12. Measured(x, v, ref)
      <3>1. Len(x) - 1 = N /\ x[Len(x)].since = Sat(Elapsed(v, Len(v))) /\ x[Len(x)].until = 0
        BY <1>6, <2>1, <2>11
      <3>2. \E j \in [1 .. N -> 1 .. Len(v)] :
              Numbering(j, v, N) /\ \A p \in 1 .. N : PointOf(x[p], v, j[p], ref)
        BY <2>5, <2>9, <2>10
      <3>3. \E j \in [1 .. Len(x) - 1 -> 1 .. Len(v)] :
              /\ Numbering(j, v, Len(x) - 1)
              /\ \A p \in 1 .. Len(x) - 1 : PointOf(x[p], v, j[p], ref)
        BY ONLY <3>1, <3>2, Zenon
      <3> QED BY <3>1, <3>3 DEF Measured
    <2>13. Rooms(x)
      <3>1. \A p \in 1 .. N : x[p].hid \in 0 .. MaxCh - 1
        BY <1>0, <1>6, <1>7, <2>1, <2>2
      <3>2. N + 1 < MaxPoints
        BY <1>3, <1>9, JitterAssumption
      <3> QED BY <2>1, <2>11, <3>1, <3>2 DEF Rooms
    <2>14. x # <<>>
      BY <1>3, <2>1, ElementsOf
    <2> QED BY <2>1, <2>12, <2>13, <2>14 DEF x, r, v, hid
  <1>10. CASE ~(N < MaxPoints - 1)
    <2>1. x = r /\ N - 1 = MaxPoints - 2
      BY <1>3, <1>4, <1>7, <1>8, <1>10, JitterAssumption DEF IsWithPoint
    <2>2. ASSUME NEW p \in 1 .. N - 1
          PROVE  m[p] \in 1 .. Len(w) /\ m[p] < l /\ m[p] \in 1 .. l
      <3>1. m[p] \in 1 .. Len(w)
        BY <1>5
      <3> QED BY <1>3, <3>1 DEF l
    <2>3. Numbering(m, v, N - 1)
      <3>1. m \in [1 .. N - 1 -> 1 .. Len(v)]
        BY <1>2, <1>5, <2>2
      <3>2. \A p \in 1 .. N - 1 : v[m[p]].ch \in EventChs
        BY <1>2, <1>5, <2>2 DEF Numbering
      <3>3. ASSUME NEW i \in 1 .. Len(v), v[i].ch \in EventChs
            PROVE  \/ \E p \in 1 .. N - 1 : m[p] = i
                   \/ N - 1 = MaxPoints - 2 /\ \A p \in 1 .. N - 1 : m[p] < i
        <4>1. CASE i = l
          BY <2>1, <2>2, <4>1
        <4>2. CASE i # l
          <5>1. i \in 1 .. Len(w)
            BY <1>2, <1>3, <4>2 DEF l
          <5>2. w[i].ch \in EventChs
            BY <1>2, <3>3, <5>1
          <5> QED BY <1>5, <5>1, <5>2 DEF Numbering
        <4> QED BY <4>1, <4>2
      <3> QED BY <1>5, <3>1, <3>2, <3>3 DEF Numbering
    <2>4. m \in [1 .. N - 1 -> 1 .. Len(v)]
      BY <2>3 DEF Numbering
    <2>5. Measured(r, v, ref)
      BY <1>4, <1>5, <1>6, <2>3, <2>4 DEF Measured
    <2>6. Rooms(r)
      BY <1>4, <1>6, <1>7 DEF Rooms
    <2> QED BY <1>4, <2>1, <2>5, <2>6 DEF x, r, v, hid
  <1> QED BY <1>9, <1>10

-----------------------------------------------------------------------------
(***************************************************************************)
(* The loop over the events of a frame.                                    *)
(***************************************************************************)
BinSets == [0 .. NHists - 1 -> [Bins -> Nat]]

LoopStates == [pts : Seq(Points), bins : BinSets, left : BOOLEAN,
               abort : BOOLEAN, window : Seq(Events), wref : Channels]

\* A frame is left before the first reference event, or for an assertion
Ends(left, abort, pts) ==
  /\ abort => left /\ ~Saveable(pts)
  /\ left /\ ~abort => pts = <<>>

LoopInv(s, ref) ==
  /\ s \in LoopStates
  /\ Rooms(s.pts)
  /\ Measured(s.pts, s.window, ref)
  /\ Ends(s.left, s.abort, s.pts)

LEMMA SavedType ==
  ASSUME NEW b \in BinSets, NEW pts \in Seq(Points)
  PROVE  Saved(b, pts) \in BinSets
  <1>1. ASSUME NEW h, NEW n
        PROVE  Cardinality({p \in 1 .. Len(pts) - 1 : pts[p].hid = h /\ Bin(pts[p]) = n}) \in Nat
    <2> DEFINE T == {p \in 1 .. Len(pts) - 1 : pts[p].hid = h /\ Bin(pts[p]) = n}
    <2>1. 1 \in Int /\ Len(pts) - 1 \in Int
      BY ElementsOf
    <2>2. IsFiniteSet(1 .. Len(pts) - 1)
      BY <2>1, FS_Interval
    <2>3. T \subseteq 1 .. Len(pts) - 1
      OBVIOUS
    <2> HIDE DEF T
    <2>4. Cardinality(T) \in Nat
      BY <2>2, <2>3, FS_Subset, FS_CardinalityType
    <2> QED BY <2>4 DEF T
  <1> DEFINE C(h, n) == Cardinality({p \in 1 .. Len(pts) - 1 : pts[p].hid = h /\ Bin(pts[p]) = n})
  <1>2. \A h, n : C(h, n) \in Nat
    BY <1>1
  <1>3. Saved(b, pts) = [h \in DOMAIN b |-> [n \in Bins |-> b[h][n] + C(h, n)]]
    BY DEF Saved
  <1> HIDE DEF C
  <1>4. \A h \in 0 .. NHists - 1, n \in Bins : b[h][n] + C(h, n) \in Nat
    BY <1>2 DEF BinSets
  <1> QED BY <1>3, <1>4 DEF BinSets

LEMMA LoopFields ==
  ASSUME NEW s \in LoopStates
  PROVE  /\ s.pts \in Seq(Points) /\ s.bins \in BinSets /\ s.left \in BOOLEAN
         /\ s.abort \in BOOLEAN
         /\ s.window \in Seq(Events) /\ s.wref \in Channels
  BY DEF LoopStates

\* What the passes make of the points, the window and its channel, and
\* whether the frame is left and how
LoopHas(z, q, w, c) ==
  z \in LoopStates /\ z.pts = q /\ z.window = w /\ z.wref = c

Goes(z, left, abort) == z.left = left /\ z.abort = abort

LEMMA LeftFields ==
  ASSUME NEW s \in LoopStates
  PROVE  /\ LoopHas([s EXCEPT !.left = TRUE], s.pts, s.window, s.wref)
         /\ Goes([s EXCEPT !.left = TRUE], TRUE, s.abort)
  BY DEF LoopStates, LoopHas, Goes

LEMMA AbortFields ==
  ASSUME NEW s \in LoopStates
  PROVE  /\ LoopHas([s EXCEPT !.left = TRUE, !.abort = TRUE], s.pts, s.window, s.wref)
         /\ Goes([s EXCEPT !.left = TRUE, !.abort = TRUE], TRUE, TRUE)
  <1> DEFINE y == [s EXCEPT !.left = TRUE]
             z == [s EXCEPT !.left = TRUE, !.abort = TRUE]
  <1>1. LoopHas(y, s.pts, s.window, s.wref) /\ Goes(y, TRUE, s.abort)
    BY LeftFields
  <1>2. z = [y EXCEPT !.abort = TRUE]
    BY DEF LoopStates
  <1> HIDE DEF y, z
  <1>3. LoopHas(z, s.pts, s.window, s.wref) /\ Goes(z, TRUE, TRUE)
    BY <1>1, <1>2 DEF LoopStates, LoopHas, Goes
  <1> QED BY <1>3 DEF z

LEMMA AddFields ==
  ASSUME NEW s \in LoopStates, NEW q \in Seq(Points), NEW w \in Seq(Events)
  PROVE  /\ LoopHas([s EXCEPT !.pts = q, !.window = w], q, w, s.wref)
         /\ Goes([s EXCEPT !.pts = q, !.window = w], s.left, s.abort)
  <1> DEFINE y == [s EXCEPT !.pts = q]
             z == [s EXCEPT !.pts = q, !.window = w]
  <1>1. /\ y \in LoopStates /\ y.pts = q /\ y.wref = s.wref
        /\ y.left = s.left /\ y.abort = s.abort
    BY DEF LoopStates
  <1>2. z = [y EXCEPT !.window = w]
    BY DEF LoopStates
  <1> HIDE DEF y, z
  <1>3. z \in LoopStates /\ z.pts = q /\ z.window = w /\ z.wref = s.wref
    BY <1>1, <1>2 DEF LoopStates
  <1>4. z.left = s.left /\ z.abort = s.abort
    BY <1>1, <1>2 DEF LoopStates
  <1>5. LoopHas(z, q, w, s.wref) /\ Goes(z, s.left, s.abort)
    BY <1>3, <1>4 DEF LoopHas, Goes
  <1> QED BY <1>5 DEF z

LEMMA RefFields ==
  ASSUME NEW s \in LoopStates, NEW b \in BinSets, NEW q \in Seq(Points),
         NEW w \in Seq(Events), NEW c \in Channels
  PROVE  /\ LoopHas([s EXCEPT !.bins = b, !.pts = q, !.window = w, !.wref = c], q, w, c)
         /\ Goes([s EXCEPT !.bins = b, !.pts = q, !.window = w, !.wref = c], s.left, s.abort)
  <1> DEFINE y == [s EXCEPT !.bins = b]
             x == [y EXCEPT !.pts = q, !.window = w]
             z == [s EXCEPT !.bins = b, !.pts = q, !.window = w, !.wref = c]
  <1>1. y \in LoopStates /\ y.left = s.left /\ y.abort = s.abort
    BY DEF LoopStates
  <1>2. z = [x EXCEPT !.wref = c]
    BY DEF LoopStates
  <1>3. LoopHas(x, q, w, y.wref) /\ Goes(x, y.left, y.abort)
    <2> HIDE DEF y
    <2> QED BY <1>1, AddFields
  <1> HIDE DEF x, y, z
  <1>4. z \in LoopStates /\ z.pts = q /\ z.window = w /\ z.wref = c
    BY <1>2, <1>3 DEF LoopStates, LoopHas
  <1>5. z.left = s.left /\ z.abort = s.abort
    BY <1>1, <1>2, <1>3 DEF LoopStates, LoopHas, Goes
  <1>6. LoopHas(z, q, w, c) /\ Goes(z, s.left, s.abort)
    BY <1>4, <1>5 DEF LoopHas, Goes
  <1> QED BY <1>6 DEF z

\* Nothing is measured yet at a reference event
LEMMA GhostMeasured ==
  ASSUME NEW ref
  PROVE  /\ <<Ghost>> \in Seq(Points) /\ <<>> \in Seq(Events) /\ <<Ghost>> # <<>>
         /\ Rooms(<<Ghost>>) /\ Measured(<<Ghost>>, <<>>, ref)
  <1>1. Ghost \in Points /\ Ghost.since = 0 /\ Ghost.until = 0 /\ Ghost.hid = -1
    BY JitterAssumption DEF Ghost, Points
  <1> HIDE DEF Ghost
  <1>2. /\ <<Ghost>> \in Seq(Points) /\ <<>> \in Seq(Events) /\ <<Ghost>> # <<>>
        /\ Len(<<Ghost>>) = 1 /\ <<Ghost>>[1] = Ghost /\ Len(<<>>) = 0
    BY <1>1
  <1> DEFINE g == <<Ghost>>
             w == <<>>
  <1>3. Elapsed(w, 0) = 0 /\ Sat(0) = 0
    BY ElapsedStep, JitterAssumption DEF Sat
  <1> HIDE DEF g, w
  <1>4. g # <<>> /\ Len(g) = 1 /\ g[1] = Ghost /\ Len(w) = 0
    BY <1>2 DEF g, w
  <1>5. Rooms(g)
    BY <1>1, <1>4, JitterAssumption DEF Rooms
  <1>6. \E m \in [1 .. Len(g) - 1 -> 1 .. Len(w)] :
          /\ Numbering(m, w, Len(g) - 1)
          /\ \A p \in 1 .. Len(g) - 1 : PointOf(g[p], w, m[p], ref)
    <2> DEFINE m == [p \in 1 .. Len(g) - 1 |-> p]
    <2>1. 1 .. Len(g) - 1 = {} /\ 1 .. Len(w) = {}
      BY <1>4
    <2>2. m \in [1 .. Len(g) - 1 -> 1 .. Len(w)]
      BY <2>1
    <2> HIDE DEF m
    <2>3. Numbering(m, w, Len(g) - 1)
      BY <2>1, <2>2 DEF Numbering
    <2> QED BY <2>1, <2>2, <2>3
  <1>7. Measured(g, w, ref)
    BY <1>1, <1>3, <1>4, <1>6 DEF Measured
  <1> QED BY <1>2, <1>5, <1>7 DEF g, w

\* The events that a frame has
FrameOf(e, tick) ==
  e \in Events /\ (tick => e.ch \notin EventChs) /\ (~tick => e.ch \in EventChs)

LEMMA EventStep ==
  ASSUME NEW s, NEW e, NEW tick \in BOOLEAN, FrameOf(e, tick),
         refch \in Channels, cur_conf.ref_ch = refch, LoopInv(s, refch)
  PROVE  /\ LoopInv(Event(s, e, tick), refch)
         /\ ~Event(s, e, tick).left => Event(s, e, tick).pts # <<>>
  <1> DEFINE ref == e.ch = cur_conf.ref_ch /\ ~tick
             r == Delayed(s.pts, e.d, ref)
             q == IF tick THEN r ELSE WithPoint(r, Hid(cur_conf.ref_ch, e.ch))
             z == Event(s, e, tick)
  <1>0. /\ s \in LoopStates /\ s.pts \in Seq(Points) /\ s.bins \in BinSets
        /\ s.window \in Seq(Events) /\ s.wref \in Channels /\ e \in Events /\ e.d \in Nat
    BY LoopFields DEF LoopInv, FrameOf, Events
  <1>1. CASE s.left \/ Waits(s.pts, ref)
    <2>1. z = [s EXCEPT !.left = TRUE]
      BY <1>1 DEF Event
    <2> HIDE DEF z
    <2>2. LoopHas(z, s.pts, s.window, s.wref) /\ Goes(z, TRUE, s.abort)
      BY <1>0, <2>1, LeftFields
    <2>3. Ends(TRUE, s.abort, s.pts)
      BY <1>1 DEF LoopInv, Ends, Waits
    <2>4. LoopInv(z, refch) /\ z.left
      BY <2>2, <2>3 DEF LoopInv, LoopHas, Goes
    <2> QED BY <2>4 DEF z
  <1>2. CASE ~(s.left \/ Waits(s.pts, ref)) /\ ref /\ ~Saveable(s.pts)
    <2>1. z = [s EXCEPT !.left = TRUE, !.abort = TRUE]
      BY <1>2 DEF Event
    <2> HIDE DEF z
    <2>2. LoopHas(z, s.pts, s.window, s.wref) /\ Goes(z, TRUE, TRUE)
      BY <1>0, <2>1, AbortFields
    <2>3. Ends(TRUE, TRUE, s.pts)
      BY <1>2 DEF Ends
    <2>4. LoopInv(z, refch) /\ z.left
      BY <2>2, <2>3 DEF LoopInv, LoopHas, Goes
    <2> QED BY <2>4 DEF z
  <1>3. CASE ~(s.left \/ Waits(s.pts, ref)) /\ ref /\ Saveable(s.pts)
    <2> DEFINE b == Saved(s.bins, r)
               w == <<>>
               g == <<Ghost>>
    <2>1. z = [s EXCEPT !.bins = b, !.pts = g, !.window = w, !.wref = e.ch]
      BY <1>3 DEF Event
    <2>2. b \in BinSets
      <3>1. ref \in BOOLEAN
        OBVIOUS
      <3>2. IsDelayed(r, s.pts, e.d, ref)
        <4> HIDE DEF ref
        <4> QED BY <1>0, <3>1, DelayedFields
      <3>3. r \in Seq(Points)
        BY <3>2 DEF IsDelayed
      <3> HIDE DEF r
      <3> QED BY <1>0, <3>3, SavedType
    <2>3. g \in Seq(Points) /\ w \in Seq(Events) /\ g # <<>> /\ Rooms(g) /\ Measured(g, w, refch)
      BY GhostMeasured
    <2>4. e.ch = refch /\ e.ch \in Channels
      BY <1>3
    <2> HIDE DEF b, w, g, z
    <2>5. LoopHas(z, g, w, e.ch) /\ Goes(z, s.left, s.abort)
      BY <1>0, <2>1, <2>2, <2>3, <2>4, RefFields
    <2>6. Ends(s.left, s.abort, g)
      BY <1>3 DEF LoopInv, Ends
    <2>7. LoopInv(z, refch) /\ z.pts # <<>>
      BY <2>3, <2>5, <2>6 DEF LoopInv, LoopHas, Goes
    <2> QED BY <2>7 DEF z
  <1>4. CASE ~(s.left \/ Waits(s.pts, ref)) /\ ~ref
    <2> DEFINE w == Append(s.window, e)
    <2>0. s.pts # <<>> /\ r = Delayed(s.pts, e.d, FALSE)
      BY <1>4 DEF Waits
    <2>1. z = [s EXCEPT !.pts = q, !.window = w]
      BY <1>4 DEF Event
    <2>2. q \in Seq(Points) /\ q # <<>> /\ Rooms(q) /\ Measured(q, w, refch)
      <3>1. CASE tick
        <4>1. e.ch \notin EventChs /\ q = Delayed(s.pts, e.d, FALSE)
          BY <2>0, <3>1 DEF FrameOf
        <4> HIDE DEF q
        <4> QED BY <1>0, <2>0, <4>1, MeasuredTick DEF LoopInv
      <3>2. CASE ~tick
        <4>1. /\ e.ch \in EventChs /\ e.ch # refch
              /\ q = WithPoint(Delayed(s.pts, e.d, FALSE), Hid(refch, e.ch))
          BY <1>4, <2>0, <3>2 DEF FrameOf
        <4> HIDE DEF q
        <4> QED BY <1>0, <2>0, <4>1, MeasuredEvent DEF LoopInv
      <3> QED BY <3>1, <3>2
    <2>3. w \in Seq(Events)
      BY <1>0
    <2> HIDE DEF w, q, z
    <2>4. LoopHas(z, q, w, s.wref) /\ Goes(z, s.left, s.abort)
      BY <1>0, <2>1, <2>2, <2>3, AddFields
    <2>5. Ends(s.left, s.abort, q)
      BY <1>4 DEF LoopInv, Ends
    <2>6. LoopInv(z, refch) /\ z.pts # <<>>
      BY <2>2, <2>4, <2>5 DEF LoopInv, LoopHas, Goes
    <2> QED BY <2>6 DEF z
  <1> QED BY <1>1, <1>2, <1>3, <1>4

-----------------------------------------------------------------------------
(***************************************************************************)
(* The recursive function that Loop is defined with exists, and keeps      *)
(* LoopInv.                                                                *)
(***************************************************************************)
Entry == [pts |-> points, bins |-> bins, left |-> FALSE, abort |-> FALSE,
          window |-> window, wref |-> wref]

Passes(f, evs, tick, n) ==
  f = [k \in 0 .. n |-> IF k = 0 THEN Entry ELSE Event(f[k - 1], evs[k], tick)]

LEMMA PassesExist ==
  ASSUME NEW evs, NEW tick, NEW n \in Nat
  PROVE  \E f : Passes(f, evs, tick, n)
  <1> DEFINE S == {m \in Nat : \E f : Passes(f, evs, tick, m)}
  <1>1. 0 \in S
    <2>1. Passes([k \in 0 .. 0 |-> Entry], evs, tick, 0)
      BY DEF Passes
    <2> QED BY <2>1
  <1>2. ASSUME NEW m \in Nat, m \in S PROVE m + 1 \in S
    <2>1. PICK f : Passes(f, evs, tick, m)
      BY <1>2
    <2> DEFINE u == [k \in 0 .. m + 1 |->
                       IF k = m + 1 THEN Event(f[m], evs[m + 1], tick) ELSE f[k]]
    <2>2. \A k \in 0 .. m + 1 : u[k] = IF k = 0 THEN Entry ELSE Event(u[k - 1], evs[k], tick)
      <3> SUFFICES ASSUME NEW k \in 0 .. m + 1
                   PROVE  u[k] = IF k = 0 THEN Entry ELSE Event(u[k - 1], evs[k], tick)
        OBVIOUS
      <3>1. CASE k = m + 1
        <4>1. k # 0 /\ k - 1 = m /\ m \in 0 .. m + 1 /\ m # m + 1
          BY <3>1
        <4>2. u[m] = f[m] /\ u[k] = Event(f[m], evs[k], tick)
          BY <3>1, <4>1
        <4> HIDE DEF u
        <4> QED BY <4>1, <4>2
      <3>2. CASE k # m + 1
        <4>1. k \in 0 .. m /\ (k # 0 => k - 1 \in 0 .. m)
          BY <3>2
        <4>2. f[k] = IF k = 0 THEN Entry ELSE Event(f[k - 1], evs[k], tick)
          BY <2>1, <4>1 DEF Passes
        <4>3. u[k] = f[k] /\ (k # 0 => u[k - 1] = f[k - 1])
          BY <3>2, <4>1
        <4> HIDE DEF u
        <4> QED BY <4>2, <4>3
      <3> QED BY <3>1, <3>2
    <2>3. u = [k \in 0 .. m + 1 |-> u[k]]
      OBVIOUS
    <2> HIDE DEF u
    <2>4. Passes(u, evs, tick, m + 1)
      BY <2>2, <2>3 DEF Passes
    <2> QED BY <2>4
  <1> HIDE DEF S
  <1>3. n \in S
    BY <1>1, <1>2, SetInduction
  <1> QED BY <1>3 DEF S

LEMMA LoopSteps ==
  ASSUME NEW evs, Len(evs) \in Nat, Len(evs) >= 1, NEW tick \in BOOLEAN,
         \A k \in 1 .. Len(evs) : FrameOf(evs[k], tick),
         refch \in Channels, cur_conf.ref_ch = refch, LoopInv(Entry, refch)
  PROVE  /\ LoopInv(Loop(evs, tick), refch)
         /\ ~Loop(evs, tick).left => Loop(evs, tick).pts # <<>>
  <1> DEFINE n == Len(evs)
             f == CHOOSE f : Passes(f, evs, tick, n)
  <1>1. Passes(f, evs, tick, n)
    BY PassesExist
  <1>2. Loop(evs, tick) = f[n]
    BY DEF Loop, Passes, Entry
  <1> HIDE DEF f
  <1> DEFINE S == {k \in Nat : k <= n =>
                     LoopInv(f[k], refch) /\ (k # 0 /\ ~f[k].left => f[k].pts # <<>>)}
  <1>3. 0 \in S
    <2>1. 0 \in 0 .. n
      OBVIOUS
    <2>2. f[0] = Entry
      BY <1>1, <2>1 DEF Passes
    <2> QED BY <2>2
  <1>4. ASSUME NEW k \in Nat, k \in S PROVE k + 1 \in S
    <2> SUFFICES ASSUME k + 1 <= n
                 PROVE  LoopInv(f[k + 1], refch) /\ (~f[k + 1].left => f[k + 1].pts # <<>>)
      OBVIOUS
    <2>1. k + 1 \in 0 .. n /\ k + 1 # 0 /\ (k + 1) - 1 = k /\ k + 1 \in 1 .. n /\ k <= n
      OBVIOUS
    <2>2. f[k + 1] = Event(f[k], evs[k + 1], tick)
      BY <1>1, <2>1 DEF Passes
    <2>3. LoopInv(f[k], refch) /\ FrameOf(evs[k + 1], tick)
      BY <1>4, <2>1
    <2> HIDE DEF n
    <2> QED BY <2>2, <2>3, EventStep
  <1> HIDE DEF S
  <1>5. n \in S
    BY <1>3, <1>4, SetInduction
  <1>6. LoopInv(f[n], refch) /\ (~f[n].left => f[n].pts # <<>>)
    BY <1>5 DEF S
  <1> HIDE DEF n
  <1> QED BY <1>2, <1>6

-----------------------------------------------------------------------------
(***************************************************************************)
(* The steps of the task.                                                  *)
(***************************************************************************)

\* What a publication leaves of points and events
IsCarried(g, c, ref) ==
  /\ g \in Seq(Points) /\ c \in Seq(Events)
  /\ Rooms(g) /\ Measured(g, c, ref)

LEMMA CarriedGhost ==
  ASSUME NEW pts \in Seq(Points), pts # <<>>, Rooms(pts), NEW w \in Seq(Events),
         NEW old, Measured(pts, w, old), NEW ref
  PROVE  IsCarried(<<pts[Len(pts)]>>, <<[ch |-> Carried, d |-> Sat(Elapsed(w, Len(w)))]>>, ref)
  <1> DEFINE t == pts[Len(pts)]
             d == Sat(Elapsed(w, Len(w)))
             e == [ch |-> Carried, d |-> d]
             g == <<t>>
             c == <<e>>
  <1>1. t \in Points /\ t.since = d /\ t.until = 0 /\ t.hid = -1
    <2>1. Len(pts) \in 1 .. Len(pts) /\ \A k \in 1 .. Len(pts) : pts[k] \in Points
      BY ElementsOf
    <2> QED BY <2>1 DEF Measured, Rooms
  <1>2. d \in Nat /\ Sat(d) = d
    <2>1. Len(w) \in 0 .. Len(w)
      BY ElementsOf
    <2>2. Elapsed(w, Len(w)) \in Nat
      BY <2>1, ElapsedType
    <2> QED BY <2>2, SatFields
  <1> HIDE DEF t, d
  <1>3. e \in Events /\ e.ch = Carried /\ e.d = d
    BY <1>2 DEF Events
  <1>4. e.ch \notin EventChs
    BY <1>3, JitterAssumption DEF Carried, EventChs
  <1> HIDE DEF e
  <1>5. /\ g \in Seq(Points) /\ g # <<>> /\ Len(g) = 1 /\ g[1] = t
        /\ c \in Seq(Events) /\ c # <<>> /\ Len(c) = 1 /\ c[1] = e
    BY <1>1, <1>3
  <1> HIDE DEF g, c
  <1>6. Elapsed(c, Len(c)) = d
    <2>1. Elapsed(c, 0) = 0 /\ Elapsed(c, 0 + 1) = Elapsed(c, 0) + c[0 + 1].d
      BY ElapsedStep
    <2>2. 0 + 1 = 1
      OBVIOUS
    <2> QED BY <1>2, <1>3, <1>5, <2>1, <2>2
  <1>7. Rooms(g)
    BY <1>1, <1>5, JitterAssumption DEF Rooms
  <1>8. \E m \in [1 .. Len(g) - 1 -> 1 .. Len(c)] :
          /\ Numbering(m, c, Len(g) - 1)
          /\ \A p \in 1 .. Len(g) - 1 : PointOf(g[p], c, m[p], ref)
    <2> DEFINE m == [p \in 1 .. Len(g) - 1 |-> p]
    <2>1. 1 .. Len(g) - 1 = {} /\ \A i \in 1 .. Len(c) : c[i].ch \notin EventChs
      BY <1>4, <1>5
    <2>2. m \in [1 .. Len(g) - 1 -> 1 .. Len(c)]
      BY <2>1
    <2> HIDE DEF m
    <2>3. Numbering(m, c, Len(g) - 1)
      BY <2>1, <2>2 DEF Numbering
    <2> QED BY <2>1, <2>2, <2>3
  <1>9. Measured(g, c, ref)
    BY <1>1, <1>2, <1>5, <1>6, <1>8 DEF Measured
  <1>10. IsCarried(g, c, ref)
    BY <1>3, <1>5, <1>7, <1>9 DEF IsCarried
  <1> QED BY <1>10 DEF g, c, t, d, e

LEMMA JitterInvInit == JitterInit => JitterInv
  <1> SUFFICES ASSUME JitterInit PROVE JitterInv
    OBVIOUS
  <1>1. Empty \in [0 .. NHists - 1 -> [Bins -> Nat]]
    BY DEF Empty
  <1>2. points = <<>> /\ window = <<>>
    BY DEF JitterInit
  <1>3. Measured(points, window, refch)
    BY <1>2 DEF Measured
  <1>4. JitterAsserts
    <2>1. Len(points) = 0 /\ jactive = FALSE /\ jabort = FALSE
      BY <1>2 DEF JitterInit
    <2> QED BY <1>2, <2>1, JitterAssumption DEF JitterAsserts
  <1>5. JitterTypeOK
    <2>1. /\ jactive \in BOOLEAN /\ jdead \in BOOLEAN /\ publishing \in BOOLEAN
          /\ npub \in BOOLEAN /\ jabort \in BOOLEAN
      BY DEF JitterInit
    <2>2. 0 \in Channels /\ cur_conf \in [ticks : Nat, ref_ch : Channels]
      BY JitterAssumption DEF JitterInit, Channels
    <2>3. points \in Seq(Points) /\ window \in Seq(Events)
      BY <1>2
    <2>4. conf \in ConfType /\ jticks \in Nat /\ refch \in Channels /\ wref \in Channels
      BY <2>2, JitterAssumption DEF JitterInit
    <2>5. bins \in [0 .. NHists - 1 -> [Bins -> Nat]]
      BY <1>1 DEF JitterInit
    <2> QED BY <2>1, <2>2, <2>3, <2>4, <2>5 DEF JitterTypeOK
  <1> QED BY <1>3, <1>4, <1>5 DEF JitterInv

\* A frame
LEMMA PktKeepsInv ==
  ASSUME JitterInv, Counting, NEW evs, Len(evs) \in Nat, Len(evs) >= 1,
         NEW tick \in BOOLEAN, \A k \in 1 .. Len(evs) : FrameOf(evs[k], tick),
         JitterPkt(evs, tick)
  PROVE  JitterInv'
  <1> DEFINE s == Loop(evs, tick)
             n == IF tick THEN jticks + 1 ELSE jticks
  <1>0. /\ jactive = TRUE /\ jdead = FALSE /\ npub \in BOOLEAN /\ conf \in ConfType
        /\ cur_conf \in [ticks : Nat, ref_ch : Channels] /\ jticks \in Nat
        /\ points \in Seq(Points) /\ bins \in BinSets /\ refch \in Channels
        /\ wref \in Channels /\ window \in Seq(Events)
    BY DEF JitterInv, JitterTypeOK, Counting, BinSets
  <1>1. cur_conf.ticks > 0 /\ cur_conf.ref_ch = refch /\ cur_conf.ticks \in Nat
    BY <1>0 DEF JitterInv, JitterAsserts, Counting
  <1>a. jabort = FALSE
    <2>1. jabort \in BOOLEAN /\ ~jabort
      BY <1>0 DEF JitterInv, JitterTypeOK, JitterAsserts
    <2> QED BY <2>1
  <1>2. LoopInv(Entry, refch)
    <2>1. Entry \in LoopStates /\ Entry.pts = points /\ Entry.window = window
      BY <1>0 DEF Entry, LoopStates
    <2>2. Entry.left = FALSE /\ Entry.abort = FALSE
      BY DEF Entry
    <2> HIDE DEF Entry
    <2>3. Rooms(points)
      <3>1. /\ Len(points) < MaxPoints
            /\ points # <<>> => points[Len(points)].hid = -1
            /\ \A p \in 1 .. Len(points) - 1 : points[p].hid # -1
        BY DEF JitterInv, JitterAsserts
      <3>2. Len(points) \in Nat /\ \A p \in 1 .. Len(points) : points[p] \in Points
        BY <1>0, ElementsOf
      <3>3. ASSUME NEW p \in 1 .. Len(points) - 1 PROVE points[p].hid \in 0 .. MaxCh - 1
        <4>1. points[p] \in Points /\ points[p].hid # -1
          BY <3>1, <3>2
        <4>2. points[p].hid \in -1 .. MaxCh - 1
          BY <4>1 DEF Points
        <4> QED BY <4>1, <4>2, JitterAssumption
      <3> QED BY <3>1, <3>3 DEF Rooms
    <2>4. Measured(points, window, refch)
      BY DEF JitterInv
    <2>5. Ends(FALSE, FALSE, points)
      BY DEF Ends
    <2> QED BY <2>1, <2>2, <2>3, <2>4, <2>5 DEF LoopInv
  <1>3. LoopInv(s, refch) /\ (~s.left => s.pts # <<>>)
    BY <1>0, <1>1, <1>2, LoopSteps
  <1>4. n \in Nat
    BY <1>0
  <1>5. publishing' = TRUE /\ wref' = s.wref /\ jactive' = jactive /\ conf' = conf
    BY DEF JitterPkt
  <1>6. \/ /\ jticks' = n /\ points' = s.pts /\ bins' = s.bins /\ window' = s.window
           /\ cur_conf' = cur_conf /\ refch' = refch /\ npub' = npub
           /\ \/ /\ jabort' = TRUE /\ jdead' = TRUE
                 /\ s.abort \/ (n > cur_conf.ticks /\ n # cur_conf.ticks + 1)
              \/ /\ jabort' = jabort /\ jdead' = jdead
                 /\ ~s.abort /\ (s.left \/ ~(n > cur_conf.ticks))
              \/ jabort' = jabort /\ jdead' = TRUE
        \/ /\ ~s.left /\ jticks' = 1 /\ points' = <<s.pts[Len(s.pts)]>>
           /\ window' = <<[ch |-> Carried, d |-> Sat(Elapsed(s.window, Len(s.window)))]>>
           /\ npub' = ~npub /\ jdead' = jdead /\ jabort' = jabort
           /\ cur_conf' = conf /\ bins' = Empty /\ refch' = conf.ref_ch
    <2> DEFINE late == ~Due(n) /\ n > cur_conf.ticks
               same == /\ jticks' = n /\ points' = s.pts /\ bins' = s.bins
                       /\ window' = s.window /\ cur_conf' = cur_conf
                       /\ refch' = refch /\ npub' = npub
    <2>1. \/ same /\ jabort' = TRUE /\ jdead' = TRUE /\ (s.abort \/ (~s.left /\ late))
          \/ /\ same /\ jabort' = jabort /\ jdead' = jdead
             /\ ~s.abort /\ (s.left \/ ~(Due(n) \/ late))
          \/ /\ ~s.left /\ jticks' = 1 /\ points' = <<s.pts[Len(s.pts)]>>
             /\ window' = <<[ch |-> Carried, d |-> Sat(Elapsed(s.window, Len(s.window)))]>>
             /\ npub' = ~npub /\ jdead' = jdead /\ jabort' = jabort
             /\ cur_conf' = conf /\ bins' = Empty /\ refch' = conf.ref_ch
          \/ same /\ jabort' = jabort /\ jdead' = TRUE
      BY DEF JitterPkt, PrepNext
    <2> HIDE DEF s, n
    <2> QED BY <2>1 DEF Due
  <1> HIDE DEF s, n
  <1>7. /\ s.pts \in Seq(Points) /\ s.bins \in BinSets /\ s.window \in Seq(Events)
        /\ s.wref \in Channels
        /\ Rooms(s.pts) /\ Ends(s.left, s.abort, s.pts)
        /\ Measured(s.pts, s.window, refch)
    BY <1>3, LoopFields DEF LoopInv
  <1>8. CASE /\ jticks' = n /\ points' = s.pts /\ bins' = s.bins /\ window' = s.window
             /\ cur_conf' = cur_conf /\ refch' = refch /\ npub' = npub
             /\ \/ /\ jabort' = TRUE /\ jdead' = TRUE
                   /\ s.abort \/ (n > cur_conf.ticks /\ n # cur_conf.ticks + 1)
                \/ /\ jabort' = jabort /\ jdead' = jdead
                   /\ ~s.abort /\ (s.left \/ ~(n > cur_conf.ticks))
                \/ jabort' = jabort /\ jdead' = TRUE
    <2>1. Measured(points', window', refch')
      BY <1>7, <1>8
    <2>2. /\ Len(points') < MaxPoints
          /\ points' # <<>> => points'[Len(points')].hid = -1
          /\ \A p \in 1 .. Len(points') - 1 : points'[p].hid # -1
      BY <1>7, <1>8 DEF Rooms
    <2>3. Counting' /\ points' # <<>> => jticks' <= cur_conf'.ticks
      <3> SUFFICES ASSUME Counting', points' # <<>> PROVE n <= cur_conf.ticks
        BY <1>8
      <3>1. ~s.abort /\ (s.left \/ ~(n > cur_conf.ticks))
        BY <1>8 DEF Counting
      <3>2. ~(n > cur_conf.ticks)
        BY <1>7, <1>8, <3>1 DEF Ends
      <3> QED BY <1>1, <1>4, <3>2
    <2>4. jabort' => jdead' /\ (~Saveable(points') \/ jticks' > cur_conf'.ticks + 1)
      <3> SUFFICES ASSUME jabort'
                   PROVE  jdead' /\ (~Saveable(s.pts) \/ n > cur_conf.ticks + 1)
        BY <1>8
      <3>1. jdead' /\ (s.abort \/ (n > cur_conf.ticks /\ n # cur_conf.ticks + 1))
        BY <1>a, <1>8
      <3>2. CASE s.abort
        BY <1>7, <3>1, <3>2 DEF Ends
      <3>3. CASE n > cur_conf.ticks /\ n # cur_conf.ticks + 1
        BY <1>1, <1>4, <3>1, <3>3
      <3> QED BY <3>1, <3>2, <3>3
    <2>5. jactive' => cur_conf'.ticks > 0 /\ refch' = cur_conf'.ref_ch
      BY <1>1, <1>8
    <2>6. JitterAsserts'
      BY <2>2, <2>3, <2>4, <2>5 DEF JitterAsserts, Saveable
    <2>7. JitterTypeOK'
      <3>1. /\ jdead' \in BOOLEAN /\ publishing' \in BOOLEAN /\ jactive' \in BOOLEAN
            /\ jabort' \in BOOLEAN
        BY <1>0, <1>a, <1>5, <1>8
      <3> QED BY <1>0, <1>4, <1>5, <1>7, <1>8, <3>1 DEF JitterTypeOK, BinSets
    <2> QED BY <2>1, <2>6, <2>7 DEF JitterInv
  <1>9. CASE /\ ~s.left /\ jticks' = 1 /\ points' = <<s.pts[Len(s.pts)]>>
             /\ window' = <<[ch |-> Carried, d |-> Sat(Elapsed(s.window, Len(s.window)))]>>
             /\ npub' = ~npub /\ jdead' = jdead /\ jabort' = jabort
             /\ cur_conf' = conf /\ bins' = Empty /\ refch' = conf.ref_ch
    <2>1. IsCarried(points', window', refch')
      BY <1>3, <1>7, <1>9, CarriedGhost
    <2>2. /\ points' \in Seq(Points) /\ window' \in Seq(Events) /\ Rooms(points')
          /\ Measured(points', window', refch')
      BY <2>1 DEF IsCarried
    <2>3. conf.ticks \in Nat \ {0} /\ conf.ref_ch \in Channels
          /\ conf \in [ticks : Nat, ref_ch : Channels]
      BY <1>0 DEF ConfType
    <2>4. jabort' = FALSE /\ jticks' <= cur_conf'.ticks
      BY <1>a, <1>9, <2>3
    <2>5. /\ Len(points') < MaxPoints
          /\ points' # <<>> => points'[Len(points')].hid = -1
          /\ \A p \in 1 .. Len(points') - 1 : points'[p].hid # -1
      BY <2>2 DEF Rooms
    <2>6. JitterAsserts'
      BY <1>9, <2>3, <2>4, <2>5 DEF JitterAsserts
    <2>7. JitterTypeOK'
      <3>1. /\ jdead' \in BOOLEAN /\ publishing' \in BOOLEAN /\ jactive' \in BOOLEAN
            /\ npub' \in BOOLEAN /\ jabort' \in BOOLEAN
        BY <1>0, <1>5, <1>9, <2>4
      <3>2. Empty \in [0 .. NHists - 1 -> [Bins -> Nat]]
        BY DEF Empty
      <3>3. /\ conf' \in ConfType /\ cur_conf' \in [ticks : Nat, ref_ch : Channels]
            /\ jticks' \in Nat /\ bins' \in [0 .. NHists - 1 -> [Bins -> Nat]]
            /\ refch' \in Channels /\ wref' \in Channels
        BY <1>0, <1>5, <1>7, <1>9, <2>3, <3>2
      <3> QED BY <2>2, <3>1, <3>3 DEF JitterTypeOK
    <2> QED BY <2>2, <2>6, <2>7 DEF JitterInv
  <1> QED BY <1>6, <1>8, <1>9

LEMMA JitterInvNext == JitterInv /\ [JitterNext]_jvars => JitterInv'
  <1> SUFFICES ASSUME JitterInv, [JitterNext]_jvars PROVE JitterInv'
    OBVIOUS
  <1>1. CASE JitterTick
    <2>1. PICK d \in Delays : JitterPkt(<<[ch |-> Tick, d |-> d]>>, TRUE)
      BY <1>1 DEF JitterTick
    <2> DEFINE e == [ch |-> Tick, d |-> d]
               evs == <<e>>
               t == TRUE
    <2>2. d \in Nat
      BY JitterAssumption
    <2>3. e \in Events /\ e.ch = Tick
      BY <2>2 DEF Events
    <2>4. Tick \notin EventChs
      BY JitterAssumption DEF Tick, EventChs
    <2>5. JitterPkt(evs, t) /\ t \in BOOLEAN /\ t /\ Counting
      BY <1>1, <2>1 DEF JitterTick
    <2> HIDE DEF e, t
    <2>6. Len(evs) = 1 /\ evs[1] = e
      OBVIOUS
    <2> HIDE DEF evs
    <2>7. FrameOf(e, t)
      BY <2>3, <2>4, <2>5 DEF FrameOf
    <2>8. Len(evs) \in Nat /\ Len(evs) >= 1 /\ \A k \in 1 .. Len(evs) : FrameOf(evs[k], t)
      BY <2>6, <2>7
    <2> QED BY <2>5, <2>8, PktKeepsInv
  <1>2. CASE JitterEvents
    <2>0. PICK n \in FrameLens :
            \E evs \in [1 .. n -> [ch : EventChs, d : Delays]] : JitterPkt(evs, FALSE)
      BY <1>2 DEF JitterEvents
    <2>1. PICK evs \in [1 .. n -> [ch : EventChs, d : Delays]] : JitterPkt(evs, FALSE)
      BY <2>0
    <2> DEFINE t == FALSE
    <2>2. n \in Nat /\ n >= 1
      BY JitterAssumption
    <2>3. Len(evs) = n
      BY <2>1, <2>2, FunctionSeq
    <2>4. JitterPkt(evs, t) /\ t \in BOOLEAN /\ ~t /\ Counting
      BY <1>2, <2>1 DEF JitterEvents
    <2> HIDE DEF t
    <2>5. ASSUME NEW k \in 1 .. Len(evs) PROVE FrameOf(evs[k], t)
      <3>1. evs[k] \in [ch : EventChs, d : Delays]
        BY <2>1, <2>3
      <3>2. Delays \subseteq Nat
        BY JitterAssumption
      <3>3. evs[k] \in Events /\ evs[k].ch \in EventChs
        BY <3>1, <3>2 DEF Events
      <3> QED BY <2>4, <3>3 DEF FrameOf
    <2>6. Len(evs) \in Nat /\ Len(evs) >= 1
      BY <2>2, <2>3
    <2> QED BY <2>4, <2>5, <2>6, PktKeepsInv
  <1>3. CASE JitterReq
    <2>1. conf' \in ConfType
      <3>1. PICK c \in Confs : conf' = IF c.ticks = 0 \/ c.ref_ch > NHists THEN conf ELSE c
        BY <1>3 DEF JitterReq
      <3>2. c \in [ticks : Nat, ref_ch : Nat] /\ conf \in ConfType
        BY JitterAssumption DEF JitterInv, JitterTypeOK
      <3>3. CASE c.ticks = 0 \/ c.ref_ch > NHists
        BY <3>1, <3>2, <3>3
      <3>4. CASE ~(c.ticks = 0 \/ c.ref_ch > NHists)
        BY <3>1, <3>2, <3>4, JitterAssumption DEF ConfType, Channels
      <3> QED BY <3>3, <3>4
    <2>2. /\ jactive' = jactive /\ jdead' = jdead /\ cur_conf' = cur_conf /\ jticks' = jticks
          /\ jabort' = jabort
          /\ publishing' = publishing /\ points' = points /\ bins' = bins /\ refch' = refch
          /\ window' = window /\ wref' = wref /\ npub' = npub
      BY <1>3 DEF JitterReq
    <2> QED BY <2>1, <2>2 DEF JitterInv, JitterTypeOK, JitterAsserts, Counting, Saveable
  <1>4. CASE JitterBadTick \/ JitterSleep
    <2>1. /\ conf' = conf /\ jdead' = jdead /\ cur_conf' = cur_conf /\ jticks' = jticks
          /\ jabort' = jabort
          /\ points' = points /\ bins' = bins /\ refch' = refch
          /\ window' = window /\ wref' = wref /\ npub' = npub
      BY <1>4 DEF JitterBadTick, JitterSleep
    <2>2. publishing' \in BOOLEAN /\ jactive' \in BOOLEAN /\ (jactive' => jactive)
      <3>1. publishing \in BOOLEAN /\ jactive \in BOOLEAN
        BY DEF JitterInv, JitterTypeOK
      <3>2. CASE JitterBadTick
        BY <3>1, <3>2 DEF JitterBadTick
      <3>3. CASE JitterSleep
        BY <3>1, <3>3 DEF JitterSleep
      <3> QED BY <1>4, <3>2, <3>3
    <2> QED BY <2>1, <2>2 DEF JitterInv, JitterTypeOK, JitterAsserts, Counting, Saveable
  <1>5. CASE JitterWakeup
    <2>1. /\ jactive' = TRUE /\ publishing' = FALSE /\ points' = <<>> /\ jticks' = 0
          /\ window' = <<>> /\ cur_conf' = conf /\ bins' = Empty /\ refch' = conf.ref_ch
          /\ jdead' = jdead /\ jabort' = jabort /\ ~jdead
          /\ conf' = conf /\ wref' = wref /\ npub' = npub
      BY <1>5 DEF JitterWakeup, PrepNext
    <2>2. Empty \in [0 .. NHists - 1 -> [Bins -> Nat]]
      BY DEF Empty
    <2>3. /\ conf \in ConfType /\ conf.ticks \in Nat \ {0} /\ conf.ref_ch \in Channels
          /\ conf \in [ticks : Nat, ref_ch : Channels]
      BY DEF ConfType, JitterInv, JitterTypeOK
    <2>4. Measured(points', window', refch')
      BY <2>1 DEF Measured
    <2>5. JitterAsserts'
      <3>1. Len(points') = 0 /\ ~jabort'
        BY <2>1 DEF JitterInv, JitterAsserts
      <3> QED BY <2>1, <2>3, <3>1, JitterAssumption DEF JitterAsserts
    <2>6. JitterTypeOK'
      <3>1. /\ jdead' \in BOOLEAN /\ publishing' \in BOOLEAN /\ jactive' \in BOOLEAN
            /\ npub' \in BOOLEAN /\ jabort' \in BOOLEAN /\ wref' \in Channels
        BY <2>1 DEF JitterInv, JitterTypeOK
      <3>2. points' \in Seq(Points) /\ window' \in Seq(Events)
        BY <2>1
      <3> QED BY <2>1, <2>2, <2>3, <3>1, <3>2 DEF JitterTypeOK
    <2> QED BY <2>4, <2>5, <2>6 DEF JitterInv
  <1>6. CASE UNCHANGED jvars
    BY <1>6 DEF jvars, JitterInv, JitterTypeOK, JitterAsserts, Counting, Saveable
  <1> QED BY <1>1, <1>2, <1>3, <1>4, <1>5, <1>6 DEF JitterNext

LEMMA JitterInvariant == JitterSpec => []JitterInv
  BY JitterInvInit, JitterInvNext, PTL DEF JitterSpec

(***************************************************************************)
(* There is room for the points of any number of events, the last point is *)
(* the ghost and no other is, and once a reference event has come the task *)
(* publishes before it has counted too many ticks.  So an assertion of     *)
(* task_jitter_pkt_hn or its helpers fails in two cases only, which        *)
(* JitterAsserts names: a channel without a histogram, and a first         *)
(* reference event that comes too late.                                    *)
(***************************************************************************)
THEOREM PointsHaveRoom == JitterSpec => [](JitterTypeOK /\ JitterAsserts)
  <1>1. JitterInv => JitterTypeOK /\ JitterAsserts
    BY DEF JitterInv
  <1> QED BY <1>1, JitterInvariant, PTL

(***************************************************************************)
(* A histogram is all of one configuration: s_prep_next alone takes a new  *)
(* one, and empties the bins.                                              *)
(***************************************************************************)
THEOREM ConfigurationStable == JitterSpec => JitterConfStable
  <1>1. [JitterNext]_jvars => [cur_conf' # cur_conf => bins' = Empty /\ jticks' \in {0, 1}]_jvars
    <2> SUFFICES ASSUME JitterNext, cur_conf' # cur_conf
                 PROVE  bins' = Empty /\ jticks' \in {0, 1}
      OBVIOUS
    <2>1. CASE JitterTick
      BY <2>1 DEF JitterTick, JitterPkt, PrepNext
    <2>2. CASE JitterEvents
      BY <2>2 DEF JitterEvents, JitterPkt, PrepNext
    <2>3. CASE JitterWakeup
      BY <2>3 DEF JitterWakeup, PrepNext
    <2> QED BY <2>1, <2>2, <2>3 DEF JitterNext, JitterBadTick, JitterReq, JitterSleep
  <1> QED BY <1>1, PTL DEF JitterSpec, JitterConfStable

-----------------------------------------------------------------------------
(***************************************************************************)
(* JitterDelays: the numbering of the invariant is the one by counting.    *)
(***************************************************************************)
OthersOf(w) == {i \in 1 .. Len(w) : w[i].ch \in EventChs}
UpTo(O, i) == {j \in O : j <= i}

LEMMA CountedTo ==
  ASSUME NEW m, NEW w, NEW n \in Nat, Len(w) \in Nat, Numbering(m, w, n), NEW p \in 1 .. n
  PROVE  Cardinality(UpTo(OthersOf(w), m[p])) = p
  <1> USE DEF OthersOf
  <1> DEFINE O == OthersOf(w)
             T == {j \in O : j <= m[p]}
             f == [q \in 1 .. p |-> m[q]]
  <1>0. \A q \in 1 .. n : m[q] \in 1 .. Len(w) /\ m[q] \in Int /\ m[q] \in O
    BY DEF Numbering
  <1>1. \A q \in 1 .. p : q \in 1 .. n /\ f[q] = m[q]
    OBVIOUS
  <1>2. \A q \in 1 .. p : f[q] \in T
    <2> SUFFICES ASSUME NEW q \in 1 .. p PROVE m[q] \in T
      BY <1>1
    <2>1. q \in 1 .. n /\ (q = p \/ q < p)
      OBVIOUS
    <2>2. m[q] <= m[p]
      BY <1>0, <2>1 DEF Numbering
    <2> QED BY <1>0, <2>1, <2>2
  <1>3. ASSUME NEW q \in 1 .. p, NEW r \in 1 .. p, f[q] = f[r] PROVE q = r
    <2>1. m[q] = m[r] /\ q \in 1 .. n /\ r \in 1 .. n
      BY <1>1, <1>3
    <2>2. ~(q < r) /\ ~(r < q)
      BY <1>0, <2>1 DEF Numbering
    <2> QED BY <2>1, <2>2
  <1>4. ASSUME NEW j \in T PROVE \E q \in 1 .. p : f[q] = j
    <2>1. j \in 1 .. Len(w) /\ w[j].ch \in EventChs /\ j <= m[p]
      OBVIOUS
    <2>2. ~(m[p] < j)
      BY <1>0, <2>1
    <2>3. PICK q \in 1 .. n : m[q] = j
      BY <2>1, <2>2 DEF Numbering
    <2>4. ~(p < q)
      BY <1>0, <2>1, <2>3 DEF Numbering
    <2>5. q \in 1 .. p
      BY <2>4
    <2> QED BY <1>1, <2>3, <2>5
  <1>5. f \in [1 .. p -> T]
    <2>1. f = [q \in 1 .. p |-> f[q]]
      OBVIOUS
    <2> HIDE DEF f, T
    <2> QED BY <1>2, <2>1
  <1> HIDE DEF f, T
  <1>6. ExistsBijection(1 .. p, T)
    <2>1. f \in Injection(1 .. p, T)
      BY <1>3, <1>5 DEF Injection, IsInjective
    <2>2. f \in Surjection(1 .. p, T)
      BY <1>4, <1>5 DEF Surjection
    <2> QED BY <2>1, <2>2 DEF Bijection, ExistsBijection
  <1>7. IsFiniteSet(1 .. p) /\ Cardinality(1 .. p) = p
    <2>1. 1 \in Int /\ p \in Int /\ ~(1 > p) /\ p - 1 + 1 = p
      OBVIOUS
    <2> QED BY <2>1, FS_Interval
  <1>8. Cardinality(T) = p
    BY <1>6, <1>7, FS_Bijection
  <1> QED BY <1>8 DEF T, UpTo

LEMMA CountedAll ==
  ASSUME NEW m, NEW w, NEW n \in Nat, Len(w) \in Nat, Numbering(m, w, n), n <= MaxPoints - 2,
         NEW O, O = OthersOf(w)
  PROVE  /\ IsFiniteSet(O) /\ Cardinality(O) \in Nat
         /\ n = IF Cardinality(O) < MaxPoints - 2 THEN Cardinality(O) ELSE MaxPoints - 2
  <1> USE DEF OthersOf
  <1>1. IsFiniteSet(O) /\ Cardinality(O) \in Nat
    <2>1. 1 \in Int /\ Len(w) \in Int /\ O \subseteq 1 .. Len(w)
      OBVIOUS
    <2>2. IsFiniteSet(1 .. Len(w))
      BY <2>1, FS_Interval
    <2> QED BY <2>1, <2>2, FS_Subset, FS_CardinalityType
  <1>2. \A q \in 1 .. n : m[q] \in O /\ m[q] \in Int
    BY DEF Numbering
  <1>3. m \in Injection(1 .. n, O)
    <2>1. m \in [1 .. n -> O]
      <3>1. m = [q \in 1 .. n |-> m[q]]
        BY DEF Numbering
      <3> QED BY <1>2, <3>1
    <2>2. ASSUME NEW q \in 1 .. n, NEW r \in 1 .. n, m[q] = m[r] PROVE q = r
      <3>1. ~(q < r) /\ ~(r < q)
        BY <1>2, <2>2 DEF Numbering
      <3> QED BY <3>1
    <2> QED BY <2>1, <2>2 DEF Injection, IsInjective
  <1>4. Cardinality(1 .. n) = n
    <2>1. 1 \in Int /\ n \in Int /\ (1 > n => n = 0) /\ n - 1 + 1 = n
      OBVIOUS
    <2> QED BY <2>1, FS_Interval
  <1>5. /\ Cardinality(1 .. n) <= Cardinality(O)
        /\ Cardinality(1 .. n) = Cardinality(O) <=> m \in Surjection(1 .. n, O)
    BY <1>1, <1>3, FS_Injection
  <1>6. CASE n = MaxPoints - 2
    BY <1>1, <1>4, <1>5, <1>6, JitterAssumption
  <1>7. CASE n # MaxPoints - 2
    <2>1. \A i \in O : \E p \in 1 .. n : m[p] = i
      BY <1>7 DEF Numbering
    <2>2. m \in Surjection(1 .. n, O)
      BY <1>3, <2>1 DEF Injection, Surjection
    <2>3. Cardinality(O) = n
      BY <1>4, <1>5, <2>2
    <2> QED BY <1>1, <1>7, <2>3, JitterAssumption
  <1> QED BY <1>1, <1>6, <1>7

LEMMA NthCounted ==
  ASSUME NEW m, NEW n \in Nat, Len(window) \in Nat, Numbering(m, window, n),
         n <= MaxPoints - 2, NEW p \in 1 .. n
  PROVE  Nth(p) = m[p]
  <1> DEFINE C(i) == UpTo(Others, i)
  <1>1. Others = OthersOf(window)
    BY DEF Others, OthersOf
  <1>2. Cardinality(C(m[p])) = p
    BY <1>1, CountedTo
  <1>3. IsFiniteSet(Others)
    BY <1>1, CountedAll
  <1>4. m[p] \in Others /\ \A j \in Others : j \in Int
    BY DEF Numbering, Others
  <1>5. ASSUME NEW i \in Others, Cardinality(C(i)) = p PROVE i = m[p]
    <2>1. IsFiniteSet(C(i)) /\ IsFiniteSet(C(m[p]))
      <3>1. C(i) \subseteq Others /\ C(m[p]) \subseteq Others
        BY DEF UpTo
      <3> HIDE DEF C
      <3> QED BY <1>3, <3>1, FS_Subset
    <2>2. C(i) \subseteq C(m[p]) \/ C(m[p]) \subseteq C(i)
      <3> DEFINE k == m[p]
      <3>1. i \in Int /\ k \in Int
        BY <1>4
      <3> HIDE DEF k
      <3>2. ASSUME NEW a \in Int, NEW b \in Int, a <= b PROVE C(a) \subseteq C(b)
        <4> SUFFICES ASSUME NEW j \in C(a) PROVE j \in C(b)
          OBVIOUS
        <4>1. j \in Others /\ j \in Int /\ j <= a
          BY <1>4 DEF UpTo
        <4>2. j <= b
          BY <3>2, <4>1
        <4> QED BY <4>1, <4>2 DEF UpTo
      <3>3. i <= k \/ k <= i
        BY <3>1
      <3> QED BY <3>1, <3>2, <3>3 DEF k
    <2>3. i \in C(i) /\ m[p] \in C(m[p])
      BY <1>4 DEF UpTo
    <2>4. C(i) = C(m[p])
      <3> HIDE DEF C
      <3> QED BY <1>2, <1>5, <2>1, <2>2, FS_Subset
    <2>5. i \in C(m[p]) /\ m[p] \in C(i)
      <3> HIDE DEF C
      <3> QED BY <2>3, <2>4
    <2>6. i <= m[p] /\ m[p] <= i
      BY <2>5 DEF UpTo
    <2>7. i \in Int /\ m[p] \in Int
      BY <1>4
    <2> QED BY <2>6, <2>7
  <1>6. Nth(p) = CHOOSE i \in Others : Cardinality(C(i)) = p
    BY DEF Nth, UpTo
  <1> HIDE DEF C
  <1> QED BY <1>2, <1>4, <1>5, <1>6

(***************************************************************************)
(* The delays that are kept up event by event are the times from the last  *)
(* reference event to each event and from it to now, each point belongs to *)
(* the event it is meant for, and its histogram carries the label of that  *)
(* event's channel: for frames and windows of any length.                  *)
(***************************************************************************)
THEOREM DelaysRight == JitterSpec => []JitterDelays
  <1>1. JitterInv => JitterDelays
    <2> SUFFICES ASSUME JitterInv, points # <<>> PROVE JitterDelays
      BY DEF JitterDelays
    <2> DEFINE n == Len(points) - 1
    <2>1. /\ points \in Seq(Points) /\ window \in Seq(Events) /\ Len(points) < MaxPoints
          /\ Measured(points, window, refch)
      BY DEF JitterInv, JitterTypeOK, JitterAsserts
    <2>2. Len(points) \in Nat /\ Len(points) >= 1 /\ Len(window) \in Nat
      BY <2>1, ElementsOf
    <2>3. n \in Nat /\ n <= MaxPoints - 2 /\ n + 1 = Len(points)
      BY <2>1, <2>2, JitterAssumption
    <2>4. PICK m \in [1 .. n -> 1 .. Len(window)] :
            /\ Numbering(m, window, n)
            /\ \A p \in 1 .. n : PointOf(points[p], window, m[p], refch)
      BY <2>1 DEF Measured
    <2>5. points[n + 1].since = Sat(Lapse)
      BY <2>1, <2>3 DEF Measured, Lapse
    <2> HIDE DEF n
    <2>6. n = IF Cardinality(Others) < MaxPoints - 2 THEN Cardinality(Others) ELSE MaxPoints - 2
      <3>1. Others = OthersOf(window)
        BY DEF Others, OthersOf
      <3> QED BY <2>2, <2>3, <2>4, <3>1, CountedAll
    <2>7. ASSUME NEW p \in 1 .. n
          PROVE  LET at == Elapsed(window, Nth(p)) IN
                 /\ points[p].since = Sat(at)
                 /\ points[p].until = Sat(Lapse - at)
                 /\ Label(refch, points[p].hid) = window[Nth(p)].ch
      <3>1. Nth(p) = m[p]
        BY <2>2, <2>3, <2>4, NthCounted
      <3>2. PointOf(points[p], window, m[p], refch)
        BY <2>4
      <3> QED BY <3>1, <3>2 DEF PointOf, Lapse
    <2> QED BY <2>5, <2>6, <2>7 DEF JitterDelays, n
  <1> QED BY <1>1, JitterInvariant, PTL

=============================================================================
