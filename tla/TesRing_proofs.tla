--------------------------- MODULE TesRing_proofs ---------------------------
(***************************************************************************)
(* What the ring helpers of tesif.c compute, for every ring size.          *)
(***************************************************************************)
EXTENDS TesRing, TLAPS

(***************************************************************************)
(* The three slot counters of tesif.c stay below the number of slots, and  *)
(* are zero exactly when their two indices coincide: an empty ring is      *)
(* never taken for a full one.                                             *)
(***************************************************************************)
LEMMA DistType ==
  ASSUME NEW a \in Slots, NEW b \in Slots
  PROVE  /\ Dist(a, b) \in Slots
         /\ Dist(a, b) = 0 <=> a = b
  BY NumSlotsAssumption DEF Dist, Slots

(***************************************************************************)
(* tes_ifring_following and tes_ifring_preceding are inverse and stay in   *)
(* the ring.                                                               *)
(***************************************************************************)
LEMMA StepType ==
  ASSUME NEW i \in Slots
  PROVE  /\ Following(i) \in Slots
         /\ Preceding(i) \in Slots
         /\ Following(Preceding(i)) = i
         /\ Preceding(Following(i)) = i
         /\ Following(i) # i
  BY NumSlotsAssumption DEF Following, Preceding, Slots

(***************************************************************************)
(* Moving an index one slot forward adds one to its distance from the      *)
(* head, except that it wraps to zero when it reaches the head.            *)
(***************************************************************************)
LEMMA DistFollowing ==
  ASSUME NEW h \in Slots, NEW x \in Slots
  PROVE  /\ Following(x) # h => Dist(h, Following(x)) = Dist(h, x) + 1
         /\ Following(x) = h => Dist(h, x) = NumSlots - 1
  BY NumSlotsAssumption DEF Dist, Following, Slots

(***************************************************************************)
(* Moving the start of an interval one slot forward shortens it by one.    *)
(***************************************************************************)
LEMMA DistFromFollowing ==
  ASSUME NEW x \in Slots, NEW t \in Slots, x # t
  PROVE  Dist(Following(x), t) = Dist(x, t) - 1
  BY NumSlotsAssumption DEF Dist, Following, Slots

(***************************************************************************)
(* Distances along the ring add up: whatever lies between h and t splits   *)
(* the interval in two.                                                    *)
(***************************************************************************)
LEMMA DistSplit ==
  ASSUME NEW h \in Slots, NEW x \in Slots, NEW t \in Slots,
         Dist(h, x) <= Dist(h, t)
  PROVE  Dist(x, t) = Dist(h, t) - Dist(h, x)
  BY NumSlotsAssumption DEF Dist, Slots

(***************************************************************************)
(* tes_ifring_earlier_id returns the id that is the fewer steps ahead of   *)
(* the ring's head: the comparison of "regions" in its code is a           *)
(* comparison of distances.                                                *)
(***************************************************************************)
THEOREM EarlierIdIsNearest ==
  ASSUME NEW h \in Slots, NEW a \in Slots, NEW b \in Slots
  PROVE  /\ EarlierId(h, a, b) \in {a, b}
         /\ Dist(h, EarlierId(h, a, b)) <= Dist(h, a)
         /\ Dist(h, EarlierId(h, a, b)) <= Dist(h, b)
  BY NumSlotsAssumption DEF EarlierId, SameRegion, Dist, Slots

(***************************************************************************)
(* tes_ifring_later_id returns the other one, and tes_ifring_compare_ids   *)
(* is the sign of the difference of the two distances.                     *)
(***************************************************************************)
THEOREM CompareIdsIsSign ==
  ASSUME NEW h \in Slots, NEW a \in Slots, NEW b \in Slots
  PROVE  /\ CompareIds(h, a, b) = 0 <=> Dist(h, a) = Dist(h, b)
         /\ CompareIds(h, a, b) < 0 <=> Dist(h, a) < Dist(h, b)
         /\ CompareIds(h, a, b) > 0 <=> Dist(h, a) > Dist(h, b)
         /\ {EarlierId(h, a, b), LaterId(h, a, b)} = {a, b}
  <1>1. CompareIds(h, a, b) = 0 <=> Dist(h, a) = Dist(h, b)
    BY NumSlotsAssumption DEF CompareIds, SameRegion, Dist, Slots
  <1>2. CompareIds(h, a, b) < 0 <=> Dist(h, a) < Dist(h, b)
    BY NumSlotsAssumption DEF CompareIds, SameRegion, Dist, Slots
  <1>3. CompareIds(h, a, b) > 0 <=> Dist(h, a) > Dist(h, b)
    BY NumSlotsAssumption DEF CompareIds, SameRegion, Dist, Slots
  <1>4. {EarlierId(h, a, b), LaterId(h, a, b)} = {a, b}
    BY NumSlotsAssumption DEF EarlierId, LaterId, SameRegion, Slots
  <1> QED BY <1>1, <1>2, <1>3, <1>4

(***************************************************************************)
(* Releasing up to a slot n that is no further than x leaves x readable:   *)
(* the fact that makes the coordinator's release safe for every task.      *)
(***************************************************************************)
LEMMA ReleaseKeepsRange ==
  ASSUME NEW h \in Slots, NEW n \in Slots, NEW x \in Slots, NEW t \in Slots,
         Dist(h, n) <= Dist(h, x), InRange(h, x, t)
  PROVE  InRange(n, x, t)
  BY NumSlotsAssumption DEF InRange, Dist, Slots

(***************************************************************************)
(* A tail that does not run into the head keeps every index of the range   *)
(* in the range, and does not reuse a slot of the range.                   *)
(***************************************************************************)
LEMMA DeliverKeepsRange ==
  ASSUME NEW h \in Slots, NEW x \in Slots, NEW t \in Slots,
         InRange(h, x, t), Following(t) # h
  PROVE  /\ InRange(h, x, Following(t))
         /\ t \notin SlotsFrom(x, t)
         /\ SlotsFrom(x, Following(t)) = SlotsFrom(x, t) \cup {t}
  <1>1. InRange(h, x, Following(t))
    BY NumSlotsAssumption DEF InRange, Dist, Following, Slots
  <1>2. t \notin SlotsFrom(x, t)
    BY NumSlotsAssumption DEF SlotsFrom, Dist, Slots
  <1>3. Following(t) # x
    BY NumSlotsAssumption DEF InRange, Dist, Following, Slots
  <1>4. ASSUME NEW i \in Slots
        PROVE  i \in SlotsFrom(x, Following(t)) <=> i \in SlotsFrom(x, t) \/ i = t
    BY <1>3, NumSlotsAssumption DEF SlotsFrom, Dist, Following, Slots
  <1>5. QED BY <1>1, <1>2, <1>4 DEF SlotsFrom

(***************************************************************************)
(* Reading the first frame of an interval leaves exactly the others.       *)
(***************************************************************************)
LEMMA ReadFirst ==
  ASSUME NEW x \in Slots, NEW t \in Slots, x # t
  PROVE  /\ x \in SlotsFrom(x, t)
         /\ SlotsFrom(Following(x), t) = SlotsFrom(x, t) \ {x}
  <1>1. x \in SlotsFrom(x, t)
    BY NumSlotsAssumption DEF SlotsFrom, Dist, Slots
  <1>2. ASSUME NEW i \in Slots
        PROVE  i \in SlotsFrom(Following(x), t) <=> i \in SlotsFrom(x, t) /\ i # x
    BY NumSlotsAssumption DEF SlotsFrom, Dist, Following, Slots
  <1> QED BY <1>1, <1>2 DEF SlotsFrom
=============================================================================
