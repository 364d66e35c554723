------------------------------ MODULE TesRing ------------------------------
(***************************************************************************)
(* Index arithmetic of one netmap receive ring, as src/lib/tesif.c does    *)
(* it.  A ring has NumSlots slots.  The kernel fills slots and moves the   *)
(* tail; the program gives slots back by moving the head.  The frames the  *)
(* program may read are those from the head up to, not including, the      *)
(* tail.  Two ids are compared by how far they lie from the head, going    *)
(* round the ring.                                                         *)
(***************************************************************************)
EXTENDS Integers

CONSTANT NumSlots   \* num_slots of the netmap ring

ASSUME NumSlotsAssumption == NumSlots \in Nat /\ NumSlots >= 2

Slots == 0 .. NumSlots - 1

Preceding(i) == IF i = 0 THEN NumSlots - 1 ELSE i - 1

\* Faulty variant: no wrap-around
FollowingNoWrap(i) == i + 1

Following(i) == IF i + 1 = NumSlots THEN 0 ELSE i + 1

(***************************************************************************)
(* Steps from slot a forward to slot b.  tes_ifring_total is Dist(head,    *)
(* tail), tes_ifring_done is Dist(head, cur), tes_ifring_pending is        *)
(* Dist(cur, tail).                                                        *)
(***************************************************************************)
Dist(a, b) == IF b >= a THEN b - a ELSE NumSlots + b - a

\* a and b lie on the same side of the wrap-around point, seen from head h
SameRegion(h, a, b) ==
  \/ h <= a /\ h <= b
  \/ h > a /\ h > b

CompareIds(h, a, b) ==
  IF a = b
    THEN 0
    ELSE IF SameRegion(h, a, b) THEN (IF a < b THEN -1 ELSE 1)
                                ELSE (IF a < b THEN 1 ELSE -1)

\* Faulty variant: the numerically smaller id, wherever the head is
EarlierIdNoWrap(h, a, b) == IF a < b THEN a ELSE b

EarlierId(h, a, b) ==
  IF a = b
    THEN a
    ELSE IF SameRegion(h, a, b) THEN (IF a < b THEN a ELSE b)
                                ELSE (IF a < b THEN b ELSE a)

LaterId(h, a, b) ==
  IF a = b
    THEN a
    ELSE IF SameRegion(h, a, b) THEN (IF a < b THEN b ELSE a)
                                ELSE (IF a < b THEN a ELSE b)

\* Slot x is one the program owns, or is the tail itself.
InRange(h, x, t) == Dist(h, x) <= Dist(h, t)

\* The slots of the frames from slot x up to, not including, slot t.
SlotsFrom(x, t) == {i \in Slots : Dist(x, i) < Dist(x, t)}
=============================================================================
