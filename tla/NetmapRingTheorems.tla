------------------------- MODULE NetmapRingTheorems -------------------------
(* Facts about the index arithmetic of NetmapRing, for every ring size N. *)
EXTENDS NetmapRing, TLAPS

(* The successor computed by NETMAP_RING_NEXT is a slot of the ring. *)
LEMMA RingNextType == \A i \in Slots : RingNext(i) \in Slots
  BY NAssumption DEF Slots, RingNext

(* So is the predecessor computed by nm_prev. *)
LEMMA RingPrevType == \A i \in Slots : RingPrev(i) \in Slots
  BY NAssumption DEF Slots, RingPrev

(* nm_ring_space of two slots is a count below N. *)
LEMMA DistType == \A a, b \in Slots : Dist(a, b) \in 0 .. N - 1
  BY NAssumption DEF Slots, Dist

(* Moving forward by less than a whole turn stays in the ring. *)
LEMMA AdvanceType ==
  \A i \in Slots : \A k \in 0 .. N - 1 : Advance(i, k) \in Slots
  BY NAssumption DEF Slots, Advance

(* A position d slots ahead is at distance d. *)
LEMMA DistAdvance ==
  \A i \in Slots : \A k \in 0 .. N - 1 : Dist(i, Advance(i, k)) = k
  BY NAssumption DEF Slots, Advance, Dist

(* Distances add up along the ring as long as they stay within one turn. *)
LEMMA DistSplit ==
  \A a, b, c \in Slots :
    Dist(a, b) <= Dist(a, c) => Dist(a, b) + Dist(b, c) = Dist(a, c)
  BY NAssumption DEF Slots, Dist

(* The distance from one slot to another leads from the first to the other. *)
LEMMA AdvanceDist == \A a, b \in Slots : Advance(a, Dist(a, b)) = b
  BY NAssumption DEF Slots, Dist, Advance

(* A position moved forward is that much further from any slot behind it, *)
(* unless it passes that slot.                                            *)
LEMMA AdvanceFrom ==
  \A a, b \in Slots : \A k \in 0 .. N - 1 :
    Dist(a, b) + k <= N - 1 => Dist(a, Advance(b, k)) = Dist(a, b) + k
  BY NAssumption DEF Slots, Dist, Advance

(* NETMAP_RING_NEXT moves forward by one slot. *)
LEMMA NextAdvance == \A i \in Slots : RingNext(i) = Advance(i, 1)
  BY NAssumption DEF Slots, RingNext, Advance

(* What lies between head and tail, and the room from tail to the slot    *)
(* before nr_hwcur, never add up to a whole turn.                         *)
LEMMA RoomLeft ==
  \A a, h, t \in Slots :
    Dist(a, h) <= Dist(a, t) => Dist(h, t) + Dist(t, RingPrev(a)) <= N - 1
  BY NAssumption DEF Slots, RingPrev, Dist

(* A slot seen from a position moved forward is that much nearer. *)
LEMMA DistFrom ==
  \A a, b \in Slots : \A k \in 0 .. N - 1 :
    Dist(Advance(a, k), b) + k <= N - 1
      => Dist(a, b) = Dist(Advance(a, k), b) + k
  BY NAssumption DEF Slots, Dist, Advance

(* Moving up to k slots towards a slot that is at least k away. *)
LEMMA DistTo ==
  \A a, b \in Slots : \A k \in 0 .. N - 1 :
    k <= Dist(a, b) => Dist(Advance(a, k), b) = Dist(a, b) - k
  BY NAssumption DEF Slots, Dist, Advance

(* Two slots at the same distance are the same. *)
LEMMA DistSame ==
  \A a, b, c \in Slots : Dist(a, b) = Dist(a, c) => b = c
  BY NAssumption DEF Slots, Dist
=============================================================================
