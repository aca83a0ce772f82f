----------------------------- MODULE NetmapRing -----------------------------
(***************************************************************************)
(* Index arithmetic of a netmap ring with N slots.  The driver computes    *)
(* the successor of an index with NETMAP_RING_NEXT and the room of the     *)
(* shared ring with nm_ring_space; nm_next, nm_prev and the validation     *)
(* done by nm_txsync_prologue / nm_rxsync_prologue come from netmap, which *)
(* the repository takes as a submodule.                                    *)
(***************************************************************************)
EXTENDS Integers

CONSTANT N        \* num_slots of the ring

ASSUME NAssumption == N \in Nat /\ N >= 2

Slots == 0 .. N - 1

(* Mutated: the index wraps one slot too late. *)
RingNextLate(i) == IF i = N THEN 0 ELSE i + 1

(* NETMAP_RING_NEXT(r, i), also netmap's nm_next(i, lim). *)
RingNext(i) == IF i + 1 = N THEN 0 ELSE i + 1

(* netmap's nm_prev(i, lim). *)
RingPrev(i) == IF i = 0 THEN N - 1 ELSE i - 1

(* nm_ring_space: tail - cur, plus num_slots when that is negative.  The   *)
(* same expression counts the slots from any index up to another one.      *)
Dist(from, to) == IF to - from < 0 THEN to - from + N ELSE to - from

(* i moved forward by k slots, 0 <= k <= N. *)
Advance(i, k) == IF i + k >= N THEN i + k - N ELSE i + k

(* What netmap's sync prologues accept: the position pos the other side    *)
(* stored lies in the region from..limit that it owns.                     *)
InRegion(pos, from, limit) == Dist(from, pos) <= Dist(from, limit)
=============================================================================
