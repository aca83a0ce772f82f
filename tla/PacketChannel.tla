--------------------------- MODULE PacketChannel ----------------------------
(***************************************************************************)
(* What a virtual interface promises in one direction: packets come out in *)
(* the order in which they went in, none is lost, duplicated or damaged,   *)
(* and no more than Capacity of them are under way.  A packet is named by  *)
(* its number modulo SeqMod.                                               *)
(***************************************************************************)
EXTENDS Naturals, Sequences

CONSTANTS SeqMod, Capacity

VARIABLES
  chan,   \* packets under way
  next,   \* the next packet to go in
  last    \* the next packet to come out

chanVars == <<chan, next, last>>

After(tag, k) == (tag + k) % SeqMod

Init == chan = <<>> /\ next = 0 /\ last = 0

(* A packet goes in. *)
Send ==
  /\ Len(chan) < Capacity
  /\ chan' = Append(chan, next)
  /\ next' = After(next, 1)
  /\ UNCHANGED last

(* The k oldest packets come out, and they are the ones expected. *)
Receive(k) ==
  /\ k \in 1 .. Len(chan)
  /\ \A i \in 1 .. k : chan[i] = After(last, i - 1)
  /\ chan' = SubSeq(chan, k + 1, Len(chan))
  /\ last' = After(last, k)
  /\ UNCHANGED next

Next == Send \/ \E k \in 1 .. Capacity : Receive(k)

Spec == Init /\ [][Next]_chanVars
=============================================================================
