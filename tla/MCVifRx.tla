------------------------------ MODULE MCVifRx -------------------------------
(* The receive path with interchangeable senders. *)
EXTENDS VifRx, TLC

SenderSymmetry == Permutations(Senders)
=============================================================================
