----------------------------- MODULE MCBdgLearn -----------------------------
(* Interchangeable threads and two addresses: under one function each has  *)
(* a slot of its own, under the other the first shares that of the second. *)
EXTENDS BdgLearn, TLC

MCRtHash == <<0, 1>>
MCLsbHash == <<1, 1>>
ThreadSymmetry == Permutations(Threads)
=============================================================================
