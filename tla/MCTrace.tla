------------------------------- MODULE MCTrace -------------------------------
(* Finite instances of Trace. *)
EXTENDS Trace, TLC

ThreadSymmetry == Permutations(Threads)
=============================================================================
