------------------------------- MODULE MCEntry -------------------------------
(* Entry for TLC: the threads are interchangeable.                           *)
EXTENDS Entry, TLC

ThreadSymmetry == Permutations(Thread)
=============================================================================
