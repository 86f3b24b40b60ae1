-------------------------- MODULE MCConcurrentStores --------------------------
(* An instance of ConcurrentStores for TLC.  Threads are interchangeable. *)
EXTENDS ConcurrentStores, TLC

CONSTANTS d1, d2, d3

ThreadSymmetry == Permutations(Threads)
===============================================================================
