--------------------------- MODULE MCCommitGroup ---------------------------
(* Instances of CommitGroup for TLC.  Threads are interchangeable. *)
EXTENDS CommitGroup, TLC

ThreadSymmetry == Permutations(Threads)
=============================================================================
