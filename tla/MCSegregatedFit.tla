-------------------------- MODULE MCSegregatedFit --------------------------
(* Model-checking instances of SegregatedFit.                              *)
EXTENDS SegregatedFit, TLC

Perms == Permutations(Threads)
=============================================================================
