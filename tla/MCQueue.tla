------------------------------ MODULE MCQueue -------------------------------
(* Small instances of Queue for TLC.                                       *)
EXTENDS Queue, TLC

Symmetry == Permutations(Producers) \cup Permutations(Consumers) \cup Permutations(Values)
=============================================================================
