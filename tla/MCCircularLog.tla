---------------------------- MODULE MCCircularLog ----------------------------
(* Model-checking instances of CircularLog.                                *)
EXTENDS CircularLog, TLC

\* Writers are interchangeable, and so are readers.
Perms == Permutations(Writers) \cup Permutations(Readers)
=============================================================================
