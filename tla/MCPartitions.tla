---------------------------- MODULE MCPartitions ----------------------------
(* Small instances of Partitions for TLC.                                  *)
EXTENDS Partitions

CONSTANTS NumCores, NumParts, NumServed   \* the lcores that list partitions: the first NumServed

MCCores == 0 .. NumCores - 1
MCParts == 0 .. NumParts - 1
MCCoreList == [i \in 1 .. NumServed |-> i - 1]
\* Two lcores in the first domain, the others in the second.
MCTwoDomains == [c \in MCCores |-> IF c < 2 THEN 0 ELSE 1]
=============================================================================
