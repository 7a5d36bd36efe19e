--------------------------- MODULE MCLTableChains ---------------------------
(* Small instances of LTableChains for TLC: the keys of Crowd fall in      *)
(* bucket 1 and those of Rest in bucket 2.                                 *)
EXTENDS LTableChains, TLC

CONSTANTS Crowd, Rest, NumExtra, NumOffsets

MCKeys == Crowd \cup Rest
MCBucketOf == [k \in MCKeys |-> IF k \in Crowd THEN 1 ELSE 2]
MCExtra == 3 .. 2 + NumExtra
MCOffsets == 1 .. NumOffsets

\* Two mutators with room for a chain of three buckets; a mutator and a getter
\* with an offset less, where offsets are reused sooner.
Setting(S, n) == [threads |-> S, room |-> 1 .. n]
MCSettings ==
  { Setting(Mutators, NumOffsets) }
  \cup { Setting({m, g}, NumOffsets - 1) : m \in Mutators, g \in Getters }
Symmetry ==
  Permutations(Mutators) \cup Permutations(Crowd) \cup Permutations(Rest)
  \cup Permutations(Values)
=============================================================================
