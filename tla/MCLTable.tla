------------------------------ MODULE MCLTable ------------------------------
(* Model-checking instances of LTable.                                     *)
EXTENDS LTable, TLC

CONSTANTS k1, k2

\* Two keys of different tags in the only bucket.
PairBucket == k1 :> 0 @@ k2 :> 0
PairTag == k1 :> 1 @@ k2 :> 2

\* One key in each of two buckets.
ApartBucket == k1 :> 0 @@ k2 :> 1
ApartTag == k1 :> 1 @@ k2 :> 1

Perms == Permutations(Mutators)
=============================================================================
