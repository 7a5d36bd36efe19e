CONSTANTS
  Mutators = {m1, m2}
  Getters = {g1}
  Teams = {{m1, m2}, {m1, g1}, {m2, g1}}
  Nobody = Nobody
  k1 = k1
  k2 = k2
  Keys = {k1, k2}
  Mode = 2
  BucketOf <- ApartBucket
  TagOf <- ApartTag
  NumBuckets = 2
  BucketSize = 1
  Lens = {2}
  MaxValue = 1
  Size = 8
  OffsetMod = 32
  Threshold = 3
  MaxTail = 16
  MaxVersion = 4
SPECIFICATION Spec
SYMMETRY Perms
INVARIANTS ValidSlotIsCurrent
 
