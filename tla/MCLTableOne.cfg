CONSTANTS
  Mutators = {m1}
  Getters = {}
  Teams = {{m1}}
  Nobody = Nobody
  k1 = k1
  k2 = k2
  Keys = {k1, k2}
  Mode = 1
  BucketOf <- PairBucket
  TagOf <- PairTag
  NumBuckets = 2
  BucketSize = 2
  Lens = {1, 3}
  MaxValue = 0
  Size = 6
  OffsetMod = 24
  Threshold = 4
  MaxTail = 30
  MaxVersion = 16
SPECIFICATION Spec
INVARIANTS TableSound ValidSlotIsCurrent
