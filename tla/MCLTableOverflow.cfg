CONSTANTS
  Mutators = {m1}
  Getters = {}
  Teams = {{m1}}
  Nobody = Nobody
  k1 = k1
  k2 = k2
  Keys = {k1, k2}
  Mode = 1
  BucketOf <- PairBucket
  TagOf <- PairTag
  NumBuckets = 1
  BucketSize = 2
  Lens = {1, 2}
  MaxValue = 0
  Size = 8
  OffsetMod = 32
  Threshold = 4
  MaxTail = 16
  MaxVersion = 10
SPECIFICATION Spec
INVARIANTS LogInBounds
