SPECIFICATION Spec
CONSTANTS
  Crowd = {a, b, c}
  Rest = {d, e}
  NumExtra = 2
  NumOffsets = 3
  Mutators = {m1, m2}
  Getters = {g1}
  Settings <- MCSettings
  Nobody = Nobody
  Keys <- MCKeys
  BucketOf <- MCBucketOf
  Main = {1, 2}
  Extra <- MCExtra
  BucketSize = 1
  Offsets <- MCOffsets
  Values = {v}
SYMMETRY Symmetry
INVARIANTS ChainsSound  
