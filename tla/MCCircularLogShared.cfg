CONSTANTS
  Writers = {w1, w2}
  Readers = {r1}
  Nobody = Nobody
  Mode = 2
  Size = 4
  OffsetMod = 8
  Sizes = {2, 3}
  MaxTail = 10
SPECIFICATION FairSpec
INVARIANTS TypeOK Bounded  ValidIntact ReadIntact
PROPERTY AllocateEnds
