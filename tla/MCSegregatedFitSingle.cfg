CONSTANTS
  Threads = {t1}
  Nobody = Nobody
  Mode = 1
  Size = 20
  NumClasses = 3
  Lengths = {2, 3, 5}
SPECIFICATION Spec
INVARIANTS PoolSound ItemsApart
PROPERTY RefusesOnlyIfFull
