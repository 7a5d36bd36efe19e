SPECIFICATION FairSpec
CONSTANTS
  NumRds = 2
  EpochMod = 2
  RequestTimeout = 1
  TXBurst = 2
  TXMinBurst = 2
  TXTimeout = 1
  MaxNet = 2
  NumParts = 1
  NumEndpoints = 2
  LcoreOf <- MCLcoreOf
  Reachable <- MCReachable
INVARIANTS TypeOK  OwnResponse SentBeforeTimeout RoutesSettled
PROPERTIES RequestEnds
