SPECIFICATION Spec
CONSTANTS
  NumEndpoints = 2
  RXBurst = 2
  TXBurst = 3
  TXMinBurst = 1
  Ring = 8
  StageGaps = {1}
  RXDesc = 2
  TXDesc = 1
  NumBuffers = 5
  MaxRequests = 5
  Sizes = {0, 1, 5}
  MaxPackets = 3
  MaxBad = 1
INVARIANTS TypeOK BuffersAccounted WindowIntact RepliesRight 
PROPERTIES RepliesLeave
