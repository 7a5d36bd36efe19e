SPECIFICATION Spec
CONSTANTS
  NumFrames = 6
  NodeOf <- MCNodeOf
  LeftBehind <- MCLeftBehind
  NumPagesToInit = 6
  NumPagesToFree <- MCNumPagesToFree
  NumCells = 12
  Threads = {main, other}
  Allocators = {main}
  Requests <- MCRequests
  MaxBlocks = 2
  MaxCrashes = 1
  main = main
  other = other
CHECK_DEADLOCK FALSE
INVARIANTS PagesSound PagesAccounted BlocksBacked
PROPERTY CallsEnd
