SPECIFICATION FairSpec
CONSTANTS
  NumCores = 4
  NumParts = 3
  NumServed = 3
  Cores <- MCCores
  Workers = {0, 1, 2}
  Director = Director
  DirLcore = 3
  CoreList <- MCCoreList
  NumaOf <- MCTwoDomains
  Parts <- MCParts
  ReadModes = {TRUE, FALSE}
  ConcurrentWrite = FALSE
  UseEnso = FALSE
  Kinds = {"get", "set"}
  Room = 1
  MaxLoad = 1
  MaxBatch = 1
  MaxRounds = 2
INVARIANT OwnersSound
PROPERTIES OwnerGives StaysInDomain WaitEnds
