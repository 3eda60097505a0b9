SPECIFICATION FairSpec
CONSTANTS
  b1 = b1
  b2 = b2
  NULL = NULL
  NWorkers = 2
  QueueCapacity = 2
  NCells = 4
  Branches <- MCBranches
  Requests <- MCRequests
  Faults <- MCFaults
INVARIANTS
  TypeOK
  OneOwner
  OwnCallsOnly
PROPERTIES
  ServedInOrder
  CellsReturned
