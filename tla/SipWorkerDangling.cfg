SPECIFICATION Spec
CONSTANTS
  x1 = x1
  x2 = x2
  x3 = x3
  d1 = d1
  d2 = d2
  k1 = k1
  k2 = k2
  b1 = b1
  b2 = b2
  b3 = b3
  tag = tag
  caller = caller
  id = id
  NULL = NULL
  TxnAddr <- Txns3
  DlgAddr <- Dlgs2
  CallAddr <- Calls1
  Branches <- Branches3
  ToTags <- OneTag
  Requests <- ByeTwice
  QueueCapacity = 1
  MaxTxnsPerDialog = 1
  MaxPending = 2
  Faults <- NoFaults
INVARIANT DialogPointersLive
