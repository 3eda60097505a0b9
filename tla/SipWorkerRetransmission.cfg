SPECIFICATION FairSpec
CONSTANTS
  x1 = x1
  x2 = x2
  x3 = x3
  d1 = d1
  d2 = d2
  k1 = k1
  k2 = k2
  b1 = b1
  b2 = b2
  b3 = b3
  tag = tag
  caller = caller
  id = id
  NULL = NULL
  TxnAddr <- Txns2
  DlgAddr <- Dlgs2
  CallAddr <- Calls1
  Branches <- Branches2
  ToTags <- OneTag
  Requests <- BasicCall
  QueueCapacity = 1
  MaxTxnsPerDialog = 2
  MaxPending = 2
  Faults <- NoFaults
PROPERTY RetransmissionReturnsLatest
