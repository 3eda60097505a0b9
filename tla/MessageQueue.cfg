SPECIFICATION FairSpec
CONSTANTS
  main = main
  timer = timer
  worker = worker
  m1 = m1
  m2 = m2
  m3 = m3
  NULL = NULL
  Producers <- MCProducers
  Worker = worker
  Packets <- MCPackets
  Capacity = 3
INVARIANTS
  TypeOK
  MutualExclusion
  NoLostWakeup
  RingAligned
PROPERTIES
  ImplementsFifo
  AcceptedIsDelivered
  EnqueueReturns
