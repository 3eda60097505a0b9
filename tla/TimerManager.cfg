SPECIFICATION FairSpec
CONSTANTS
  w1 = w1
  a1 = a1
  a2 = a2
  a3 = a3
  waitAck = waitAck
  delete1 = delete1
  delete2 = delete2
  delete3 = delete3
  NULL = NULL
  TimerThread = TimerThread
  Adders <- MCAdders
  TimerAddr <- MCTimerAddr
  NFds = 4
  MaxEvents = 2
  Events <- MCEvents
  Roots <- MCRoots
  Rearm <- MCRearm
  Faults <- MCFaults
INVARIANTS
  TypeOK
  TimersOwned
  NoThreadNoTimer
PROPERTIES
  ImplementsTimers
  AcceptedFires
