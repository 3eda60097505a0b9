SPECIFICATION Spec
CONSTANTS
  Buffers <- MCBuffers
  SizeRange = 4096
CHECK_DEADLOCK FALSE
INVARIANTS
  TypeOK
  WellFormedIsParsed
  AcceptedIsComplete
  
