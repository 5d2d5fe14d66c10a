SPECIFICATION Spec
CONSTANTS
  MaxRequests = 3
  Depth = 2
INVARIANTS BufferStable Answers
PROPERTY CallsReturn
CHECK_DEADLOCK FALSE
