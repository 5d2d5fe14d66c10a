SPECIFICATION Spec
CONSTANTS
  Inputs = {s1, s2}
  Size = 3
  MaxFrames = 4
  MaxChanges = 3
INVARIANTS NewestKept Ordered
PROPERTIES DrainsAndStops
CHECK_DEADLOCK FALSE
