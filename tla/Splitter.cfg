SPECIFICATION Spec
CONSTANTS
  Inputs = {s1, s2}
  Consumers = {c1, c2, c3}
  MaxBlocks = 2
  MaxChanges = 5
INVARIANTS LossBounded
PROPERTIES ImplementsFanOut CallsReturn Drains NoRepeat CompleteUnlessCancelled
CHECK_DEADLOCK FALSE
