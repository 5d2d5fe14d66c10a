SPECIFICATION Spec
CONSTANTS
  Sources = {1, 2, 3}
  Banks = {b1, b2}
  Pool <- MCPool
INVARIANTS LeasesHeld Accounted
PROPERTY Independent
