SPECIFICATION Spec
CONSTANTS
  N = 2
  Half <- MCHalf
  Keys <- MCFewKeys
  Carriers <- MCFewCarriers
  Radius = 2
PROPERTIES StopReturns
