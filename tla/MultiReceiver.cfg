SPECIFICATION Spec
CONSTANTS
  N = 2
  Half <- MCHalf
  Keys <- MCKeys
  Carriers <- MCCarriers
  Radius = 2
INVARIANTS SlotsAgree Heard PendingTracked Distinct
PROPERTIES EndsForAReason NeverMoved
