SPECIFICATION Spec
CONSTANT MaxFrames = 3
INVARIANTS FrameIntegrity NoLostWakeup
PROPERTIES StopReturns Implements
