SPECIFICATION ChainSpec
CONSTANTS
  Blocks = {b1, b2, b3}
  Sources = {s1, s2}
INVARIANTS Wired OneReader RunsEnabled NoFeedback
