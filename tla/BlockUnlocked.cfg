SPECIFICATION Spec
CONSTANTS
  Threads = {gui, net}
  Unlocked = {net}
  MaxCalls = 3
INVARIANT StoppedWhileReconfigured
CHECK_DEADLOCK FALSE
