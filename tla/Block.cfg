SPECIFICATION Spec
CONSTANTS
  Threads = {gui, net}
  Unlocked = {}
  MaxCalls = 8
INVARIANTS StoppedWhileReconfigured NeverTerminates AliveIffRunning
PROPERTY CallsReturn
CHECK_DEADLOCK FALSE
