SPECIFICATION Spec
CONSTANTS
  Threads = {gui, net}
  Paths <- AnyPath
  MaxEdits = 3
  MaxCrashes = 2
INVARIANTS NoLostChange NeverPartial CleanExit
PROPERTIES SavedEventually ExitReturns
CHECK_DEADLOCK FALSE
