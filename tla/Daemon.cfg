SPECIFICATION Spec
CONSTANTS
  w1 = w1
  w2 = w2
  InsertWorkers = {w1, w2}
  InsertCap = 1
  HookCap = 1
  DaemonCap = 1
  SetCap = 1
  OutCap = 1
  MaxPosts = 1
  MaxItems = 1
  SetFails = TRUE
INVARIANT DrainedAtEnd
PROPERTIES SignalEndsDaemon SetErrorIsNoticed
CHECK_DEADLOCK FALSE
