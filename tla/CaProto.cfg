SPECIFICATION Spec
CONSTANTS
  HeadLen = 2
  ExtLen = 1
  MaxStd = 3
  ExtMark = 4
  DoneNeed = 3
  BufCap = 7
  OutLen = 4
  MaxOut = 2
  SockCap = 3
  Kinds <- SomeKinds
  MaxMsgs = 2
INVARIANTS FramingKept SleepsOnlyWaiting
PROPERTIES InputGetsThrough OutputGetsThrough
CHECK_DEADLOCK FALSE
