SPECIFICATION FairSpec
CONSTANTS
  Channels = {c1, c2}
  Addrs = {a1}
  NoAddr = NoAddr
  QueueCap = 8
  LookupCap = 4
  SearchCap = 2
  CmdCap = 4
  OutCap = 1
  InputBound <- LiveInputs
  Lossy = FALSE
PROPERTIES ShutdownCompletes ConnsEnd ChannelGetsPlaced
CHECK_DEADLOCK FALSE
