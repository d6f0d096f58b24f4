SPECIFICATION ZmtpSpec
CONSTANTS
  Need <- Needs
  PutLen <- Puts
  PingMin = 2
  PingMax = 3
  PingRoom = 2
  BufCap = 6
  SockCap = 2
  Streams <- SomeStreams
  Rejects = {"none", "InitRecv2"}
INVARIANT MessagesWhole
PROPERTY FramesGetThrough
CHECK_DEADLOCK FALSE
