SPECIFICATION FairSpec
CONSTANTS
  c1 = c1
  c2 = c2
  Channels = {c1, c2}
  CmdCap = 2
  LookupCap = 1
  NetCap = 1
  AddBound <- Adds
  RepeatBound = 1
INVARIANTS NeverUnwrapsNone InitCountExact LookupAnswersItsChannel DataYieldedBeforeEnd
PROPERTIES ImplementsStream ChannelsAnnounced
CHECK_DEADLOCK FALSE
