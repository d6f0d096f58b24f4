SPECIFICATION Spec
CONSTANTS
  Channels = {c1, c2}
  Addrs = {a1, a2}
  NoAddr = NoAddr
  QueueCap = 3
  LookupCap = 1
  SearchCap = 1
  CmdCap = 1
  OutCap = 1
  InputBound <- SafeInputs
  Lossy = TRUE
SYMMETRY Symmetry
INVARIANTS EosAccountsForEnd AddedOnceWhereKnown ShutdownReachesEveryConn StandstillCauses
PROPERTIES FailsOnlyByEosRace RemovalIsFinal
CHECK_DEADLOCK FALSE
