SPECIFICATION BinSpec
CONSTANTS
  BinCount = 3
  PassLimit = 20
  OffMax = 2
  MaxReady = 7
  MaxBin = 16
INVARIANTS NoBinLost FoundUnlessJoined
CHECK_DEADLOCK FALSE
