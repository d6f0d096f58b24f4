SPECIFICATION Spec
CONSTANTS
  w1 = w1
  w2 = w2
  InsertWorkers = {w1, w2}
  Times = {20, 25, 29}
  Div = 2
  Hour = 6
  MaxInMsp = 2
  GridLen = 8
  Wrap = 64
  Copies <- SomeCopies
  MaxPause = 1
  IvlEvery = 1
  MaxNow = 1
  MaxEvents = 3
SYMMETRY Symmetry
INVARIANTS InAnnouncedPartition PartitionIsLeft StoredIsFound
CHECK_DEADLOCK FALSE
