SPECIFICATION Spec
CONSTANTS
  Byte = {b0, b1}
  NoByte = b0
  Cap = 4
  MaxLen = 3
INVARIANTS RefusesOnlyWhenFull
PROPERTY ImplementsFifo
