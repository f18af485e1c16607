CONSTANTS
  N = 4
  Bufs = {b1}
  NoBuf = NoBuf
  Flags <- MCFlags
  Sizes <- MCSizes
  Heap <- MCHeap
SPECIFICATION Spec
PROPERTIES
  WaitMeansProcessed
CHECK_DEADLOCK FALSE
