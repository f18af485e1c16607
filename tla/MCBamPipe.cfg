CONSTANTS
  N = 4
  Bufs = {b1}
  NoBuf = NoBuf
  Flags <- MCFlags
  Sizes <- MCSizes
  Heap <- MCHeap
SPECIFICATION FairSpec
INVARIANTS
  RingAgrees
PROPERTIES
  CompletionIsTrue
  CallReturns
  ImplementsQueue
CHECK_DEADLOCK FALSE
