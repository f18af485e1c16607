CONSTANTS
  CW = 2
  Unit = 2
  MaxMulti = 2
  MaxTo = 1
  Size = 6
  Blocks = 2
  CwSeen = {"data"}
  EraseSeen = {"done", "operr", "failbit"}
  Phases = 5
  Freqs = 3
  TrainBlks = 2
SPECIFICATION MCSpec
INVARIANTS
  FailedEraseMarked
CHECK_DEADLOCK FALSE
