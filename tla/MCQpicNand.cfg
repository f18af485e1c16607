CONSTANTS
  CW = 2
  Unit = 2
  MaxMulti = 2
  MaxTo = 1
  Size = 6
  Blocks = 2
  CwSeen = {"data", "fixed", "weak", "lost", "fault"}
  EraseSeen = {"done", "operr"}
  Phases = 5
  Freqs = 3
  TrainBlks = 2
SPECIFICATION MCSpec
INVARIANTS
  MCTypeOK
  NoLossUnreported
  DeliversRequest
  FailedEraseMarked
  ReadyConfigured
  ReadyClock
CHECK_DEADLOCK FALSE
