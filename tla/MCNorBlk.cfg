CONSTANTS
  E = 3
  L = 9
  MaxCalls = 2
  Erased = 0
  Data <- MCData
  Factory <- MCOld
  Calls <- MCCalls
  Versions = {1, 2}
  Place <- MCPlace
  Boards <- MCBoards
  Given <- MCGiven
  MaxCommands = 3
  Depth = 2
  Width = 2
  Lengths = {3, 6}
  WordLens = {8, 12}
  Polls = 3
  MaxXfers = 2
SPECIFICATION MCSpec
INVARIANTS
  MCTypeOK
  WritesExactly
  OneBlockAtRisk
  StrayLosesNothing
  FlashHonest
  TablesSurvive
  XferTruth
PROPERTIES
  RawNotAttached
CHECK_DEADLOCK FALSE
