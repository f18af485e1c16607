CONSTANTS
  W = 2
  P = 2
  B = 5
  ListSize = 1
  MaxUnits = 12
  Sizes <- MCSizes
  Limit = 4
  Boards <- MCBoards
  Lists <- MCLists
  Reserved = {5, 12, 20}
  Header = Header
  Pad = Pad
  Old = Old
  Blank = Blank
  Garbled = Garbled
SPECIFICATION MCSpec
PROPERTIES
  BadBlocksSkipped
CHECK_DEADLOCK FALSE
