CONSTANTS
  MaxVersion = 1
  Torn = Torn
  NoInfo = NoInfo
  Images <- MCImages
  Installed = {0, 9, 10}
  MaxChecks = 2
  NoImage = NoImage
  Core = {1, 2, 3}
  UpWait = 2
  OffWait = 2
  MaxCalls = 2
SPECIFICATION MCSpec
INVARIANTS
  PrimaryByDefault
