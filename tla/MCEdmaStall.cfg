CONSTANTS
  RxSize = 2
  TxSize = 2
  RxFrames = {f1}
  TxFrames = {f1}
  NoFrame = NoFrame
  NoBuf = NoBuf
  Kinds <- MCAll
SPECIFICATION FairSpec
PROPERTIES
  HeadMovesOn
