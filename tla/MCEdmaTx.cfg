CONSTANTS
  RxSize = 2
  TxSize = 4
  RxFrames = {f1}
  TxFrames = {f1, f2}
  NoFrame = NoFrame
  NoBuf = NoBuf
  Kinds <- MCMixed
SPECIFICATION FairSpec
PROPERTIES
  SendsInOrder
  BusyPasses
  BuffersReturn
