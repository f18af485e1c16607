CONSTANTS
  RxSize = 4
  TxSize = 2
  RxFrames = {f1, f2}
  TxFrames = {}
  NoFrame = NoFrame
  NoBuf = NoBuf
  Kinds <- MCMixed
  Boards <- MCBoards
  Speeds = {10, 1000, 2500}
  All = All
  NotRead = NotRead
  Phys = {1, 4}
  LinkEn = {4}
  PhySpeeds = {10, 100, 1000, 2500}
  Unknown = Unknown
  NeverRead = NeverRead
SPECIFICATION MCFairSpec
INVARIANTS
  NextBufferIsFree
  PortsFollowLinks
  ClocksFollowLinks
PROPERTIES
  ReceivesInOrder
  GoodFrameHandled
