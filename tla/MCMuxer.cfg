SPECIFICATION FairSpec
CONSTANTS
  o1 = o1
  o2 = o2
  Objs <- MCObjs
  NbStreams = 2
  QueueSize = 1
  PoolMax = 1
  InitCap = 1
  MaxQueue = 2
  Threshold = 1
  MaxPackets = 2
  MaxEofs = 1
INVARIANTS
  WrittenInOrder
  StatusIsTrue
  MuxingQueueBounded
  NothingLeft
PROPERTIES
  EveryCallReturns
