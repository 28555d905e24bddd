SPECIFICATION Spec
CONSTANTS
  main = main
  other = other
  mux = mux
  a = a
  b = b
  o1 = o1
  o2 = o2
  o3 = o3
  Blank = Blank
  NbStreams = 2
  QueueSize = 2
  PoolMax = 1
  MaxItems = 4
  Senders <- MCSenders
  Owner <- MCOwner
  Receiver = mux
  Items <- MCItems
  Objs <- MCObjs
SYMMETRY Symmetric
INVARIANTS
  InOrder
  ObjectsNotShared
  EofOnceAndLast
  DoneIsFinal
  NoMissedWakeup
  NoWriteBehindFinish
PROPERTIES
  ImplementsChannel
