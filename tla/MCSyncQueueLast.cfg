SPECIFICATION Spec
CONSTANTS
  NbStreams = 2
  Options <- OnlyLast
  Tb <- OneTb
  DefaultTb = 2
  BufSize = 2
  Frames <- MCMore
  MaxFrames = 3
INVARIANTS
  NoOtherIsLonger
