SPECIFICATION Spec
CONSTANTS
  NbStreams = 3
  Options <- MCOptions
  Tb <- ThreeTb
  DefaultTb = 2
  BufSize = 2
  Frames <- MCFrames
  MaxFrames = 2
INVARIANTS
  NoOtherIsLonger
  HeadIsSmallest
  EndIsShared
  NothingHeldBack
