SPECIFICATION FairSpec
CONSTANTS
  Streams = {0, 1}
  Tb <- MCTb
  LastFrame <- MCLastFrame
  AudioSets <- MCAudioSets
  Wrap = 16
  TsOffset = 1
  MaxPasses = 3
  Files <- MCFiles
  Loops <- MCLoops
  QueueSizes = {2}
INVARIANTS
  PassesInOrder
  TimesGrow
  DurationsArePaired
PROPERTIES
  CallsReturn
  StopEndsUnlessLooping
