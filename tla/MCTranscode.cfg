SPECIFICATION FairSpec
CONSTANTS
  InFiles = {1, 2}
  Ists = {1, 2, 3}
  FileOf <- MCFileOf
  Contents <- MCContents
  OutFiles = {1, 2}
  Outs = {1, 2, 3, 4}
  OutFile <- MCOutFile
  Copies = {3, 4}
  Source <- MCSource
  Graphs = {"video", "mix"}
  Inputs <- MCInputs
  GraphOf <- MCGraphOf
  Audio = {2}
  Eager = {"video"}
  Latency <- MCLatency
  DecDelay = 1
  EncDelay = 1
  Limits <- MCLimits
  Known = {1, 2}
INVARIANTS
  NothingLost
  CompleteAtEnd
  CopiesStayTogether
  FinishedIsInitialized
  OutputsEnd
PROPERTIES
  LoopEnds
