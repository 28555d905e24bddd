\* Two activities, three voices, two downloads of one video.
SPECIFICATION Spec
CONSTANTS
  a1 = a1
  a2 = a2
  video = video
  again = again
  Activities = {a1, a2}
  MaxClicks = 3
  Downloads = {video, again}
  FileOf <- MCFileOf
  DirOf <- MCDirOf
  None = None
INVARIANTS
  LastChoiceIsSentLast
  SentFileIsKept
  AloneIsWhole
  LeftOversAreFailures
SYMMETRY Symmetry
CHECK_DEADLOCK FALSE
