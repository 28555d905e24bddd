\* The same instance: what ffmpeg_cleanup leaves for the next command.
SPECIFICATION Spec
CONSTANTS
  a1 = a1
  a2 = a2
  video = video
  again = again
  Activities = {a1, a2}
  MaxClicks = 3
  Downloads = {video, again}
  FileOf <- MCFileOf
  DirOf <- MCDirOf
  None = None
INVARIANT
  CountIsNumberOfElements
CHECK_DEADLOCK FALSE
