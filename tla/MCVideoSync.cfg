SPECIFICATION Spec
CONSTANTS
  Frame = 20
  Methods = {"vscfr", "cfr", "vfr", "drop", "passthrough"}
  Gaps <- MCGaps
  Durations = {10, 20, 40}
  DropBelow <- MCDropBelow
  MaxRepeat = 4
  Limits = {6, 100}
  MaxFrames = 5
INVARIANTS
  TimesGrow
  KeepsUp
