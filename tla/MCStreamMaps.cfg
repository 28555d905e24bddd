SPECIFICATION Spec
CONSTANTS
  InputSets <- MCInputs
  GraphSets <- MCGraphs
  OutputSets <- MCOutputs
  Bonus = 10
  NewBonus = 100
INVARIANTS
  EverythingIsConnected
  MapsAreObeyed
  BestIsTaken
CHECK_DEADLOCK FALSE
