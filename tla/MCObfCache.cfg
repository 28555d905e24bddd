SPECIFICATION FairSpec
CONSTANTS
  HookSeq <- MCHookSeq
  Obf <- MCObf
  Always <- MCAlways
  Rescans <- MCRescans
  Reloads <- MCReloads
  Filtered <- MCFiltered
  TakesFirst <- MCTakesFirst
  Loads <- MCLoads
  Names <- MCNames
  MaxVersion = 2
  ClassOf <- FreshNames
  Loadable <- FreshLoads
INVARIANTS
  RescanningHooksWork
  CacheKeepsLoaded
  RightClasses
PROPERTIES
  LoadingEnds
