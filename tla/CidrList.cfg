SPECIFICATION Spec
CONSTANTS
  W = 4
  NetworkLists <- MCNetworkLists
  ExcludeLists <- MCExcludeLists
INVARIANTS
  WalkIsSound
  WalkIsComplete
PROPERTIES
  WalkEnds
  WalkAdvances
