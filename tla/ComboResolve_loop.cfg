CONSTANTS
  Combos = {"a","b","c","d","e"}
  AliasNames = {}
  Served = {"m","n"}
  Gone = {"g"}
  ComboDepthLimit = 16
  ComboExpansionLimit = 256
  AliasHopLimit = 8
  Graphs <- LoopingNames
SPECIFICATION Spec
INVARIANT RoutableNeverRefused
CHECK_DEADLOCK FALSE
