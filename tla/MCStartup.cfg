CONSTANTS
  srv4 = srv4
  old4 = old4
  srv6 = srv6
  old6 = old6
  Prefix4 <- MCPrefix4
  Prefix6 <- MCPrefix6
  Foreign4 <- MCForeign4
  Foreign6 <- MCForeign6
  NoPrefix = NoPrefix
  MaxFaults = 2
SPECIFICATION LiveSpec
INVARIANTS
  ListeningIsConfigured
  CheckIsExact
  DispatcherLossIsNoticed
  StartsConverge
PROPERTIES
  ComesUpConfigured
  Recovers
