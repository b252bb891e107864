SPECIFICATION FairSpec
CONSTANTS
  Prefix <- MCPrefix
  Ids <- MCIds
  Routes <- MCRoutes
  NoRoute <- MCNoRoute
  Family <- MCFamily
  Configs <- StaleConfigs
  Catalogs <- MCCatalogs
  Callers = {p1, p2}
  Slots = {s1, s2}
  NoSlot = NoSlot
  NoCfg = NoCfg
  NoCaller = NoCaller
INVARIANT LastGoodServed
PROPERTIES CallsReturn RefreshGoesOn
