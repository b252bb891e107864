SPECIFICATION Spec
CONSTANTS
  Prefix <- MCPrefix
  Ids <- MCIds
  Routes <- MCRoutes
  NoRoute <- MCNoRoute
  Family <- MCFamily
  Configs <- SwitchConfigs
  Catalogs <- ChatCatalog
  Callers = {p1}
  Slots = {s1, s2}
  NoSlot = NoSlot
  NoCfg = NoCfg
  NoCaller = NoCaller
INVARIANT LastGoodServed
