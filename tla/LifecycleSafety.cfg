SPECIFICATION Spec
CONSTANTS
  Prefix <- MCPrefix
  Ids <- MCIds
  Routes <- MCRoutes
  NoRoute <- MCNoRoute
  Family <- MCFamily
  Configs <- AllConfigs
  Catalogs <- MCCatalogs
  Callers = {p1, p2}
  Slots = {s1, s2, s3}
  NoSlot = NoSlot
  NoCfg = NoCfg
  NoCaller = NoCaller
SYMMETRY Symmetry
INVARIANTS TypeOK LoopOwned QuietWhenDown FailClosed ServesOwnConfig
