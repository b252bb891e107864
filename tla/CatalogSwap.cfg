SPECIFICATION Spec
CONSTANTS
  Prefix <- MCPrefix
  Ids <- MCIds
  Routes <- MCRoutes
  NoRoute <- MCNoRoute
  Family <- MCFamily
  Configs <- MCConfigs
  MaxEntries = 4
INVARIANTS IndexNames FirstInCatalogOrderWins NothingVanishes CollisionsAreReal
PROPERTY KeysNeverMove
CHECK_DEADLOCK FALSE
