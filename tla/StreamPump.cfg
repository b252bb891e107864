SPECIFICATION FairSpec
CONSTANTS
  MaxResponseBytes = 2
  MaxEvents = 3
INVARIANTS TypeOK UpstreamReleased DrainCoversPump
PROPERTIES ContractKept PumpEnds  HandlerReturns
CHECK_DEADLOCK FALSE
