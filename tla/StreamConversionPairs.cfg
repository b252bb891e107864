SPECIFICATION Spec
CONSTANTS
  Upstreams = {"responses"}
  Sources = {"claude"}
  Requests <- MCRequests
  Plain <- MCPlain
  Usages <- MCUsages
  Interleavings = {TRUE}
  MaxItems = 3
  MaxCalls = 2
  MaxText = 2
INVARIANT BlocksPaired
CHECK_DEADLOCK FALSE
