SPECIFICATION Spec
CONSTANTS
  Upstreams = {"chat", "messages", "responses"}
  Sources = {"openai", "claude", "openai-response"}
  Requests <- MCRequests
  Plain <- MCPlain
  Usages <- MCUsages
  Interleavings = {TRUE, FALSE}
  MaxItems = 3
  MaxCalls = 2
  MaxText = 2
INVARIANTS
  TypeOK
  ClientAccepts
  ReasonHonest
  EndsWithTerminal
  UsageKept
  ModeParity
  IdentityRestored
  ToolNamesRoundTrip
  
PROPERTY ContractKept
CHECK_DEADLOCK FALSE
