SPECIFICATION Spec
CHECK_DEADLOCK FALSE
CONSTANTS
  MaxMessages = 2
  MaxCalls = 2
  MaxAsked = 3
  MaxIterations = 2
  TokenLimit = 2
  MaxTokens = 2
  MaxFaults = 1
INVARIANTS
  ContextSound
  ToolsShownTruthfully
  
  OvershootBounded
