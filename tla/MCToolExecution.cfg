SPECIFICATION FairSpec
CONSTANTS
  c1 = c1
  c2 = c2
  m1 = m1
  m2 = m2
  ToolCalls = {c1, c2}
  Marvins = {m1, m2}
  MaxExecutions = 2
  MaxTargets = 2
  MaxConcurrent = 2
  AbsoluteMaxTargets = 2
  MaxAttempts = 2
  MaxParallel = 2
  MaxFaults = 1
INVARIANTS
  BudgetAccounting
  WithinLimits
  CompletedIsWhole
  QuiescentBudget
PROPERTIES
  ImplementsPool
  CallsSettle
CHECK_DEADLOCK FALSE
