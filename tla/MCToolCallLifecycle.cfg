SPECIFICATION Spec
CONSTANTS
  c1 = c1
  c2 = c2
  m1 = m1
  m2 = m2
  ToolCalls = {c1, c2}
  Marvins = {m1}
  MaxExecutions = 3
  MaxTargets = 2
  MaxConcurrent = 2
  AbsoluteMaxTargets = 1
  MaxAttempts = 2
  MaxParallel = 2
  MaxFaults = 0
PROPERTY ToolCallLifecycle
CHECK_DEADLOCK FALSE
