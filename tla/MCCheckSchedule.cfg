SPECIFICATION ScheduleSpec
CHECK_DEADLOCK FALSE
CONSTANTS
  p1 = p1
  p2 = p2
  p3 = p3
  x = x
  y = y
  bad = bad
  Requests = {p1, p2, p3}
  Expressions = {x, y, bad}
  Invalid = {bad}
  MaxFailures = 1
  NoCheck = NoCheck
  NoSchedule = NoSchedule
SYMMETRY Symmetry
INVARIANTS
  DriftExplained
  DeletedLeavesNothing
