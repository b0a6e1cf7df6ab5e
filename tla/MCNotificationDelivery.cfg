SPECIFICATION FairSpec
CHECK_DEADLOCK FALSE
CONSTANTS
  n1 = n1
  n2 = n2
  c1 = c1
  c2 = c2
  Notifications = {n1, n2}
  Channels = {c1, c2}
  RoutesOf <- MCRoutesOf
  MaxAttempts = 2
  MaxFaults = 2
INVARIANTS
  SentOnce
  OneOpenPerWindow
  RowsTellTheTruth
  StrandedOnlyByEarlyStart
PROPERTIES
  StartedEnds
