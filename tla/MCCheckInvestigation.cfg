SPECIFICATION FairSpec
CHECK_DEADLOCK FALSE
CONSTANTS
  i1 = i1
  i2 = i2
  Investigations = {i1, i2}
  MaxFaults = 1
INVARIANTS
  RowsAccountedFor
  RecoveryNotified
  CooldownHeld
PROPERTIES
  InvestigationsEnd
