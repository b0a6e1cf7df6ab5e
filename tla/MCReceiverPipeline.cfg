SPECIFICATION FairSpec
CHECK_DEADLOCK FALSE
CONSTANTS
  MaxEvents = 3
  MaxOpen = 2
  MaxActive = 1
  MaxAttempts = 2
  MaxFaults = 1
INVARIANTS
  NoSecondInvestigation
  SuppressedByLive
  SuppressedIsCovered
  LimitHeldUnlessRaced
  OutcomeRecorded
PROPERTIES
  AdmissionsEnd
