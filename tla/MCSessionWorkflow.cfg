SPECIFICATION FairSpec
CONSTANTS
  m1 = m1
  m2 = m2
  m3 = m3
  t1 = t1
  t2 = t2
  Messages <- MCMessages
  ThreadOf <- MCThreadOf
  MaxIterations = 2
  MaxFaults = 1
CHECK_DEADLOCK FALSE
INVARIANTS NothingForgotten PausedAgrees
PROPERTIES ImplementsQueue CompletionStops MessagesTaken
