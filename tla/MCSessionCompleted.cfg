SPECIFICATION Spec
CONSTANTS
  m1 = m1
  m2 = m2
  m3 = m3
  t1 = t1
  t2 = t2
  Messages <- MCMessages
  ThreadOf <- MCThreadOf
  MaxIterations = 2
  MaxFaults = 0
CHECK_DEADLOCK FALSE
PROPERTY CompletedIsFinal
