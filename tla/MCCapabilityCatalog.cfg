SPECIFICATION FairCatalogSpec
CHECK_DEADLOCK FALSE
CONSTANTS
  m1 = m1
  m2 = m2
  h1 = h1
  h2 = h2
  t1 = t1
  o1 = o1
  d1 = d1
  d2 = d2
  Marvins = {m1}
  Handlers = {h1, h2}
  Tasks = {t1}
  Editors = {o1}
  Descriptions = {d1, d2}
  Nothing = Nothing
  MaxRegistrations = 2
  MaxEdits = 1
  MaxFaults = 1
INVARIANTS
  SearchedIsCurrent
  RegistrationKept
PROPERTY EmbeddedAgain
