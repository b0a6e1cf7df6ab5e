SPECIFICATION FairSpec
CONSTANTS
  Connections = {c1, c2, c3}
  Commands = {k1}
  NoStream = NoStream
  MaxCrashes = 1
INVARIANTS MapExact
PROPERTIES CommandsSettle OnlineAgain OfflineAgain
CHECK_DEADLOCK FALSE
