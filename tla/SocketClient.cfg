\* Both threading builds, handlers that break the loop and handlers that do not.
SPECIFICATION FairClientSpec
CONSTANTS
  Tids = {100}
  Items = {i1, i2}
  NoEntry = NoEntry
  Null = Null
  NoItem = NoItem
  Careless = FALSE
  MaxStarts = 1
INVARIANTS PointersAtUse BrokenStaysEnded
PROPERTIES DisconnectFinal LoopGivesUp BeatsWhileUp
CHECK_DEADLOCK FALSE
