SPECIFICATION FairTimerSpec
CONSTANTS
  Tids = {1, 2}
  Items = {i1, i2, i3}
  NoEntry = NoEntry
  Null = Null
  NoItem = NoItem
  Careless = FALSE
  MaxStarts = 3
INVARIANTS TableExact NoNullEntry ItemAtUse
PROPERTIES FiresForever
CHECK_DEADLOCK FALSE
