SPECIFICATION FairCenterSpec
CONSTANTS
  Tids = {100}
  Items = {i1}
  NoEntry = NoEntry
  Null = Null
  NoItem = NoItem
  Careless = FALSE
  MaxStarts = 1
  Peers = {p1, p2}
  Addresses = {a1, a2}
  NoPeer = NoPeer
  NoAddress = NoAddress
INVARIANT ListExact
PROPERTIES AnnouncedOnce ShutsDown EndedLeave BeatsAnswered
CHECK_DEADLOCK FALSE
