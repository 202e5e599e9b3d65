\* Two connections with a core each; a head of two bytes, so that it can be cut.
SPECIFICATION FairSpec
CONSTANTS
  s1 = s1
  s2 = s2
  Sessions = {s1, s2}
  Cores = {s1, s2}
  CoreOf <- OwnCore
  HEAD = 2
  BodySizes = {0, 1}
  MaxPackets = 2
  Garbage <- AnySize
INVARIANTS PacketsIntact LengthCurrent NothingStranded
PROPERTIES ImplementsStream EverythingDelivered
CHECK_DEADLOCK FALSE
