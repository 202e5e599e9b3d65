SPECIFICATION FairQSpec
CONSTANTS
  Producers = {p1, p2}
  Nobody = Nobody
  NullMsg = NullMsg
  MaxPush = 3
INVARIANT CountExact
PROPERTIES ImplementsChannel EverythingPublished
CHECK_DEADLOCK FALSE
