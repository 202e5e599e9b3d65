SPECIFICATION FairPairSpec
CONSTANTS
  Release = FALSE
  Capacity = 5
INVARIANT NotBothBlocked
PROPERTIES Exchange
