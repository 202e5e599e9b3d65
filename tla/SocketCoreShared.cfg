\* Two connections of one server.
SPECIFICATION Spec
CONSTANTS
  s1 = s1
  s2 = s2
  c1 = c1
  Sessions = {s1, s2}
  Cores = {c1}
  CoreOf <- SharedCore
  HEAD = 2
  BodySizes = {1}
  MaxPackets = 1
  Garbage <- AnySize
INVARIANT HeadInFront
CHECK_DEADLOCK FALSE
