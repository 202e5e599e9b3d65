SPECIFICATION ServerSpec
CONSTANTS
  Uids = {0, 1, 2}
  s1 = s1
  s2 = s2
  s3 = s3
  Sessions = {s1, s2}
  NoSession = NoSession
  o1 = o1
  o2 = o2
  o3 = o3
  Objects = {o1, o2, o3}
  NoOne = NoOne
  MaxRequests = 1
INVARIANT LiveUsersActive
CHECK_DEADLOCK FALSE
