\* As many entries as ids, so that an entry is always free for a new user.
SPECIFICATION UsersSpec
CONSTANTS
  Uids = {0, 1, 2}
  s1 = s1
  s2 = s2
  Sessions = {s1, s2}
  NoSession = NoSession
  o1 = o1
  o2 = o2
  o3 = o3
  Objects = {o1, o2, o3}
INVARIANTS OneEntryPerUser EntriesPartitioned SessionsSurvive
PROPERTY ImplementsDirectory
