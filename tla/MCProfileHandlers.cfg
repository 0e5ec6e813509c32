\* Two users, two overlapping requests, four profile ids.
SPECIFICATION ProfileSpec
CONSTANTS
  Users = {u1, u2}
  ProfileIds = {p1, p2, p3, p4}
  LinkIds = {}
  ProfileRequests = {q1, q2}
  Names = {home}
  Unused = Unused
  Deleted = Deleted
  NoProfile = NoProfile
  NoUser = NoUser
  WatchedUser = u1
  MaxProfiles = 1
  MaxBlind = 1
SYMMETRY Symmetry
INVARIANTS FreeSlugHolds
PROPERTIES ProfileQuotaImplemented
