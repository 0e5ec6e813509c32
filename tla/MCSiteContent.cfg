\* Two users and their profiles; a profile is deleted, and a user too, under two
\* overlapping requests about the links of both profiles.
SPECIFICATION Spec
CONSTANTS
  Users = {u1, u2}
  ProfileIds = {p1, p2}
  LinkIds = {l1}
  Requests = {r1, r2}
  ProfileRequests = {q1}
  Names = {home}
  Unused = Unused
  Deleted = Deleted
  NoProfile = NoProfile
  NoUser = NoUser
  Watched = p1
  WatchedUser = u1
  AdminRoutes = TRUE
  MaxLinks = 1
  MaxProfiles = 1
  MaxReorder = 1
  MaxBlind = 0
SYMMETRY Symmetry
PROPERTIES DeletedProfileIsClosed
