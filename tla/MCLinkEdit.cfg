\* Two overlapping requests on three links, more than the limit allows; each
\* statement may fail, one COUNT included.
SPECIFICATION LinkSpec
CONSTANTS
  Users = {u1}
  ProfileIds = {p1}
  LinkIds = {l1, l2, l3}
  Requests = {r1, r2}
  Unused = Unused
  Deleted = Deleted
  NoProfile = NoProfile
  Watched = p1
  MaxLinks = 2
  MaxReorder = 2
  MaxBlind = 1
SYMMETRY Symmetry
INVARIANTS LinkLimitOvershootBounded PositionsDistinctWhenCalm
PROPERTIES LinkQuotaImplemented RenumberIsDense NoLostUpdateWhenFresh
