\* Two requests at once and three in all; one failure or crash.  Two moments make
\* an hour, so that a cleanup can delete the first half of one.  A summary shows
\* one link of two.  One visitor leaves two hashes: the handlers' and the service's.
SPECIFICATION Spec
CONSTANTS
  Requests = {r1, r2}
  MaxServed = 3
  MaxTime = 2
  MaxFailures = 1
  Users = {u1, u2}
  ShortIds = {i1, i2}
  Codes = {c1}
  Never = Never
  Visitors = {v1}
  Links = {l1, l2}
  NoLink = NoLink
  PerHour = 2
  TopLinks = 1
  Agent <- Tablets
  Sessions = {s1}
  NoRow = NoRow
  Retention = 0
  DefaultRetention = 1
SYMMETRY Symmetry
INVARIANTS ClicksAreFollowers CountersAgree ReportsAddUp HourlyExact
PROPERTIES OnlyOwnersDelete
