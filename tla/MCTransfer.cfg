\* Two requests at once and two in all; one failure or crash.
SPECIFICATION TransferSpec
CONSTANTS
  a = a
  b = b
  Requests = {r1, r2}
  MaxServed = 2
  MaxTime = 1
  MaxFailures = 1
  Users = {u1}
  Names = {a, b}
  InvalidSlug = InvalidSlug
  NoSlug = NoSlug
  MaxProfiles = 2
  MaxLinks = 3
  Documents <- Files
SYMMETRY Symmetry
INVARIANTS JobsAccountFor PositionsApart
PROPERTIES ProfileQuotaKept
