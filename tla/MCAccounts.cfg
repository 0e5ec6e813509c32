\* Two requests at once for two addresses; a statement may fail or the process die.
SPECIFICATION Spec
CONSTANTS
  Users = {u1, u2}
  Names = {a1, a2}
  Emails = {a1, a2}
  Passwords = {w1}
  Roles = {"user", "viewer"}
  Requests = {r1, r2}
  Tokens = {t1, t2}
  NoAccount = NoAccount
  NoUser = NoUser
  NoName = NoName
  NoPassword = NoPassword
  NoToken = NoToken
  MailEnabled = TRUE
  AdminRoutes = TRUE
  MaxFailures = 1
  MaxChanges = 1
  MaxUses = 3
SYMMETRY Symmetry
INVARIANTS FreeNameHolds ResetReuseBounded VerificationReachable
PROPERTIES SignedInWhenEligible ResetLinkKept
