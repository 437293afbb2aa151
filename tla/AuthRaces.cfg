SPECIFICATION Spec
CONSTANTS
  NoAccount = NoAccount
  e1 = e1
  e2 = e2
  r1 = r1
  r2 = r2
  p1 = p1
  p2 = p2
  Emails = {e1, e2}
  Passwords = {p1, p2}
  Roles <- MCRoles
  Requests = {r1, r2}
  VERIFICATION_TOKEN_EXPIRY_HOURS = 1
  PASSWORD_RESET_EXPIRY_HOURS = 1
  JWT_EXPIRES_IN = 1
  MaxNumber = 3
  MaxClock = 2
  MaxSessions = 2
SYMMETRY AuthSymmetry
CHECK_DEADLOCK FALSE
INVARIANT TypeOK
INVARIANT SessionsStayValid
INVARIANT LinksAreInTheMailbox
INVARIANT CompaniesHaveAnAccount
PROPERTY AccountsChangeByLink
PROPERTY OldLinksStayDead
