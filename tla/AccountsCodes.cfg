SPECIFICATION MCSpec
CONSTANTS
  Ids = {u1, u2}
  n1 = n1
  a1 = a1
  a2 = a2
  p1 = p1
  p2 = p2
  d1 = d1
  None = None
  Names = {n1}
  Addresses = {a1, a2}
  Passwords = {p1, p2}
  Documents = {d1, Blank}
  Blank = Blank
  Roles = {"professor", "user", "author"}
  RequestableRoles = {"professor"}
  Codes = {k1}
  Tokens = {t1}
  OtpIsActive = TRUE
  NewUsers <- MCNewUsers
  Changes <- MCChanges
  MaxRequests = 3
  MaxPending = 3
SYMMETRY Symmetry
INVARIANT CodesExpire
