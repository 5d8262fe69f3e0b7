SPECIFICATION BusinessSpec
CONSTANTS
  x1 = x1
  x2 = x2
  u1 = u1
  u2 = u2
  e1 = e1
  e2 = e2
  g1 = g1
  g2 = g2
  r1 = r1
  r2 = r2
  p1 = p1
  p2 = p2
  None = None
  Bizs = {x1, x2}
  Users = {u1, u2}
  Emails = {e1, e2}
  Regs = {g1, g2}
  Resvs = {r1, r2}
  Procs = {p1, p2}
  MaxAttempts = 2
  MaxTokens = 2
  MaxStarts = 2
  Kinds = {"APPLY", "RESEND", "VERIFY", "DECIDE", "STATUS", "BOOK"}
  Businesses = {"b1", "b2"}
  Addresses = {"t1", "t2", "v", "w", "x", "y"}
  Temp <- MCTemp
  Visited = {"x", "y"}
  Reserved = {}
  Products = {"p1"}
  Resources = {"r1"}
  OwnerOf <- MCOwnerOf
  Callers = {"c1", "c2"}
  SlugChanges = 3
  MaxCalls = 4
  MaxEdits = 1
INVARIANTS OneBusinessPerOwner AttemptsBounded BlockCancelsListed AddressesLimited LinksStay
PROPERTIES DecidedOnce LinksRecover
