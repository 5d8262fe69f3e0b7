SPECIFICATION FairSpec
CONSTANTS
  m1 = m1
  m2 = m2
  r1 = r1
  r2 = r2
  p1 = p1
  None = None
  Ids = {1, 2}
  Customers = {c1}
  WalkIn = walkin
  Managers = {m1, m2}
  Resources = {r1, r2}
  Products = {p1}
  Workers = {w1}
  Crons = {k1}
  Elsewhere = {}
  Cap1 = 1
  Cap2 = 2
  AutoConfirm = TRUE
  MaxActive = 1
  Deadline = 1
  ViewAll = {m1, m2}
  Unscheduled = {r2}
  Capacities = {}
  Starts = {1}
  DayLen = 4
  MaxTime = 4
  Traffic = {"PLACE", "OWNER", "SHELF", "EXPIRE", "NOSHOW"}
  Targets = {"CONFIRMED", "COMPLETED", "NO_SHOW"}
  Catalogue <- MCCatalogue
  MemberOf <- MCMemberOf
  InitCapacity <- MCCapacity
  Policy <- MCPolicy
PROPERTY RequestsExpire
