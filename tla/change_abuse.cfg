SPECIFICATION Spec
CONSTANTS
  m1 = m1
  m2 = m2
  r1 = r1
  r2 = r2
  p1 = p1
  None = None
  Ids = {1, 2, 3}
  Customers = {c1}
  WalkIn = walkin
  Managers = {m1, m2}
  Resources = {r1}
  Products = {p1}
  Workers = {w1}
  Crons = {}
  Elsewhere = {}
  Cap1 = 1
  Cap2 = 2
  AutoConfirm = FALSE
  MaxActive = 1
  Deadline = 1
  ViewAll = {m1, m2}
  Unscheduled = {}
  Capacities = {}
  Starts = {1, 2}
  DayLen = 4
  MaxTime = 1
  Traffic = {"PLACE", "CHANGE", "CUSTOMER"}
  Targets = {"CANCELED_BY_USER"}
  Catalogue <- MCCatalogue
  MemberOf <- MCMemberOf
  InitCapacity <- MCCapacity
  Policy <- MCPolicy
INVARIANT ChangeIsNoCancel
