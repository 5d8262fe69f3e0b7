SPECIFICATION FairSpec
CONSTANTS
  m1 = m1
  m2 = m2
  r1 = r1
  r2 = r2
  p1 = p1
  None = None
  Ids = {1, 2}
  Customers = {c1}
  WalkIn = walkin
  Managers = {m1, m2}
  Resources = {r1, r2, r3}
  Products = {p1}
  Workers = {w1, w2}
  Crons = {}
  r3 = r3
  Elsewhere = {r3}
  Cap1 = 1
  Cap2 = 2
  AutoConfirm = FALSE
  MaxActive = 2
  Deadline = 1
  ViewAll = {m1, m2}
  Unscheduled = {}
  Capacities = {}
  Starts = {1}
  DayLen = 4
  MaxTime = 0
  Traffic = {"PLACE", "MANAGER", "OWNER", "REASSIGN", "CUSTOMER", "CHANGE", "CRASH"}
  Targets = {"CONFIRMED", "CANCELED_BY_USER"}
  Catalogue <- MCCatalogue
  MemberOf <- MCMemberOf
  InitCapacity <- MCCapacity
  Policy <- MCPolicy
INVARIANT AdvisoryLocksAcyclic
PROPERTIES EveryChangeLogged ImplementsLedger RequestsFinish
