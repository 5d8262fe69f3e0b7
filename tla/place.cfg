SPECIFICATION PlaceSpec
CONSTANTS
  r1 = r1
  r2 = r2
  p1 = p1
  p2 = p2
  m1 = m1
  m2 = m2
  None = None
  Ids = {1, 2, 3}
  Customers = {c1, c2}
  WalkIn = walkin
  Managers = {m1, m2}
  Resources = {r1, r2}
  Products = {p1, p2}
  Workers = {w1, w2}
  Crons = {}
  ViewAll = {m1, m2}
  Unscheduled = {}
  Capacities = {}
  Starts = {1, 3}
  DayLen = 6
  MaxTime = 1
  Traffic = {"PLACE", "CHANGE"}
  Targets = {}
  Catalogue <- MCCatalogue
  MemberOf <- MCMemberOf
  InitCapacity <- MCCapacity
  Policy <- MCPolicy
SYMMETRY Symmetry
INVARIANTS NoOverbooking NoOverlapHolds ReplacedOnce ActiveLimit
