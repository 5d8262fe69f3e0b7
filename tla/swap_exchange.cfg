SPECIFICATION Spec
CONSTANTS
  p1 = p1
  None = None
  DayLen = 8
  Ids = {1, 2}
  SwapIds = {1}
  XIds = {}
  Staff = {1, 2}
  Days = {1}
  Products = {p1}
  Workers = {w1}
  Crons = {}
  OwnerSeat = None
  AutoApprove = FALSE
  ExpireAfter = 0
  Starts = {1}
  MaxTime = 0
  Cap1 = 1
  Cap2 = 1
  Asked = {"ACCEPT", "APPROVE"}
  Answers = {TRUE}
  Direct = FALSE
  Both = {1}
  Traffic = {"SWAP", "PLACE"}
  Catalogue <- MCCatalogue
  CapacityOf <- MCCapacity
  Pattern <- MCPattern
  Holidays <- MCHolidays
  Spans <- MCSpans
INVARIANT PlanApplies
