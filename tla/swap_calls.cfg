SPECIFICATION CallsSpec
CONSTANTS
  p1 = p1
  None = None
  DayLen = 8
  Ids = {1}
  SwapIds = {1, 2}
  XIds = {}
  Staff = {1, 2}
  Days = {1}
  Products = {p1}
  Workers = {w1, w2}
  Crons = {k1}
  OwnerSeat = 1
  AutoApprove = TRUE
  ExpireAfter = 0
  Starts = {}
  MaxTime = 1
  Cap1 = 1
  Cap2 = 1
  Asked = {"ACCEPT", "APPROVE"}
  Answers = {TRUE}
  Direct = FALSE
  Both = {1}
  Traffic = {"SWAP"}
  Catalogue <- MCCatalogue
  CapacityOf <- MCCapacity
  Pattern <- MCPattern
  Holidays <- MCHolidays
  Spans <- MCSpans
CHECK_DEADLOCK FALSE
PROPERTY CallsFinish
