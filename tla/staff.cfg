SPECIFICATION StaffSpec
CONSTANTS
  p1 = p1
  None = None
  DayLen = 8
  Ids = {1, 2}
  SwapIds = {1}
  XIds = {}
  Staff = {1, 2}
  Days = {1}
  Products = {p1}
  Workers = {w1, w2}
  Crons = {}
  OwnerSeat = None
  AutoApprove = FALSE
  ExpireAfter = 0
  Starts = {1}
  MaxTime = 0
  Cap1 = 2
  Cap2 = 1
  Asked = {"ACCEPT", "REJECT", "CANCEL", "APPROVE", "DENY"}
  Answers = {TRUE, FALSE}
  Direct = TRUE
  Both = {}
  Traffic = {"SWAP", "PLACE", "CANCEL"}
  Catalogue <- MCCatalogue
  CapacityOf <- MCCapacity
  Pattern <- MCPattern
  Holidays <- MCHolidays
  Spans <- MCSpans
SYMMETRY Symmetry
INVARIANTS NoOverbooking LeaveAsRanked
PROPERTIES ApprovalKeepsWork MovesAsAgreed
