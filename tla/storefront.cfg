SPECIFICATION StorefrontSpec
CONSTANTS
  c1 = c1
  c2 = c2
  p1 = p1
  r1 = r1
  r2 = r2
  any = any
  none = none
  lesson = lesson
  haircut = haircut
  room = room
  Callers = {c1, c2}
  NoCall = none
  Products = {p1}
  Resources <- MCResources
  AnyResource = any
  Exceptions <- MCExceptions
  DayLen = 4
  WeekLen = 2
  MonthLen = 3
  YearLen = 6
  Forever = 99
  Lead = 0
  Advance = 1
  InitHours <- Night
  HoursForms <- MCHoursForms
  InitProduct <- Lesson
  ProductForms <- MCProductForms
  InitRows <- NoRows
  PatternForms <- MCPatternForms
  HolidayForms <- MCHolidayForms
  Parties = {1, 2}
  Starts = {2, 3, 6}
  Clock = {0, 4}
  MaxTime = 7
  MaxStarts = 3
  MaxBookings = 2
  Catalogue <- MCCatalogue
  Seats <- MCSeats
  Dates <- MCDates
  PerDate = 2
  None = none
  Changes = {FALSE, TRUE}
  MaxMoves = 5
  MaxOthers = 1
  MaxTokens = 1
  ANY_RESOURCE = any
SYMMETRY Symmetry
INVARIANTS KeptInHours ShownAnswersAsked OrderAsPicked
PROPERTIES VerifiedIsFree LoweringFits PatternGoverns
