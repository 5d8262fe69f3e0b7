SPECIFICATION ConsoleSpec
CONSTANTS
  r1 = r1
  r2 = r2
  none = none
  any = any
  sa = sa
  sb = sb
  sc = sc
  c1 = c1
  c2 = c2
  None = none
  Whichever = any
  Nothing = Nothing
  NoForm = NoForm
  Resources = {r1, r2}
  DayLen = 4
  MaxSpan = 2
  Booked <- MCBooked
  Actors <- MCActors
  PageLimit = 1
  PastLimit = 1
  First <- MCFirst
  Drafts <- MCDrafts
  Windows <- MCWindows
  Dates <- MCDates
  MaxMoves = 3
  MaxChanges = 1
  MaxEdits = 1
  Cells = {c1, c2}
  OwnCells = {c1}
  Roles = {"OWNER", "MANAGER"}
  XIds = {1, 2}
  Spans = {1, 2}
  MaxPresses = 3
  MaxOthers = 1
  Catalogue <- MCCatalogue
  Stored <- MCStored
  BusinessHours = {"biz", "same"}
  Hours = {"biz", "own"}
  Durations = {1, 2}
  Times = {1, 2}
  Sizes = {1, 2, 4}
  SameHours = "same"
  MaxImages = 2
  MaxTimes = 2
  MaxOptions = 2
  MaxStrokes = 3
CHECK_DEADLOCK FALSE
INVARIANTS PagesComplete DetailTrue DaysAgree ApprovedAsShown ConfirmedAsAsked
