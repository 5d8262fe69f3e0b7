SPECIFICATION PeopleSpec
CONSTANTS
  b1 = b1
  b2 = b2
  u1 = u1
  u2 = u2
  m1 = m1
  m2 = m2
  s1 = s1
  s2 = s2
  q1 = q1
  q2 = q2
  v1 = v1
  v2 = v2
  w1 = w1
  w2 = w2
  None = None
  Bizs = {b1}
  Users = {u1, u2}
  Members = {m1, m2}
  Staff = {s1, s2}
  Procs = {q1, q2}
  MaxTokens = 2
  MaxStarts = 3
  Kinds = {"INVITE", "RESEND", "ACCEPT", "DEACTIVATE", "ACTIVATE", "CREATE", "UPDATE", "REMOVE", "SWITCH"}
  Resv = {v1, v2}
  WalkIns = {}
  Handlers <- MCHandlers
  Tokens = {}
  Starts = {4}
  Prefs = {{"push", "email"}}
  Events = {"CONFIRMED", "CANCELED_BY_USER"}
  Jobs = {q1, q2}
  Writers = {w1, w2}
  Hour = 2
  Day = 2
  Keep = 3
  ReviewWindow = 2
  EditWindow = 1
  DailyLimit = 1
  ListLimit = 2
  MailConcurrency = 2
  Attempts = 2
  PurgeLimit = 1
  Overlap = FALSE
  FirstTime = 1
  MaxTime = 4
  MaxCalls = 3
  MaxCrashes = 1
SYMMETRY Symmetry
INVARIANTS OneResourcePerMember RemindedOnce HistoryTrue
PROPERTIES AcceptanceWhole ReviewSettles
