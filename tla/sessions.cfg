SPECIFICATION Spec
CONSTANTS
  b1 = b1
  q1 = q1
  q2 = q2
  s1 = s1
  None = None
  Keep = Keep
  Clear = Clear
  Browsers = {b1}
  SignedIn = {b1}
  Requests = {q1, q2}
  Sids = {b1, s1}
  Grace = 1
  Access = 2
  Ttl = 5
  MaxTime = 4
  MaxEdits = 1
  Patience = 1
  MaxSends = 3
  Kinds = {"PAGE", "END_OTHERS", "SIGN_OUT", "LOGIN"}
  Edits = {"PERMISSION", "MEMBER", "DEVICE", "RESET", "CLOSE"}
SYMMETRY Symmetry
INVARIANTS AnsweredByWhatHolds NoFalseReuse ResetEndsSessions
