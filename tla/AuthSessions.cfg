SPECIFICATION Spec
CONSTANTS
  a1 = a1
  a2 = a2
  p1 = p1
  p2 = p2
  p3 = p3
  s1 = s1
  s2 = s2
  q1 = q1
  q2 = q2
  None = None
  Accounts <- OneAccount
  Phones <- OnePhone
  Sids <- TwoSids
  Requests <- TwoRequests
  Starts <- StartLoggedOut
  OtpTTL = 1
  ActionTTL = 1
  SetupTTL = 2
  AccessTTL = 2
  SessionTTL = 2
  MaxTime = 2
  MaxOtps = 2
  MaxActions = 0
  MaxRefreshes = 2
  MaxFailures = 1
  MaxRestarts = 1
SYMMETRY SidSymmetry
INVARIANTS
  TypeOK
  OneSessionPerOtp
  KeptTokenIsStored
PROPERTIES
  RevokedStaysRevoked
CHECK_DEADLOCK FALSE
