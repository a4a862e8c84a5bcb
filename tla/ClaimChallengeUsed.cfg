SPECIFICATION Spec
CONSTANTS
  a1 = a1
  a2 = a2
  p1 = p1
  p2 = p2
  p3 = p3
  s1 = s1
  s2 = s2
  q1 = q1
  q2 = q2
  None = None
  Accounts <- OneAccount
  Phones <- OnePhone
  Sids <- TwoSids
  Requests <- TwoRequests
  Starts <- StartSecured
  OtpTTL = 1
  ActionTTL = 1
  SetupTTL = 2
  AccessTTL = 2
  SessionTTL = 2
  MaxTime = 1
  MaxOtps = 1
  MaxActions = 1
  MaxRefreshes = 1
  MaxFailures = 1
  MaxRestarts = 1
INVARIANTS
  ChallengeOpensOneSession
CHECK_DEADLOCK FALSE
