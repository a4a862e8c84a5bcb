SPECIFICATION Spec
CONSTANTS
  a1 = a1
  a2 = a2
  p1 = p1
  p2 = p2
  p3 = p3
  s1 = s1
  s2 = s2
  q1 = q1
  q2 = q2
  None = None
  Accounts <- TwoAccounts
  Phones <- ThreePhones
  Sids <- OneSid
  Requests <- TwoRequests
  Starts <- StartBothSides
  OtpTTL = 1
  ActionTTL = 1
  SetupTTL = 2
  AccessTTL = 2
  SessionTTL = 2
  MaxTime = 1
  MaxOtps = 2
  MaxActions = 2
  MaxRefreshes = 0
  MaxFailures = 1
  MaxRestarts = 0
SYMMETRY PhoneSymmetry
INVARIANTS
  PhoneIsProven
  OneChangePerOtp
  PhoneInv
CHECK_DEADLOCK FALSE
