SPECIFICATION Spec
CONSTANTS
  r1 = r1
  r2 = r2
  d1 = d1
  d2 = d2
  q1 = q1
  q2 = q2
  None = None
  Rides <- OneRide
  Drivers <- TwoDrivers
  Requests <- TwoRequests
  Window = 3
  Interval = 1
  OfferTimeout = 2
  MaxTime = 4
  MaxRetries = 1
  MaxRejects = 1
  MaxStatusChanges = 1
  MaxFaults = 0
  MaxCrashes = 0
SYMMETRY Symmetry
INVARIANTS
  TypeOK
  AssignedIffAccepted
  AcceptedOfferHasAcceptedRide
  OneOfferAtATime
  SearchGoesOn
  TimeoutAfterExpiry
  OfferWithinWindow
  WindowInv
  SearchInv
PROPERTIES
  ImplementsContest
CHECK_DEADLOCK FALSE
