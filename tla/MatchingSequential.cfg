SPECIFICATION Spec
CONSTANTS
  r1 = r1
  r2 = r2
  d1 = d1
  d2 = d2
  q1 = q1
  q2 = q2
  None = None
  Rides <- TwoRides
  Drivers <- TwoDrivers
  Requests <- OneRequest
  Window = 2
  Interval = 1
  OfferTimeout = 1
  MaxTime = 3
  MaxRetries = 1
  MaxRejects = 0
  MaxStatusChanges = 0
  MaxFaults = 0
  MaxCrashes = 0
SYMMETRY RowSymmetry
PROPERTIES
  ImplementsAssignment
CHECK_DEADLOCK FALSE
