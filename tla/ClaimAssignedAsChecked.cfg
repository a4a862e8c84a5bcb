SPECIFICATION Spec
CONSTANTS
  r1 = r1
  r2 = r2
  d1 = d1
  d2 = d2
  q1 = q1
  q2 = q2
  None = None
  Rides <- OneRide
  Drivers <- TwoDrivers
  Requests <- TwoRequests
  Window = 3
  Interval = 1
  OfferTimeout = 1
  MaxTime = 4
  MaxRetries = 0
  MaxRejects = 0
  MaxStatusChanges = 0
  MaxFaults = 0
  MaxCrashes = 0
PROPERTIES
  AssignedAsChecked
CHECK_DEADLOCK FALSE
