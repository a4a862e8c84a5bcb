SPECIFICATION Spec
CONSTANTS
  r1 = r1
  r2 = r2
  d1 = d1
  d2 = d2
  q1 = q1
  q2 = q2
  None = None
  Rides <- OneRide
  Drivers <- OneDriver
  Requests <- OneRequest
  Window = 3
  Interval = 1
  OfferTimeout = 1
  MaxTime = 5
  MaxRetries = 1
  MaxRejects = 0
  MaxStatusChanges = 0
  MaxFaults = 0
  MaxCrashes = 0
PROPERTIES
  SentOfferIsOpen
CHECK_DEADLOCK FALSE
