SPECIFICATION RoomSpec
CONSTANTS
  r1 = r1
  d1 = d1
  d2 = d2
  u1 = u1
  q1 = q1
  q2 = q2
  m1 = m1
  None = None
  Rides <- OneRide
  Drivers <- TwoDrivers
  Users <- OneUser
  RiderOf <- RiderOfRide
  Requests <- TwoRequests
  Messages <- OneMessage
  Window = 2
  Interval = 1
  OfferTimeout = 1
  MaxTime = 2
  MaxRetries = 0
  MaxRejects = 1
  MaxStatusChanges = 0
  MaxFaults = 1
  MaxCrashes = 1
  MaxMessages = 2
  MaxDisconnects = 1
SYMMETRY Symmetry
CONSTRAINT OneDisturbance
INVARIANTS
  RoomTypeOK
  OnlyPartiesInRoom
  ShownWasStored
  DriverIsAnnounced
  ScreenMatchesTable
  RoomInv
CHECK_DEADLOCK FALSE
