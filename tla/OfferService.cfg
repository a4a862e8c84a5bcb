SPECIFICATION Spec
CONSTANTS
  r1 = r1
  d1 = d1
  d2 = d2
  k1 = k1
  k2 = k2
  None = None
  Rides <- OneRide
  Drivers <- TwoDrivers
  Calls <- TwoCalls
  Window = 2
  OfferTimeout = 2
  MaxTime = 4
SYMMETRY Symmetry
INVARIANTS
  TypeOK
  OfferInv
  AcceptedIsAssigned
PROPERTIES
  ImplementsOfferAnswers
CHECK_DEADLOCK FALSE
