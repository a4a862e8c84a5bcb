SPECIFICATION Spec
CONSTANTS
  k1 = k1
  k2 = k2
  k3 = k3
  c1 = c1
  c2 = c2
  None = None
  Keys <- ThreeKeys
  Calls <- TwoCalls
  MaxFailures = 2
  MaxLost = 1
  MaxCrashes = 1
SYMMETRY Symmetry
INVARIANTS
  TypeOK
  AnsweredIsComplete
  RowHasObject
  FailureIsUndone
  AttachmentInv
CHECK_DEADLOCK FALSE
