SPECIFICATION Spec
SYMMETRY Symmetry
CONSTANTS
  w1 = w1
  w2 = w2
  w3 = w3
  Workers <- TwoWorkers
  MaxAttempts = 2
  MaxCodes = 3
INVARIANTS
  AttemptsBounded
  AcceptancesBounded
  UnusedBounded
PROPERTIES
  LateCodesRefused
CHECK_DEADLOCK FALSE
