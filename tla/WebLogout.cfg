SPECIFICATION Spec
SYMMETRY Symmetry
CONSTANTS
  w1 = w1
  w2 = w2
  Platforms = {"web"}
  Workers <- TwoWorkers
  MaxTokens = 2
  MaxTurns = 0
INVARIANT LogoutEndsSession
CHECK_DEADLOCK FALSE
