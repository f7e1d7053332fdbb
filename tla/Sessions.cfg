SPECIFICATION Spec
SYMMETRY Symmetry
CONSTANTS
  w1 = w1
  w2 = w2
  Platforms = {"native"}
  Workers <- TwoWorkers
  MaxTokens = 2
  MaxTurns = 2
INVARIANTS
  TypeOK
  ResetEndsSessions
  UsedTokensRevoked
PROPERTY LateRequestsRefused
CHECK_DEADLOCK FALSE
