SPECIFICATION Spec
CONSTANTS
  w1 = w1
  w2 = w2
  Workers <- TwoWorkers
  MaxDate = 2
  Targets = {7}
  InitialBalance = 5
  NoTarget = NoTarget
  NetFlow <- LastDayOutflow
  Starts <- EitherAccount
  MaxRequests = 3
  RetryLimit = 2
INVARIANTS
  TypeOK
  CacheAlignedBehindLastDay
PROPERTIES
  SnapshotsNeverVanish
  AloneRealigns
  RequestsEnd
CHECK_DEADLOCK FALSE
