SPECIFICATION Spec
CONSTANTS
  w1 = w1
  w2 = w2
  Workers <- TwoWorkers
  MaxDate = 2
  Targets = {0, 7}
  InitialBalance = 5
  NoTarget = NoTarget
  NetFlow <- NoTransactions
  Starts <- FreshAccount
  MaxRequests = 2
  RetryLimit = 2
INVARIANT CacheAligned
CHECK_DEADLOCK FALSE
