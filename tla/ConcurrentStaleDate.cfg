SPECIFICATION Spec
CONSTANTS
  w1 = w1
  w2 = w2
  Workers <- TwoWorkers
  MaxDate = 2
  Targets = {0, 7}
  InitialBalance = 5
  NoTarget = NoTarget
  NetFlow <- NoTransactions
  Starts <- MaterializedAccount
  MaxRequests = 3
  RetryLimit = 2
INVARIANT ReconciledDaysCloseAtTarget
CHECK_DEADLOCK FALSE
