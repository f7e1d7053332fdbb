SPECIFICATION SummarySpec
CONSTANTS
  MaxDate = 3
  MaxReconciliations = 2
  MaxLedgerChanges = 1
  Targets = {0, 7}
  Flows <- DailyFlows
  InitialBalance = 5
INVARIANTS
  CacheAligned
  SnapshotsChain
  ReconciledDaysCloseAtTarget
  TransactionsCounted
  SummaryTornOnlyBeside
PROPERTIES
  SnapshotsNeverVanish
  PastUntouched
  RefinesLedger
CHECK_DEADLOCK FALSE
