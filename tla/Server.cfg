SPECIFICATION Spec
CONSTANTS
  w1 = w1
  w2 = w2
  Workers <- TwoWorkers
  Callers <- SomeCallers
  Suspendable = {"membership"}
  Areas <- SharedState
  AccountTypes = {"CASH", "LOAN"}
  KnownType = "LOAN"
  Beginnings <- BothBeginnings
  MaxRequests = 2
  MaxChanges = 1
INVARIANTS
  AnswersTellTheTruth
  WritesEntitled
  LateProbesFail
  AnalysesFaithful
PROPERTIES
  ColumnsKept
  OnboardingKept
  RequestsAnswered
CHECK_DEADLOCK FALSE
