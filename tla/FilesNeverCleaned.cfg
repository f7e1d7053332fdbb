SPECIFICATION Spec
CONSTANTS
  w1 = w1
  w2 = w2
  j1 = j1
  j2 = j2
  Workers <- TwoWorkers
  Jobs <- TwoJobs
  Scheduled = FALSE
  Broken = {}
  BatchSize = 2
  MaxFiles = 2
  MaxMarks = 2
  MaxFailures = 1
PROPERTY DeletedFilesCleaned
CHECK_DEADLOCK FALSE
