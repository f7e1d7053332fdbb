SPECIFICATION Spec
CONSTANTS
  w1 = w1
  w2 = w2
  j1 = j1
  j2 = j2
  Workers <- TwoWorkers
  Jobs <- TwoJobs
  Scheduled = TRUE
  Broken = {1}
  BatchSize = 2
  MaxFiles = 3
  MaxMarks = 4
  MaxFailures = 1
INVARIANTS
  TypeOK
  ActiveFilesExist
  NoOrphans
PROPERTIES
  RetentionKept
  DeletedFilesCleaned
CHECK_DEADLOCK FALSE
