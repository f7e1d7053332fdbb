SPECIFICATION Spec
SYMMETRY Symmetry
CONSTANTS
  w1 = w1
  w2 = w2
  Workers <- TwoWorkers
  MaxKeys = 4
INVARIANTS
  AvatarExists
  NoOrphans
CHECK_DEADLOCK FALSE
