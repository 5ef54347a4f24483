SPECIFICATION Spec
CONSTANTS
  Clusters = {c1, c2}
  MaxClusters = 1
  MaxAttempts = 2
  Faults = {"create", "delete", "provision", "auth", "slack"}
  MaxRestarts = 1
  Nil = Nil
SYMMETRY ClusterSymmetry
CONSTRAINT OneIsMade
INVARIANTS
  NotifiedInv
  ReadyToldOnce
  FailureToldOnce
PROPERTIES
  LiveIsKept
CHECK_DEADLOCK FALSE
