SPECIFICATION FairSpec
CONSTANTS
  Clusters = {c1}
  MaxClusters = 1
  MaxAttempts = 2
  Faults = {"create", "delete", "auth", "slack"}
  MaxRestarts = 0
  Nil = Nil
PROPERTIES
  ReadyIsTold
  FailureIsTold
  ExpiredIsRemoved
CHECK_DEADLOCK FALSE
