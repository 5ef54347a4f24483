SPECIFICATION Spec
PROPERTIES
  MceSyncEnds
CHECK_DEADLOCK FALSE
