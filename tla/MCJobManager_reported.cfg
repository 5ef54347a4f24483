SPECIFICATION FairSpec
CONSTANTS
  u1 = u1
  j1 = j1
  j2 = j2
  Users = {u1}
  Jobs = {j1}
  LaunchJobs = {j1}
  RequestedBy <- OneUser
  Channels = {j1}
  MaxClusters = 1
  MaxJobsPerUser = 1
  Faults = {"create", "url", "api", "slow", "patch", "delay", "stale", "scheduler", "abort", "lag", "early"}
  Clock = {}
  MaxWaiting = 1
  MaxRestarts = 0
  Nil = Nil
PROPERTIES
  ReadyIsReported
  OutcomeIsReported
