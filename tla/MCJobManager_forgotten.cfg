SPECIFICATION TimedSpec
CONSTANTS
  u1 = u1
  j1 = j1
  j2 = j2
  Users = {u1}
  Jobs = {j1}
  LaunchJobs = {j1}
  RequestedBy <- OneUser
  Channels = {}
  MaxClusters = 1
  MaxJobsPerUser = 1
  Faults = {"create", "slow", "delay", "scheduler", "abort", "refresh"}
  Clock = {"age", "completed", "terminated", "request"}
  MaxWaiting = 1
  MaxRestarts = 1
  Nil = Nil
PROPERTIES
  AllForgotten
