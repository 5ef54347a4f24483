SPECIFICATION Spec
CONSTANTS
  u1 = u1
  j1 = j1
  j2 = j2
  Users = {u1}
  Jobs = {j1, j2}
  LaunchJobs = {j1, j2}
  RequestedBy <- OneUser
  Channels = {}
  MaxClusters = 2
  MaxJobsPerUser = 1
  Faults = {"refresh"}
  Clock = {"age"}
  MaxWaiting = 1
  MaxRestarts = 1
  Nil = Nil
INVARIANTS
  TypeOK
  SlotInv
  OneClusterPerUser
  OverMeansOver
  LiveIsKnown
PROPERTIES
  ImplementsClusterSlots
VIEW NoGhosts
SYMMETRY SameUser
CONSTRAINT RestartOrAge
