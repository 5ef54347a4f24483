SPECIFICATION Spec
CONSTANTS
  u1 = u1
  c1 = c1
  c2 = c2
  s1 = s1
  s2 = s2
  w1 = w1
  w2 = w2
  Users = {u1}
  Limit = 1
  Nil = Nil
  Empty = Empty
  Clusters = {c1, c2}
  OwnerOf <- Owners
  Launchers = {}
  Syncs = {s1, s2}
  Workers = {w1}
  Faults = {"early", "error", "expire", "delete", "secret", "roles", "aws", "twice"}
  MaxRestarts = 1
SYMMETRY Same
CONSTRAINT OneOrYoung
INVARIANTS
  ResourcesAreRecorded
  SeenWithinLimit
PROPERTIES
  LiveKeepsResources
  ErrorToldOnce
