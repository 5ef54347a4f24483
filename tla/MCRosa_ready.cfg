SPECIFICATION FairSpec
CONSTANTS
  u1 = u1
  c1 = c1
  c2 = c2
  s1 = s1
  s2 = s2
  w1 = w1
  w2 = w2
  Users = {u1}
  Limit = 1
  Nil = Nil
  Empty = Empty
  Clusters = {c1}
  OwnerOf <- Owners
  Launchers = {u1}
  Syncs = {s1}
  Workers = {w1, w2}
  Faults = {"roles", "secret", "idp", "aws"}
  MaxRestarts = 1
INVARIANTS
  PasswordInv
  NotRenotified
  OnePerUser
PROPERTIES
  ReadyIsTold
  ResourcesAreRemoved
