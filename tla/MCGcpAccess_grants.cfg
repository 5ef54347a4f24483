SPECIFICATION FairSpec
CONSTANTS
  u1 = u1
  u2 = u2
  a1 = a1
  a2 = a2
  a3 = a3
  a4 = a4
  r1 = r1
  r2 = r2
  Users = {u1}
  Accounts = {a1, a2}
  OwnerOf <- Owners
  Revokes = {r1, r2}
  Faults = {"iam", "edge", "twice", "lapsed"}
  MaxRestarts = 1
  Nil = Nil
INVARIANTS
  AccessInv
  BoundExists
PROPERTIES
  GrantIsUsable
  ExpiredIsRemoved
