SPECIFICATION Spec
CONSTANTS
  u1 = u1
  u2 = u2
  a1 = a1
  a2 = a2
  a3 = a3
  a4 = a4
  r1 = r1
  r2 = r2
  Users = {u1, u2}
  Accounts = {a1, a2, a3, a4}
  OwnerOf <- Owners
  Revokes = {r1, r2}
  Faults = {"delete"}
  MaxRestarts = 0
  Nil = Nil
INVARIANTS
  RevokedHasNone
