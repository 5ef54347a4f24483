---------------------------- MODULE MCGcpAccess -----------------------------
(* Small instances of GcpAccess for TLC. *)
EXTENDS GcpAccess, TLC

CONSTANTS u1, u2, a1, a2, a3, a4, r1, r2

\* The last account is for the second user, if there is one.
Owners == [a \in Accounts |-> IF a = a4 /\ u2 \in Users THEN u2 ELSE u1]

SameRevokes == Permutations({r1, r2})
=============================================================================
