-------------------------- MODULE GcpAccessProofs ---------------------------
(***************************************************************************)
(* Proofs about GcpAccess, for any users, accounts and goroutines, any     *)
(* number of restarts and every fault: AccessInv is inductive, and with it *)
(* no binding of the policy names an account that does not exist. Where    *)
(* deletions of accounts do not fail, an answer that grants access is      *)
(* about an account that works. In an orderly environment, where the cache *)
(* and the policy agree, a revoke leaves its user nothing.                 *)
(***************************************************************************)
EXTENDS GcpAccess, TLAPS

\* Initially nothing is granted and nobody holds the mutex.
LEMMA InitAccess == Init => AccessInv
BY GcpAccessAssumption
   DEF Init, AccessInv, TypeOK, BoundExists, MutexHeld, WorkInProgress, NoGrant, NoRevoke,
       GrantPhases, RevokePhases, RevokeRecord

\* GrantAccess takes the mutex that nobody holds.
LEMMA GrantAccessKeeps ==
    ASSUME AccessInv, NEW u \in Users, GrantAccess(u)
    PROVE  AccessInv'
<1> USE GcpAccessAssumption DEF AccessInv
<1>1. TypeOK'
  <2>1. grant' \in [pc: GrantPhases, user: Users \cup {Nil}, sa: Accounts \cup {Nil}]
    BY DEF TypeOK, GrantAccess, HasActiveGrant, GrantPhases
  <2>2. revoke' \in [Revokes -> RevokeRecord]
    <3>1. ASSUME NEW q \in Revokes
          PROVE  [revoke[q] EXCEPT !.overtaken = TRUE] \in RevokeRecord
      <4>1. revoke[q] \in RevokeRecord
        BY DEF TypeOK
      <4> QED BY <4>1 DEF RevokeRecord
    <3> QED BY <3>1 DEF TypeOK, GrantAccess
  <2> QED BY <2>1, <2>2 DEF TypeOK, GrantAccess, gcpVars
<1>2. BoundExists'
  BY DEF BoundExists, GrantAccess, gcpVars
<1>3. MutexHeld'
  BY DEF MutexHeld, TypeOK, GrantAccess, gcpVars, RevokePhases, RevokeRecord
<1>4. WorkInProgress'
  BY DEF WorkInProgress, TypeOK, GrantAccess, HasActiveGrant, gcpVars, RevokePhases, RevokeRecord
<1> QED BY <1>1, <1>2, <1>3, <1>4

\* The steps of a grant, their failures and the rollback keep the invariant:
\* the new account is not bound before GrantBind, and only then stays.
LEMMA GrantingKeeps ==
    ASSUME AccessInv, Granting
    PROVE  AccessInv'
<1> USE GcpAccessAssumption DEF AccessInv, GrantReturns, NoGrant, gcpVars, ghosts, Fresh, Rollback
<1>1. CASE createServiceAccountKey
  <2>1. TypeOK' BY <1>1 DEF TypeOK, WorkInProgress, createServiceAccountKey, SendKey, GrantPhases
  <2>2. BoundExists' BY <1>1 DEF BoundExists, createServiceAccountKey
  <2>3. MutexHeld' BY <1>1 DEF MutexHeld, createServiceAccountKey
  <2>4. WorkInProgress' BY <1>1 DEF WorkInProgress, createServiceAccountKey
  <2> QED BY <2>1, <2>2, <2>3, <2>4
<1>2. CASE createServiceAccount
  <2>1. ASSUME NEW a \in Accounts \ used,
               accounts' = accounts \cup {a}, used' = used \cup {a},
               grant' = [grant EXCEPT !.pc = "key", !.sa = a], mutex' = mutex
        PROVE  AccessInv'
    <3>1. /\ grant'.pc = "key" /\ grant'.sa = a
          /\ grant' \in [pc: GrantPhases, user: Users \cup {Nil}, sa: Accounts \cup {Nil}]
      BY <2>1 DEF TypeOK, GrantPhases
    <3>2. TypeOK' BY <1>2, <2>1, <3>1 DEF TypeOK, createServiceAccount
    <3>3. BoundExists' BY <1>2, <2>1 DEF BoundExists, createServiceAccount
    <3>4. MutexHeld' BY <1>2, <2>1, <3>1 DEF MutexHeld, createServiceAccount
    <3>5. WorkInProgress'
      BY <1>2, <2>1, <3>1 DEF WorkInProgress, BoundExists, createServiceAccount
    <3> QED BY <3>2, <3>3, <3>4, <3>5
  <2>2. CASE GrantReturns /\ UNCHANGED <<accounts, used>>
    <3>1. TypeOK' BY <1>2, <2>2 DEF TypeOK, createServiceAccount, GrantPhases
    <3>2. BoundExists' BY <1>2, <2>2 DEF BoundExists, createServiceAccount
    <3>3. MutexHeld' BY <1>2, <2>2 DEF MutexHeld, createServiceAccount
    <3>4. WorkInProgress' BY <1>2, <2>2 DEF WorkInProgress, createServiceAccount
    <3> QED BY <3>1, <3>2, <3>3, <3>4
  <2> QED BY <1>2, <2>1, <2>2 DEF createServiceAccount
<1>3. CASE GrantKey
  <2>1. TypeOK' BY <1>3 DEF TypeOK, GrantKey, GrantPhases, deleteServiceAccount
  <2>2. BoundExists' BY <1>3 DEF BoundExists, WorkInProgress, GrantKey, deleteServiceAccount
  <2>3. MutexHeld' BY <1>3 DEF MutexHeld, TypeOK, GrantKey
  <2>4. WorkInProgress' BY <1>3 DEF WorkInProgress, TypeOK, GrantKey, deleteServiceAccount
  <2> QED BY <2>1, <2>2, <2>3, <2>4
<1>4. CASE GrantBind
  <2>1. TypeOK' BY <1>4 DEF TypeOK, WorkInProgress, GrantBind, GrantPhases, deleteServiceAccount
  <2>2. BoundExists' BY <1>4 DEF BoundExists, WorkInProgress, GrantBind, deleteServiceAccount
  <2>3. MutexHeld' BY <1>4 DEF MutexHeld, TypeOK, GrantBind
  <2>4. WorkInProgress' BY <1>4 DEF WorkInProgress, MutexHeld, TypeOK, GrantBind, deleteServiceAccount
  <2> QED BY <2>1, <2>2, <2>3, <2>4
<1>5. CASE GrantAnswer
  <2>1. TypeOK' BY <1>5 DEF TypeOK, WorkInProgress, GrantAnswer, SendKey, GrantPhases
  <2>2. BoundExists' BY <1>5 DEF BoundExists, GrantAnswer
  <2>3. MutexHeld' BY <1>5 DEF MutexHeld, GrantAnswer
  <2>4. WorkInProgress' BY <1>5 DEF WorkInProgress, GrantAnswer
  <2> QED BY <2>1, <2>2, <2>3, <2>4
<1> QED BY <1>1, <1>2, <1>3, <1>4, <1>5 DEF Granting

\* A revoke begins, whatever the cache knows.
LEMMA RevokeBeginsKeeps ==
    ASSUME AccessInv, NEW r \in Revokes, NEW u \in Users, RevokeGCPAccess(r, u)
    PROVE  AccessInv'
<1> USE GcpAccessAssumption DEF AccessInv, gcpVars, ghosts
<1>1. TypeOK' BY DEF TypeOK, RevokeGCPAccess, RevokePhases, RevokeRecord
<1>2. BoundExists' BY DEF BoundExists, RevokeGCPAccess
<1>3. MutexHeld' BY DEF MutexHeld, TypeOK, RevokeGCPAccess, RevokePhases, RevokeRecord
<1>4. WorkInProgress' BY DEF WorkInProgress, TypeOK, RevokeGCPAccess, RevokePhases, RevokeRecord
<1> QED BY <1>1, <1>2, <1>3, <1>4

\* Move and Return give a goroutine that revokes values of their types.
LEMMA MoveTyped ==
    ASSUME TypeOK, NEW r \in Revokes,
           Return(r) \/ \E pc \in RevokePhases, a \in Accounts \cup {Nil} : Move(r, pc, a)
    PROVE  revoke' \in [Revokes -> RevokeRecord]
<1>1. CASE Return(r)
  BY <1>1 DEF TypeOK, Return, NoRevoke, RevokePhases, RevokeRecord
<1>2. ASSUME NEW pc \in RevokePhases, NEW a \in Accounts \cup {Nil}, Move(r, pc, a)
      PROVE  revoke' \in [Revokes -> RevokeRecord]
  <2>1. revoke[r] \in RevokeRecord
    BY DEF TypeOK
  <2>2. [revoke[r] EXCEPT !.pc = pc, !.sa = a] \in RevokeRecord
    BY <2>1 DEF RevokeRecord
  <2>3. \A q \in Revokes :
           revoke'[q] = IF q = r THEN [revoke[r] EXCEPT !.pc = pc, !.sa = a] ELSE revoke[q]
    BY <1>2 DEF TypeOK, Move
  <2> QED BY <1>2, <2>2, <2>3 DEF TypeOK, Move
<1> QED BY <1>1, <1>2

\* Between its calls to IAM a revoke that has not the mutex touches only the
\* cache; with the mutex it unbinds the account before it deletes it.
LEMMA RevokingKeeps ==
    ASSUME AccessInv, NEW r \in Revokes, Revoking(r)
    PROVE  AccessInv'
<1> USE GcpAccessAssumption DEF AccessInv, gcpVars, ghosts
<1>1. CASE GetUserGrantQuery(r)
  <2>5. Return(r) \/ \E pc \in RevokePhases, a \in Accounts \cup {Nil} : Move(r, pc, a)
    BY <1>1 DEF TypeOK, GetUserGrantQuery, RevokePhases, RevokeRecord, getUserGrantFromIAM
  <2>1. TypeOK' BY <1>1, <2>5, MoveTyped DEF TypeOK, GetUserGrantQuery
  <2>2. BoundExists' BY <1>1 DEF BoundExists, GetUserGrantQuery
  <2>3. MutexHeld' BY <1>1 DEF MutexHeld, TypeOK, GetUserGrantQuery, RevokePhases, RevokeRecord, Move, Return, NoRevoke
  <2>4. WorkInProgress' BY <1>1 DEF WorkInProgress, TypeOK, GetUserGrantQuery, RevokePhases, RevokeRecord, Move, Return, NoRevoke
  <2> QED BY <2>1, <2>2, <2>3, <2>4
<1>2. CASE GetUserGrantRemember(r)
  <2>5. Return(r) \/ \E pc \in RevokePhases, a \in Accounts \cup {Nil} : Move(r, pc, a)
    BY <1>2 DEF TypeOK, GetUserGrantRemember, RevokePhases, RevokeRecord
  <2>6. revoke[r].sa \in Accounts \cup {Nil} BY DEF TypeOK, RevokeRecord
  <2>1. TypeOK' BY <1>2, <2>5, <2>6, MoveTyped DEF TypeOK, GetUserGrantRemember
  <2>2. BoundExists' BY <1>2 DEF BoundExists, GetUserGrantRemember
  <2>3. MutexHeld' BY <1>2 DEF MutexHeld, TypeOK, GetUserGrantRemember, RevokePhases, RevokeRecord, Move, Return, NoRevoke
  <2>4. WorkInProgress' BY <1>2 DEF WorkInProgress, TypeOK, GetUserGrantRemember, RevokePhases, RevokeRecord, Move, Return, NoRevoke
  <2> QED BY <2>1, <2>2, <2>3, <2>4
<1>3. CASE RevokeAccess(r)
  <2>0. revoke[r].user \in Users BY <1>3 DEF WorkInProgress, RevokeAccess
  <2>5. Return(r) \/ \E pc \in RevokePhases, a \in Accounts \cup {Nil} : Move(r, pc, a)
    BY <1>3, <2>0 DEF TypeOK, RevokeAccess, RevokePhases
  <2>1. TypeOK' BY <1>3, <2>5, MoveTyped DEF TypeOK, RevokeAccess
  <2>2. BoundExists' BY <1>3 DEF BoundExists, RevokeAccess
  <2>3. MutexHeld' BY <1>3 DEF MutexHeld, TypeOK, RevokeAccess, RevokePhases, RevokeRecord, Move, Return, NoRevoke
  <2>4. WorkInProgress' BY <1>3 DEF WorkInProgress, TypeOK, RevokeAccess, RevokePhases, RevokeRecord, Move, Return, NoRevoke
  <2> QED BY <2>1, <2>2, <2>3, <2>4
<1>4. CASE RevokeAccessQuery(r)
  <2>5. Return(r) \/ \E pc \in RevokePhases, a \in Accounts \cup {Nil} : Move(r, pc, a)
    BY <1>4 DEF TypeOK, RevokeAccessQuery, RevokePhases, getUserGrantFromIAM
  <2>1. TypeOK' BY <1>4, <2>5, MoveTyped DEF TypeOK, RevokeAccessQuery
  <2>2. BoundExists' BY <1>4 DEF BoundExists, RevokeAccessQuery
  <2>3. MutexHeld' BY <1>4 DEF MutexHeld, TypeOK, RevokeAccessQuery, RevokePhases, RevokeRecord, Move, Return, NoRevoke
  <2>4. WorkInProgress' BY <1>4 DEF WorkInProgress, TypeOK, RevokeAccessQuery, RevokePhases, RevokeRecord, Move, Return, NoRevoke
  <2> QED BY <2>1, <2>2, <2>3, <2>4
<1>5. CASE RevokeAccessRelock(r)
  <2>0. revoke[r].user \in Users BY <1>5 DEF WorkInProgress, RevokeAccessRelock
  <2>5. Return(r) \/ \E pc \in RevokePhases, a \in Accounts \cup {Nil} : Move(r, pc, a)
    BY <1>5, <2>0 DEF TypeOK, RevokeAccessRelock, RevokePhases, RevokeRecord, Revoked
  <2>6. revoke[r].sa \in Accounts \cup {Nil} BY DEF TypeOK, RevokeRecord
  <2>1. TypeOK' BY <1>5, <2>0, <2>5, <2>6, MoveTyped DEF TypeOK, RevokeAccessRelock, Revoked
  <2>2. BoundExists' BY <1>5 DEF BoundExists, RevokeAccessRelock
  <2>3. MutexHeld' BY <1>5 DEF MutexHeld, TypeOK, RevokeAccessRelock, Revoked, RevokePhases, RevokeRecord, Move, Return, NoRevoke
  <2>4. WorkInProgress' BY <1>5 DEF WorkInProgress, TypeOK, RevokeAccessRelock, Revoked, RevokePhases, RevokeRecord, Move, Return, NoRevoke
  <2> QED BY <2>1, <2>2, <2>3, <2>4
<1>6. CASE RevokeAccessUnbind(r)
  <2>5. Return(r) \/ \E pc \in RevokePhases, a \in Accounts \cup {Nil} : Move(r, pc, a)
    BY <1>6 DEF TypeOK, RevokeAccessUnbind, RevokePhases, RevokeRecord
  <2>1. TypeOK' BY <1>6, <2>5, MoveTyped DEF TypeOK, RevokeAccessUnbind
  <2>2. BoundExists' BY <1>6 DEF BoundExists, RevokeAccessUnbind
  <2>3. MutexHeld' BY <1>6 DEF MutexHeld, TypeOK, RevokeAccessUnbind, RevokePhases, RevokeRecord, Move, Return, NoRevoke
  <2>4. WorkInProgress' BY <1>6 DEF WorkInProgress, TypeOK, RevokeAccessUnbind, RevokePhases, RevokeRecord, Move, Return, NoRevoke
  <2> QED BY <2>1, <2>2, <2>3, <2>4
<1>7. CASE RevokeAccessDelete(r)
  <2>0. revoke[r].user \in Users BY <1>7 DEF WorkInProgress, RevokeAccessDelete
  <2>1. TypeOK'
    BY <1>7, <2>0, MoveTyped DEF TypeOK, RevokeAccessDelete, Revoked, deleteServiceAccount
  <2>2. BoundExists' BY <1>7 DEF BoundExists, WorkInProgress, RevokeAccessDelete, deleteServiceAccount
  <2>3. MutexHeld' BY <1>7 DEF MutexHeld, TypeOK, RevokeAccessDelete, Revoked, RevokePhases, RevokeRecord, Move, Return, NoRevoke
  <2>4. WorkInProgress'
    BY <1>7 DEF WorkInProgress, MutexHeld, TypeOK, RevokeAccessDelete, Revoked, RevokePhases, RevokeRecord,
                deleteServiceAccount, Return, NoRevoke
  <2> QED BY <2>1, <2>2, <2>3, <2>4
<1> QED BY <1>1, <1>2, <1>3, <1>4, <1>5, <1>6, <1>7 DEF Revoking

\* The cleanup unbinds all expired accounts before it deletes the first.
LEMMA CleanupKeeps ==
    ASSUME AccessInv, CleanupExpiredAccess \/ CleanupDelete
    PROVE  AccessInv'
<1> USE GcpAccessAssumption DEF AccessInv, gcpVars, ghosts
<1>1. CASE CleanupExpiredAccess
  <2>1. TypeOK' BY <1>1 DEF TypeOK, CleanupExpiredAccess, ExpiredBindings
  <2>2. BoundExists' BY <1>1 DEF BoundExists, CleanupExpiredAccess
  <2>3. MutexHeld' BY <1>1 DEF MutexHeld, CleanupExpiredAccess
  <2>4. WorkInProgress' BY <1>1 DEF WorkInProgress, MutexHeld, CleanupExpiredAccess
  <2> QED BY <2>1, <2>2, <2>3, <2>4
<1>2. CASE CleanupDelete
  <2>1. TypeOK' BY <1>2 DEF TypeOK, CleanupDelete, deleteServiceAccount
  <2>2. BoundExists' BY <1>2 DEF BoundExists, WorkInProgress, CleanupDelete, deleteServiceAccount
  <2>3. MutexHeld' BY <1>2 DEF MutexHeld, CleanupDelete
  <2>4. WorkInProgress' BY <1>2 DEF WorkInProgress, MutexHeld, CleanupDelete, deleteServiceAccount
  <2> QED BY <2>1, <2>2, <2>3, <2>4
<1> QED BY <1>1, <1>2

\* Time that passes and a crash between any two steps keep the invariant.
LEMMA EnvironmentKeeps ==
    ASSUME AccessInv, (\E a \in Accounts : Expire(a)) \/ Restart
    PROVE  AccessInv'
<1> USE GcpAccessAssumption DEF AccessInv, gcpVars, ghosts, botVars
<1>1. CASE \E a \in Accounts : Expire(a)
  BY <1>1 DEF Expire, TypeOK, BoundExists, MutexHeld, WorkInProgress
<1>2. CASE Restart
  <2>1. TypeOK' BY <1>2 DEF TypeOK, Restart, NoGrant, NoRevoke, GrantPhases, RevokePhases, RevokeRecord
  <2>2. BoundExists' BY <1>2 DEF BoundExists, Restart
  <2>3. MutexHeld' BY <1>2 DEF MutexHeld, Restart, NoGrant, NoRevoke
  <2>4. WorkInProgress' BY <1>2 DEF WorkInProgress, Restart, NoGrant, NoRevoke
  <2> QED BY <2>1, <2>2, <2>3, <2>4
<1> QED BY <1>1, <1>2

\* AccessInv holds for every instance: grants, revokes, the cleanup and crashes
\* never work on the policy at once, whichever of their calls fail.
THEOREM Access == Spec => []AccessInv
<1>1. AccessInv /\ [Next]_vars => AccessInv'
  <2> SUFFICES ASSUME AccessInv, [Next]_vars PROVE AccessInv'
    OBVIOUS
  <2>1. CASE Next
    BY <2>1, GrantAccessKeeps, RevokeBeginsKeeps, GrantingKeeps, RevokingKeeps, CleanupKeeps,
       EnvironmentKeeps DEF Next
  <2>2. CASE UNCHANGED vars
    BY <2>2 DEF AccessInv, TypeOK, BoundExists, MutexHeld, WorkInProgress, vars, botVars, gcpVars,
                ghosts
  <2> QED BY <2>1, <2>2
<1> QED BY InitAccess, <1>1, PTL DEF Spec

\* No binding names an account that does not exist (GrantAccess, RevokeAccess,
\* CleanupExpiredAccess), with every failure, interleaving and crash.
THEOREM BindingsNameAccounts == Spec => []BoundExists
<1>1. AccessInv => BoundExists
  BY DEF AccessInv
<1> QED BY Access, <1>1, PTL

-----------------------------------------------------------------------------
(* GrantIsUsable *)

\* An account that somebody remembers is bound, or gone, or about to go.
Settled(a) ==
    /\ a \in used
    /\ \/ a \in policy
       \/ a \notin accounts
       \/ a \in doomed
       \/ \E q \in Revokes : revoke[q].pc = "delete" /\ revoke[q].sa = a

\* What the cache, the revokes and the grant under way remember is settled, and
\* the account of a grant that will be answered has not expired.
Remembered ==
    /\ \A u \in Users : cache[u] # Nil => Settled(cache[u])
    /\ \A r \in Revokes : revoke[r].sa # Nil => Settled(revoke[r].sa)
    /\ grant.pc = "rekey" => Settled(grant.sa) /\ grant.sa \notin expired
    /\ grant.pc \in {"key", "bind"} => grant.sa \notin expired
    /\ grant.pc = "answer" => grant.sa \in policy \ expired

\* Initially nothing is remembered.
LEMMA InitRemembered == Init => Remembered
BY DEF Init, Remembered, NoGrant, NoRevoke

\* No step of a grant unsettles an account: the account it creates is fresh.
LEMMA GrantRemembers ==
    ASSUME AccessInv, Remembered, "delete" \notin Faults,
           Granting \/ \E u \in Users : GrantAccess(u)
    PROVE  Remembered'
<1> USE GcpAccessAssumption DEF Remembered, Settled, gcpVars, ghosts
<1>1. ASSUME NEW u \in Users, GrantAccess(u) PROVE Remembered'
  <2>1. \A r \in Revokes : revoke'[r].pc = revoke[r].pc /\ revoke'[r].sa = revoke[r].sa
    BY <1>1 DEF GrantAccess, AccessInv, TypeOK, RevokeRecord
  <2> QED BY <1>1, <2>1 DEF GrantAccess, HasActiveGrant
<1>2. CASE createServiceAccountKey
  BY <1>2 DEF createServiceAccountKey, GrantReturns, NoGrant
<1>3. CASE createServiceAccount
  <2>1. ASSUME NEW a \in Accounts \ used,
               accounts' = accounts \cup {a}, used' = used \cup {a},
               grant' = [grant EXCEPT !.pc = "key", !.sa = a]
        PROVE  Remembered'
    <3>1. grant'.pc = "key" /\ grant'.sa = a
      BY <2>1 DEF AccessInv, TypeOK
    <3>2. a \notin expired
      BY DEF AccessInv, WorkInProgress
    <3>3. UNCHANGED <<cache, revoke, doomed, policy, expired>>
      BY <1>3 DEF createServiceAccount
    <3>4. \A x : Settled(x) => Settled(x)'
      BY <2>1, <3>3
    <3> HIDE DEF Settled
    <3> QED BY <3>1, <3>2, <3>3, <3>4
  <2>2. CASE GrantReturns /\ UNCHANGED <<accounts, used>>
    BY <1>3, <2>2 DEF createServiceAccount, GrantReturns, NoGrant
  <2> QED BY <1>3, <2>1, <2>2 DEF createServiceAccount, Fresh
<1>4. CASE GrantKey
  BY <1>4 DEF GrantKey, Rollback, GrantReturns, NoGrant, deleteServiceAccount, AccessInv, TypeOK
<1>5. CASE GrantBind
  BY <1>5 DEF GrantBind, Rollback, GrantReturns, NoGrant, deleteServiceAccount, AccessInv, TypeOK
<1>6. CASE GrantAnswer
  BY <1>6 DEF GrantAnswer, GrantReturns, NoGrant, AccessInv, TypeOK, BoundExists, WorkInProgress
<1> QED BY <1>1, <1>2, <1>3, <1>4, <1>5, <1>6 DEF Granting

\* What Move and Return do to the goroutines.
LEMMA MoveEffect ==
    ASSUME AccessInv, NEW r \in Revokes
    PROVE  /\ Return(r) => /\ revoke'[r].pc = "idle" /\ revoke'[r].sa = Nil
                           /\ \A q \in Revokes \ {r} : revoke'[q] = revoke[q]
           /\ \A pc, a : Move(r, pc, a) => /\ revoke'[r].pc = pc /\ revoke'[r].sa = a
                                           /\ \A q \in Revokes \ {r} : revoke'[q] = revoke[q]
<1>1. Return(r) => /\ revoke'[r].pc = "idle" /\ revoke'[r].sa = Nil
                   /\ \A q \in Revokes \ {r} : revoke'[q] = revoke[q]
  BY DEF AccessInv, TypeOK, Return, NoRevoke, RevokeRecord
<1>2. ASSUME NEW pc, NEW a, Move(r, pc, a)
      PROVE  /\ revoke'[r].pc = pc /\ revoke'[r].sa = a
             /\ \A q \in Revokes \ {r} : revoke'[q] = revoke[q]
  <2>1. revoke[r] \in RevokeRecord /\ DOMAIN revoke = Revokes
    BY DEF AccessInv, TypeOK
  <2> QED BY <1>2, <2>1 DEF Move, RevokeRecord
<1> QED BY <1>1, <1>2

\* A revoke remembers what it found bound; what it unbinds it deletes.
LEMMA RevokeRemembers ==
    ASSUME AccessInv, Remembered, "delete" \notin Faults, NEW r \in Revokes,
           Revoking(r) \/ \E u \in Users : RevokeGCPAccess(r, u)
    PROVE  Remembered'
<1> USE GcpAccessAssumption, MoveEffect DEF Remembered, Settled, gcpVars, ghosts
<1>0. /\ policy \subseteq used
      /\ mutex = "revoke" => grant.pc = "idle"
  BY DEF AccessInv, BoundExists, WorkInProgress, MutexHeld
<1>1. ASSUME NEW u \in Users, RevokeGCPAccess(r, u) PROVE Remembered'
  <2>1. \A q \in Revokes : revoke'[q].pc = "delete" <=> revoke[q].pc = "delete"
    BY <1>1 DEF RevokeGCPAccess, AccessInv, TypeOK
  <2>2. \A q \in Revokes : revoke'[q].sa \in {Nil, revoke[q].sa}
    BY <1>1 DEF RevokeGCPAccess, AccessInv, TypeOK
  <2>3. \A q \in Revokes : revoke[q].pc = "delete" => revoke'[q].sa = revoke[q].sa
    BY <1>1 DEF RevokeGCPAccess, AccessInv, TypeOK
  <2> QED BY <1>1, <2>1, <2>2, <2>3 DEF RevokeGCPAccess
<1>2. CASE GetUserGrantQuery(r)
  BY <1>0, <1>2 DEF GetUserGrantQuery, getUserGrantFromIAM
<1>3. CASE GetUserGrantRemember(r)
  BY <1>3 DEF GetUserGrantRemember, AccessInv, TypeOK
<1>4. CASE RevokeAccess(r)
  BY <1>4 DEF RevokeAccess, AccessInv, WorkInProgress
<1>5. CASE RevokeAccessQuery(r)
  BY <1>0, <1>5 DEF RevokeAccessQuery, getUserGrantFromIAM
<1>6. CASE RevokeAccessRelock(r)
  BY <1>6 DEF RevokeAccessRelock, Revoked, AccessInv, TypeOK
<1>7. CASE RevokeAccessUnbind(r)
  BY <1>0, <1>7 DEF RevokeAccessUnbind, AccessInv, MutexHeld
<1>8. CASE RevokeAccessDelete(r)
  BY <1>0, <1>8 DEF RevokeAccessDelete, Revoked, deleteServiceAccount, AccessInv, MutexHeld, TypeOK
<1> QED BY <1>1, <1>2, <1>3, <1>4, <1>5, <1>6, <1>7, <1>8 DEF Revoking

\* The cleanup deletes all that it unbinds; the account of the grant under way
\* does not expire; a new process remembers nothing.
LEMMA OthersRemember ==
    ASSUME AccessInv, Remembered, "delete" \notin Faults,
           \/ CleanupExpiredAccess \/ CleanupDelete
           \/ (\E a \in Accounts : Expire(a)) \/ Restart \/ UNCHANGED vars
    PROVE  Remembered'
<1> USE GcpAccessAssumption DEF Remembered, Settled, gcpVars, ghosts, botVars
<1>0. mutex # "grant" => grant.pc = "idle"
  BY DEF AccessInv, MutexHeld
<1>1. CASE CleanupExpiredAccess
  <2>1. doomed = {}
    BY <1>1 DEF CleanupExpiredAccess, AccessInv, MutexHeld
  <2> QED BY <1>0, <1>1, <2>1 DEF CleanupExpiredAccess, ExpiredBindings, AccessInv, TypeOK
<1>2. CASE CleanupDelete
  BY <1>0, <1>2 DEF CleanupDelete, deleteServiceAccount
<1>3. CASE \E a \in Accounts : Expire(a)
  BY <1>3 DEF Expire
<1>4. CASE Restart
  BY <1>4 DEF Restart, NoGrant, NoRevoke
<1>5. CASE UNCHANGED vars
  BY <1>5 DEF vars
<1> QED BY <1>1, <1>2, <1>3, <1>4, <1>5

\* Only the two ways in which GrantAccess succeeds answer with a key.
LEMMA AnswersAreUsable ==
    ASSUME AccessInv, Remembered, [Next]_vars, NEW u \in Users, granted[u] = Nil, granted'[u] # Nil
    PROVE  granted'[u] \in (accounts' \cap policy') \ expired'
<1> USE DEF gcpVars, ghosts, botVars
<1>1. CASE createServiceAccountKey
  <2>1. granted'[u] = grant.sa /\ grant.sa \in accounts
    BY <1>1 DEF createServiceAccountKey, SendKey, AccessInv, TypeOK
  <2>2. mutex = "grant"
    BY <1>1 DEF createServiceAccountKey, AccessInv, MutexHeld
  <2>3. grant.sa \in policy \ expired
    BY <1>1, <2>1, <2>2 DEF createServiceAccountKey, Remembered, Settled, AccessInv, MutexHeld
  <2> QED BY <1>1, <2>1, <2>3 DEF createServiceAccountKey
<1>2. CASE GrantAnswer
  <2>1. granted'[u] = grant.sa
    BY <1>2 DEF GrantAnswer, SendKey, AccessInv, TypeOK
  <2> QED BY <1>2, <2>1 DEF GrantAnswer, Remembered, AccessInv, BoundExists
<1>3. CASE \E v \in Users : GrantAccess(v)
  BY <1>3 DEF GrantAccess, AccessInv, TypeOK
<1>4. CASE UNCHANGED granted
  BY <1>4
<1> QED
  BY <1>1, <1>2, <1>3, <1>4 DEF Next, vars, Granting, Revoking, createServiceAccount, GrantKey,
     GrantBind, RevokeGCPAccess, GetUserGrantQuery, GetUserGrantRemember, RevokeAccess,
     RevokeAccessQuery, RevokeAccessRelock, RevokeAccessUnbind, RevokeAccessDelete,
     CleanupExpiredAccess, CleanupDelete, Expire, Restart

\* Where deletions of service accounts do not fail, "You have been granted
\* access" (GrantGCPAccess) is said only of an account that exists, is bound
\* and has not expired, also for a grant that the cache remembers.
THEOREM GrantsAreUsable == "delete" \notin Faults => (Spec => GrantIsUsable)
<1> SUFFICES ASSUME "delete" \notin Faults PROVE Spec => GrantIsUsable
  OBVIOUS
<1>1. AccessInv /\ Remembered /\ [Next]_vars => Remembered'
  BY GrantRemembers, RevokeRemembers, OthersRemember DEF Next
<1>2. AccessInv /\ Remembered /\ [Next]_vars =>
         [\A u \in Users : granted[u] = Nil /\ granted'[u] # Nil
             => granted'[u] \in (accounts' \cap policy') \ expired']_vars
  BY AnswersAreUsable
<1> QED BY Access, InitRemembered, <1>1, <1>2, PTL DEF Spec, GrantIsUsable
-----------------------------------------------------------------------------
(* RevokedHasNone *)

\* No restart, no failing call but deletions, one revoke of a user at a time, no
\* expiry during it, and no new grant before the cleanup of an expired one.
Orderly == MaxRestarts = 0 /\ Faults \subseteq {"delete"}

\* The cache and the policy agree: every binding is its user's cached grant or
\* about to be, and a cached grant is bound until its user's revoke unbinds it.
CacheKnows ==
    /\ \A a \in policy : \/ cache[OwnerOf[a]] = a
                         \/ grant.pc = "answer" /\ grant.sa = a
    /\ \A u \in Users : cache[u] # Nil =>
          /\ OwnerOf[cache[u]] = u
          /\ \/ cache[u] \in policy
             \/ \E r \in Revokes : revoke[r].pc = "delete" /\ revoke[r].user = u

\* A grant under way is for a user without one, on an account of that user
\* which has not expired.
GrantsOne ==
    /\ grant.pc = "idle" => grant.user = Nil
    /\ grant.pc # "idle" => grant.user \in Users
    /\ grant.pc \in {"create", "key", "bind", "answer"} => cache[grant.user] = Nil
    /\ grant.pc \in {"key", "bind", "answer"} =>
          OwnerOf[grant.sa] = grant.user /\ grant.sa \notin expired
    /\ grant.pc = "answer" => grant.sa \in policy

\* Revokes of a user come one after the other; meanwhile no binding of the user
\* is expired, and what the revoke works on is the cached grant or, until the
\* grant is answered, about to be.
RevokesOne ==
    \A r \in Revokes :
       LET u == revoke[r].user
       IN /\ revoke[r].pc = "idle" <=> u = Nil
          /\ revoke[r].pc \notin {"requery", "relock"}
          /\ u # Nil => /\ \A q \in Revokes : revoke[q].user = u => q = r
                        /\ \A a \in policy \cap expired : OwnerOf[a] # u
          /\ revoke[r].pc = "remember" => revoke[r].sa \in policy /\ OwnerOf[revoke[r].sa] = u
          /\ revoke[r].pc = "enter" => cache[u] \in policy
          /\ revoke[r].pc \in {"unbind", "delete"} => cache[u] = revoke[r].sa /\ cache[u] # Nil

\* A user who was told of the revoke has no grant, and none is under way.
RevokedKnown == \A u \in revoked : cache[u] = Nil /\ grant.user # u

RevokeInv == CacheKnows /\ GrantsOne /\ RevokesOne /\ RevokedKnown

\* Initially nothing is granted and nothing is being revoked.
LEMMA InitRevoke == Init => RevokeInv
BY DEF Init, RevokeInv, CacheKnows, GrantsOne, RevokesOne, RevokedKnown, NoGrant, NoRevoke

\* GrantAccess does not find an expired grant in the cache: it would be bound,
\* and the cleanup would have removed it first.
LEMMA GrantAccessRevoke ==
    ASSUME Orderly, AccessInv, RevokeInv, NEW u \in Users, GrantAccess(u)
    PROVE  RevokeInv'
<1> USE GcpAccessAssumption DEF gcpVars
<1>1. /\ mutex = "free" /\ grant.pc = "idle"
      /\ \A r \in Revokes : revoke[r].pc # "delete"
  BY DEF GrantAccess, AccessInv, MutexHeld
<1>2. \A r \in Revokes : /\ revoke'[r].pc = revoke[r].pc /\ revoke'[r].sa = revoke[r].sa
                         /\ revoke'[r].user = revoke[r].user
  BY DEF GrantAccess, AccessInv, TypeOK, RevokeRecord
<1>3. ~HasActiveGrant(u) => cache[u] = Nil
  BY <1>1 DEF Orderly, GrantAccess, HasActiveGrant, RevokeInv, CacheKnows
<1>4. /\ grant'.pc \in {"rekey", "create"} /\ grant'.user = u
      /\ grant'.pc = "create" => cache[u] = Nil
  BY <1>3 DEF GrantAccess
<1>5. UNCHANGED <<cache, policy, expired>> /\ revoked' = revoked \ {u}
  BY DEF GrantAccess
<1>6. CacheKnows'
  BY <1>1, <1>2, <1>5 DEF RevokeInv, CacheKnows
<1>7. GrantsOne'
  BY <1>4, <1>5 DEF GrantsOne
<1>8. RevokesOne'
  BY <1>2, <1>5 DEF RevokeInv, RevokesOne
<1>9. RevokedKnown'
  BY <1>1, <1>4, <1>5 DEF RevokeInv, RevokedKnown
<1> QED BY <1>6, <1>7, <1>8, <1>9 DEF RevokeInv

\* Only GrantBind adds a binding, of the account that GrantAnswer caches.
LEMMA GrantingRevoke ==
    ASSUME Orderly, AccessInv, RevokeInv, Granting
    PROVE  RevokeInv'
<1> USE GcpAccessAssumption DEF gcpVars, ghosts
<1>0. "iam" \notin Faults
  BY DEF Orderly
<1>1. UNCHANGED <<revoke, expired, revoked>>
  BY DEF Granting, createServiceAccountKey, createServiceAccount, GrantKey, GrantBind, GrantAnswer
<1>2. /\ \A r \in Revokes : revoke[r].pc \notin {"unbind", "delete"}
      /\ grant.pc # "idle"
  BY DEF Granting, createServiceAccountKey, createServiceAccount, GrantKey, GrantBind, GrantAnswer,
         AccessInv, MutexHeld
<1>3. CASE createServiceAccountKey
  <2>1. UNCHANGED <<cache, policy>> /\ grant' = NoGrant /\ grant.pc # "answer"
    BY <1>3 DEF createServiceAccountKey, GrantReturns
  <2> QED
    BY <1>1, <2>1 DEF RevokeInv, CacheKnows, GrantsOne, RevokesOne, RevokedKnown, NoGrant, AccessInv,
                      TypeOK
<1>4. CASE createServiceAccount
  <2>1. PICK a \in Fresh(grant.user) : grant' = [grant EXCEPT !.pc = "key", !.sa = a]
    BY <1>0, <1>4 DEF createServiceAccount
  <2>2. /\ grant'.pc = "key" /\ grant'.sa = a /\ grant'.user = grant.user
        /\ grant.pc = "create" /\ a \notin expired /\ OwnerOf[a] = grant.user
        /\ UNCHANGED <<cache, policy>>
    BY <1>4, <2>1 DEF createServiceAccount, Fresh, AccessInv, TypeOK, WorkInProgress
  <2> QED
    BY <1>1, <2>2 DEF RevokeInv, CacheKnows, GrantsOne, RevokesOne, RevokedKnown
<1>5. CASE GrantKey
  <2>1. /\ grant'.pc = "bind" /\ grant'.sa = grant.sa /\ grant'.user = grant.user
        /\ grant.pc = "key" /\ UNCHANGED <<cache, policy>>
    BY <1>0, <1>5 DEF GrantKey, AccessInv, TypeOK
  <2> QED
    BY <1>1, <2>1 DEF RevokeInv, CacheKnows, GrantsOne, RevokesOne, RevokedKnown
<1>6. CASE GrantBind
  <2>1. /\ grant'.pc = "answer" /\ grant'.sa = grant.sa /\ grant'.user = grant.user
        /\ grant.pc = "bind" /\ UNCHANGED cache /\ policy' = policy \cup {grant.sa}
    BY <1>0, <1>6 DEF GrantBind, AccessInv, TypeOK
  <2> QED
    BY <1>1, <2>1 DEF RevokeInv, CacheKnows, GrantsOne, RevokesOne, RevokedKnown
<1>7. CASE GrantAnswer
  <2>1. /\ grant'.pc = "idle" /\ grant'.user = Nil /\ grant.pc = "answer" /\ UNCHANGED policy
        /\ grant.user \in Users /\ cache[grant.user] = Nil
        /\ OwnerOf[grant.sa] = grant.user /\ grant.sa \in Accounts
    BY <1>7 DEF GrantAnswer, GrantReturns, NoGrant, AccessInv, WorkInProgress, RevokeInv, GrantsOne
  <2>2. \A v \in Users : cache'[v] = IF v = grant.user THEN grant.sa ELSE cache[v]
    BY <1>7 DEF GrantAnswer, AccessInv, TypeOK
  <2>3. CacheKnows'
    <3>1. grant.sa \in policy
      BY <2>1 DEF RevokeInv, GrantsOne
    <3> QED BY <1>1, <2>1, <2>2, <3>1 DEF RevokeInv, CacheKnows, AccessInv, TypeOK
  <2>4. RevokesOne'
    BY <1>1, <1>2, <2>1, <2>2 DEF RevokeInv, RevokesOne, GrantsOne, AccessInv, WorkInProgress
  <2>5. RevokedKnown'
    BY <1>1, <2>1, <2>2 DEF RevokeInv, RevokedKnown, AccessInv, TypeOK
  <2> QED BY <2>1, <2>3, <2>4, <2>5 DEF RevokeInv, GrantsOne
<1> QED BY <1>3, <1>4, <1>5, <1>6, <1>7 DEF Granting

\* A revoke that begins finds no expired grant of its user.
LEMMA BeginRevoke ==
    ASSUME Orderly, AccessInv, RevokeInv, NEW r \in Revokes, NEW u \in Users,
           RevokeGCPAccess(r, u)
    PROVE  RevokeInv'
<1> USE GcpAccessAssumption DEF gcpVars, ghosts
<1>1. /\ UNCHANGED <<cache, grant, policy, expired, revoked>>
      /\ mutex = "free" /\ grant.pc = "idle" /\ revoke[r].pc = "idle"
      /\ \A q \in Revokes : revoke[q].pc # "delete" /\ revoke[q].user # u
  BY DEF Orderly, RevokeGCPAccess, AccessInv, MutexHeld
<1>2. CASE revoke' = revoke
  BY <1>1, <1>2 DEF RevokeInv, CacheKnows, GrantsOne, RevokesOne, RevokedKnown
<1>3. CASE revoke' # revoke
  <2>1. /\ \A q \in Revokes \ {r} : revoke'[q] = revoke[q]
        /\ revoke'[r].pc \in {"query", "enter"} /\ revoke'[r].user = u
        /\ revoke'[r].pc = "enter" => cache[u] # Nil
        /\ cache[u] \notin expired
    BY <1>3 DEF RevokeGCPAccess, AccessInv, TypeOK
  <2>2. revoke'[r].pc = "enter" => cache[u] \in policy
    BY <1>1, <2>1 DEF RevokeInv, CacheKnows
  <2>3. \A a \in policy \cap expired : OwnerOf[a] # u
    BY <1>1, <2>1 DEF RevokeInv, CacheKnows
  <2>4. CacheKnows'
    BY <1>1 DEF RevokeInv, CacheKnows
  <2>5. RevokesOne'
    BY <1>1, <2>1, <2>2, <2>3 DEF RevokeInv, RevokesOne
  <2> QED BY <1>1, <2>4, <2>5 DEF RevokeInv, GrantsOne, RevokedKnown
<1> QED BY <1>2, <1>3

\* Move and Return keep the user of a goroutine or forget it.
LEMMA MoveUser ==
    ASSUME AccessInv, NEW r \in Revokes
    PROVE  /\ Return(r) => revoke'[r].user = Nil
           /\ \A pc, a : Move(r, pc, a) => revoke'[r].user = revoke[r].user
<1>1. Return(r) => revoke'[r].user = Nil
  BY DEF AccessInv, TypeOK, Return, NoRevoke
<1>2. ASSUME NEW pc, NEW a, Move(r, pc, a) PROVE revoke'[r].user = revoke[r].user
  <2>1. revoke[r] \in RevokeRecord /\ DOMAIN revoke = Revokes
    BY DEF AccessInv, TypeOK
  <2> QED BY <1>2, <2>1 DEF Move, RevokeRecord
<1> QED BY <1>1, <1>2

\* A revoke finds what is cached, removes its one binding and forgets it.
LEMMA RevokingRevoke ==
    ASSUME Orderly, AccessInv, RevokeInv, NEW r \in Revokes, Revoking(r)
    PROVE  RevokeInv'
<1> USE GcpAccessAssumption DEF gcpVars, ghosts
<1>0. /\ "iam" \notin Faults
      /\ revoke[r].pc # "idle" => revoke[r].user \in Users
      /\ revoke[r].pc \notin {"requery", "relock"}
      /\ mutex # "grant" => grant.pc = "idle"
      /\ revoke[r].pc \in {"unbind", "delete"} => mutex = "revoke"
  BY DEF Orderly, AccessInv, WorkInProgress, MutexHeld, RevokeInv, RevokesOne
<1>u. DEFINE u == revoke[r].user
<1>1. CASE GetUserGrantQuery(r)
  <2>1. /\ UNCHANGED <<cache, grant, policy, expired, revoked>> /\ revoke[r].pc = "query"
        /\ \/ Return(r)
           \/ \E a \in policy : OwnerOf[a] = u /\ Move(r, "remember", a)
    BY <1>0, <1>1 DEF GetUserGrantQuery, getUserGrantFromIAM, AccessInv, TypeOK
  <2>2. /\ \A q \in Revokes \ {r} : revoke'[q] = revoke[q]
        /\ \/ revoke'[r].pc = "idle" /\ revoke'[r].user = Nil
           \/ /\ revoke'[r].pc = "remember" /\ revoke'[r].user = u
              /\ revoke'[r].sa \in policy /\ OwnerOf[revoke'[r].sa] = u
    BY <2>1, MoveEffect, MoveUser
  <2>3. CacheKnows'
    BY <2>1, <2>2 DEF RevokeInv, CacheKnows
  <2>4. RevokesOne'
    BY <2>1, <2>2 DEF RevokeInv, RevokesOne
  <2> QED BY <2>1, <2>3, <2>4 DEF RevokeInv, GrantsOne, RevokedKnown
<1>2. CASE GetUserGrantRemember(r)
  <2>1. /\ UNCHANGED <<grant, policy, expired, revoked>> /\ revoke[r].pc = "remember"
        /\ grant.pc = "idle" /\ u \in Users
    BY <1>0, <1>2 DEF GetUserGrantRemember
  <2>2. cache[u] = revoke[r].sa /\ revoke[r].sa \notin expired /\ revoke[r].sa \in policy
    BY <1>0, <2>1 DEF RevokeInv, CacheKnows, RevokesOne
  <2>3. cache' = cache
    BY <1>2, <2>1, <2>2 DEF GetUserGrantRemember, AccessInv, TypeOK
  <2>4. /\ \A q \in Revokes \ {r} : revoke'[q] = revoke[q]
        /\ revoke'[r].pc = "enter" /\ revoke'[r].user = u
    BY <1>2, <2>2, MoveEffect, MoveUser DEF GetUserGrantRemember
  <2>5. CacheKnows'
    BY <2>1, <2>3, <2>4 DEF RevokeInv, CacheKnows
  <2>6. RevokesOne'
    BY <2>1, <2>2, <2>3, <2>4 DEF RevokeInv, RevokesOne
  <2> QED BY <2>1, <2>3, <2>5, <2>6 DEF RevokeInv, GrantsOne, RevokedKnown
<1>3. CASE RevokeAccess(r)
  <2>1. /\ UNCHANGED <<cache, grant, policy, expired, revoked>> /\ revoke[r].pc = "enter"
        /\ u \in Users /\ cache[u] \in policy /\ cache[u] # Nil
    BY <1>0, <1>3 DEF RevokeAccess, RevokeInv, RevokesOne, AccessInv, TypeOK
  <2>2. /\ \A q \in Revokes \ {r} : revoke'[q] = revoke[q]
        /\ revoke'[r].pc = "unbind" /\ revoke'[r].user = u /\ revoke'[r].sa = cache[u]
    BY <1>3, <2>1, MoveEffect, MoveUser DEF RevokeAccess
  <2>3. CacheKnows'
    BY <2>1, <2>2 DEF RevokeInv, CacheKnows
  <2>4. RevokesOne'
    BY <2>1, <2>2 DEF RevokeInv, RevokesOne
  <2> QED BY <2>1, <2>3, <2>4 DEF RevokeInv, GrantsOne, RevokedKnown
<1>4. CASE RevokeAccessUnbind(r)
  <2>1. /\ UNCHANGED <<cache, grant, expired, revoked>> /\ revoke[r].pc = "unbind"
        /\ policy' = policy \ {cache[u]} /\ grant.pc = "idle"
        /\ u \in Users /\ cache[u] = revoke[r].sa /\ OwnerOf[cache[u]] = u
    BY <1>0, <1>4 DEF RevokeAccessUnbind, RevokeInv, RevokesOne, CacheKnows
  <2>2. /\ \A q \in Revokes \ {r} : revoke'[q] = revoke[q]
        /\ revoke'[r].pc = "delete" /\ revoke'[r].user = u /\ revoke'[r].sa = revoke[r].sa
    BY <1>0, <1>4, MoveEffect, MoveUser DEF RevokeAccessUnbind
  <2>3. CacheKnows'
    BY <2>1, <2>2 DEF RevokeInv, CacheKnows
  <2>4. ASSUME NEW q \in Revokes \ {r}, revoke[q].pc \in {"remember", "enter"}
        PROVE  /\ revoke[q].pc = "remember" => revoke[q].sa \in policy'
               /\ revoke[q].pc = "enter" => cache[revoke[q].user] \in policy'
    <3>1. revoke[q].user \in Users /\ revoke[q].user # u /\ Nil \notin policy
      BY <2>1, <2>4 DEF RevokeInv, RevokesOne, AccessInv, WorkInProgress, TypeOK
    <3> QED BY <2>1, <2>4, <3>1 DEF RevokeInv, RevokesOne, CacheKnows
  <2>5. RevokesOne'
    BY <2>1, <2>2, <2>4 DEF RevokeInv, RevokesOne
  <2> QED BY <2>1, <2>3, <2>5 DEF RevokeInv, GrantsOne, RevokedKnown
<1>5. CASE RevokeAccessDelete(r)
  <2>1. /\ UNCHANGED <<grant, policy, expired>> /\ revoke[r].pc = "delete"
        /\ grant.pc = "idle" /\ u \in Users /\ revoke[r].sa \notin policy
        /\ revoked' \subseteq revoked \cup {u} /\ grant.user = Nil
        /\ cache[u] = revoke[r].sa
    BY <1>0, <1>5 DEF RevokeAccessDelete, Revoked, RevokeInv, RevokesOne, GrantsOne, AccessInv,
                      WorkInProgress
  <2>2. \A v \in Users : cache'[v] = IF v = u THEN Nil ELSE cache[v]
    BY <1>5, <2>1 DEF RevokeAccessDelete, AccessInv, TypeOK
  <2>3. /\ \A q \in Revokes \ {r} : revoke'[q] = revoke[q]
        /\ revoke'[r].pc = "idle" /\ revoke'[r].user = Nil
    BY <1>5, MoveEffect, MoveUser DEF RevokeAccessDelete, Revoked
  <2>4. CacheKnows'
    BY <2>1, <2>2, <2>3 DEF RevokeInv, CacheKnows, AccessInv, TypeOK
  <2>5. RevokesOne'
    BY <2>1, <2>2, <2>3 DEF RevokeInv, RevokesOne, AccessInv, WorkInProgress
  <2>6. RevokedKnown'
    BY <2>1, <2>2 DEF RevokeInv, RevokedKnown, AccessInv, TypeOK
  <2> QED BY <2>1, <2>4, <2>5, <2>6 DEF RevokeInv, GrantsOne
<1> QED
  BY <1>0, <1>1, <1>2, <1>3, <1>4, <1>5 DEF Revoking, RevokeAccessQuery, RevokeAccessRelock

\* The cleanup forgets exactly the grants it unbinds; nothing expires while its
\* user's access is granted or revoked; there is no restart.
LEMMA OthersRevoke ==
    ASSUME Orderly, AccessInv, RevokeInv,
           \/ CleanupExpiredAccess \/ CleanupDelete
           \/ (\E a \in Accounts : Expire(a)) \/ Restart \/ UNCHANGED vars
    PROVE  RevokeInv'
<1> USE GcpAccessAssumption DEF gcpVars, ghosts, botVars
<1>1. CASE CleanupExpiredAccess
  <2>1. /\ UNCHANGED <<grant, revoke, expired, revoked>> /\ policy' = policy \ expired
        /\ mutex = "free" /\ grant.pc = "idle"
        /\ \A u \in Users : cache'[u] = IF cache[u] \in policy \cap expired THEN Nil ELSE cache[u]
    BY <1>1 DEF CleanupExpiredAccess, ExpiredBindings, Orderly, AccessInv, MutexHeld
  <2>2. \A r \in Revokes : revoke[r].pc \notin {"unbind", "delete"}
    BY <2>1 DEF AccessInv, MutexHeld
  <2>3. CacheKnows'
    BY <2>1, <2>2 DEF RevokeInv, CacheKnows, AccessInv, TypeOK
  <2>4. RevokesOne'
    <3>1. ASSUME NEW r \in Revokes, revoke[r].pc = "enter"
          PROVE  cache'[revoke[r].user] \in policy'
      <4>1. /\ revoke[r].user \in Users /\ cache[revoke[r].user] \in policy
            /\ Nil \notin policy
        BY <3>1 DEF RevokeInv, RevokesOne, AccessInv, WorkInProgress, TypeOK
      <4>2. OwnerOf[cache[revoke[r].user]] = revoke[r].user
        BY <4>1 DEF RevokeInv, CacheKnows
      <4>3. cache[revoke[r].user] \notin expired
        BY <4>1, <4>2 DEF RevokeInv, RevokesOne
      <4> QED BY <2>1, <4>1, <4>3
    <3>2. ASSUME NEW r \in Revokes, revoke[r].pc = "remember"
          PROVE  revoke[r].sa \in policy'
      <4>1. revoke[r].user \in Users
        BY <3>2 DEF AccessInv, WorkInProgress
      <4> QED BY <2>1, <3>2, <4>1 DEF RevokeInv, RevokesOne
    <3> QED BY <2>1, <2>2, <3>1, <3>2 DEF RevokeInv, RevokesOne
  <2>5. RevokedKnown'
    BY <2>1 DEF RevokeInv, RevokedKnown, AccessInv, TypeOK
  <2> QED BY <2>1, <2>3, <2>4, <2>5 DEF RevokeInv, GrantsOne
<1>2. CASE CleanupDelete
  <2>1. UNCHANGED <<cache, grant, revoke, policy, expired, revoked>>
    BY <1>2 DEF CleanupDelete
  <2> QED BY <2>1 DEF RevokeInv, CacheKnows, GrantsOne, RevokesOne, RevokedKnown
<1>3. CASE \E a \in Accounts : Expire(a)
  <2>1. PICK a \in Accounts : Expire(a)
    BY <1>3
  <2>2. /\ UNCHANGED <<cache, grant, revoke, policy, revoked>> /\ expired' = expired \cup {a}
        /\ grant.sa # a /\ \A r \in Revokes : revoke[r].user # OwnerOf[a]
    BY <2>1 DEF Expire, Orderly
  <2> QED BY <2>2 DEF RevokeInv, CacheKnows, GrantsOne, RevokesOne, RevokedKnown
<1>4. CASE Restart
  BY <1>4 DEF Restart, Orderly, AccessInv, TypeOK
<1>5. CASE UNCHANGED vars
  BY <1>5 DEF vars, RevokeInv, CacheKnows, GrantsOne, RevokesOne, RevokedKnown
<1> QED BY <1>1, <1>2, <1>3, <1>4, <1>5

\* In an orderly environment a user who is told "Your GCP access has been
\* revoked successfully" (RevokeGCPAccess) has no key of a bound account, for
\* any interleaving with grants, revokes of others and the cleanup.
THEOREM RevokesAreComplete == Orderly => (Spec => []RevokedHasNone)
<1> SUFFICES ASSUME Orderly PROVE Spec => []RevokedHasNone
  OBVIOUS
<1>1. AccessInv /\ RevokeInv /\ [Next]_vars => RevokeInv'
  BY GrantAccessRevoke, GrantingRevoke, BeginRevoke, RevokingRevoke, OthersRevoke DEF Next
<1>2. AccessInv /\ RevokeInv => RevokedHasNone
  BY GcpAccessAssumption
     DEF RevokeInv, CacheKnows, GrantsOne, RevokedKnown, RevokedHasNone, AccessInv, TypeOK
<1> QED BY Access, InitRevoke, <1>1, <1>2, PTL DEF Spec
=============================================================================
