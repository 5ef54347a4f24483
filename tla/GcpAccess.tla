----------------------------- MODULE GcpAccess ------------------------------
(***************************************************************************)
(* Temporary access to a GCP project (pkg/manager/gcp_access.go): a grant  *)
(* is a service account of its own, with a key, named in an IAM binding    *)
(* that carries the time of its expiry. The manager keeps a cache from     *)
(* users to grants behind one mutex; the accounts and the policy are the   *)
(* only memory that survives a restart.                                    *)
(*                                                                         *)
(* GrantAccess and CleanupExpiredAccess hold the mutex from beginning to   *)
(* end. RevokeGCPAccess takes it three times and asks IAM without it. The  *)
(* owner of an account, which the code reads off the account's name, is    *)
(* the constant OwnerOf.                                                   *)
(***************************************************************************)
EXTENDS Naturals

CONSTANTS
    Users,        \* e-mail addresses
    Accounts,     \* service accounts, each created at most once
    OwnerOf,      \* the user for whom an account is created
    Revokes,      \* goroutines that serve the revoke command
    Faults,       \* what may go wrong in a run (see below)
    MaxRestarts,  \* bound on the restarts of the bot
    Nil           \* no account, no user

(***************************************************************************)
(*   iam      a call that creates or reads accounts, keys or policy fails  *)
(*   delete   the deletion of a service account fails                      *)
(*   edge     a grant expires while a revoke of its user is under way      *)
(*   twice    a user revokes again before the first command is answered    *)
(*   lapsed   a user asks again before the cleanup removed the old grant   *)
(***************************************************************************)
AllFaults == {"iam", "delete", "edge", "twice", "lapsed"}

ASSUME GcpAccessAssumption ==
    /\ OwnerOf \in [Accounts -> Users]
    /\ Faults \subseteq AllFaults
    /\ MaxRestarts \in Nat
    /\ Nil \notin Accounts /\ Nil \notin Users

VARIABLES
    cache,     \* grantsCache: user -> account of the grant
    mutex,     \* what holds the mutex
    grant,     \* the GrantAccess under way
    revoke,    \* the RevokeGCPAccess of each goroutine
    doomed,    \* expiredServiceAccounts still to be deleted by the cleanup
    restarts,  \* restarts of the bot so far
    accounts,  \* the service accounts that exist
    policy,    \* the accounts in "Temp Access" bindings of the IAM policy
    used,      \* names of accounts that have been used
    expired,   \* accounts whose seven days are over
    granted,   \* user -> account in the answer to the last request, if granted
    keys,      \* accounts whose key has been sent to the user
    revoked    \* users told that their access is revoked, not granted since

botVars == <<cache, mutex, grant, revoke, doomed>>
gcpVars == <<accounts, policy, used, expired>>
ghosts == <<granted, keys, revoked>>
vars == <<botVars, restarts, gcpVars, ghosts>>

GrantPhases == {"idle", "rekey", "create", "key", "bind", "answer"}
RevokePhases == {"idle", "query", "remember", "enter", "requery", "relock",
                 "unbind", "delete"}

\* A revoke is overtaken when access is granted again before it is answered.
RevokeRecord == [pc: RevokePhases, user: Users \cup {Nil},
                 sa: Accounts \cup {Nil}, overtaken: BOOLEAN]

TypeOK ==
    /\ cache \in [Users -> Accounts \cup {Nil}]
    /\ mutex \in {"free", "grant", "revoke", "cleanup"}
    /\ grant \in [pc: GrantPhases, user: Users \cup {Nil}, sa: Accounts \cup {Nil}]
    /\ revoke \in [Revokes -> RevokeRecord]
    /\ doomed \subseteq Accounts
    /\ restarts \in 0..MaxRestarts
    /\ accounts \subseteq Accounts
    /\ policy \subseteq Accounts
    /\ used \subseteq Accounts
    /\ expired \subseteq Accounts
    /\ granted \in [Users -> Accounts \cup {Nil}]
    /\ keys \subseteq Accounts
    /\ revoked \subseteq Users

NoGrant == [pc |-> "idle", user |-> Nil, sa |-> Nil]
NoRevoke == [pc |-> "idle", user |-> Nil, sa |-> Nil, overtaken |-> FALSE]

\* What getUserGrantFromIAM may find: a binding of the user, whichever of them
\* comes first in the policy.
getUserGrantFromIAM(u) ==
    LET bound == {a \in policy : OwnerOf[a] = u}
    IN IF bound = {} THEN {Nil} ELSE bound

\* deleteServiceAccount: an account that is gone already is deleted.
deleteServiceAccount(a) ==
    \/ accounts' = accounts \ {a}
    \/ "delete" \in Faults /\ UNCHANGED accounts

-----------------------------------------------------------------------------
(* GrantAccess *)

\* Mutant: an expired grant still counts as active.
HasActiveGrantMutant(u) == cache[u] # Nil

HasActiveGrant(u) == cache[u] # Nil /\ cache[u] \notin expired

\* Names for a new account of the user: the bound on the grants of a run.
Fresh(u) == {a \in Accounts \ used : OwnerOf[a] = u}

\* An active grant in the cache gets a new key, any other user a new account.
GrantAccess(u) ==
    /\ mutex = "free"
    /\ HasActiveGrant(u) \/ Fresh(u) # {}
    /\ "lapsed" \in Faults \/ \A a \in policy \cap expired : OwnerOf[a] # u
    /\ mutex' = "grant"
    /\ grant' = IF HasActiveGrant(u)
                THEN [pc |-> "rekey", user |-> u, sa |-> cache[u]]
                ELSE [pc |-> "create", user |-> u, sa |-> Nil]
    /\ revoke' = [r \in Revokes |-> IF revoke[r].user = u
                                    THEN [revoke[r] EXCEPT !.overtaken = TRUE]
                                    ELSE revoke[r]]
    /\ granted' = [granted EXCEPT ![u] = Nil]
    /\ revoked' = revoked \ {u}
    /\ UNCHANGED <<cache, doomed, restarts, gcpVars, keys>>

\* GrantAccess returns and the mutex is released.
GrantReturns == mutex' = "free" /\ grant' = NoGrant

\* The answer carries the key of the account.
SendKey == /\ granted' = [granted EXCEPT ![grant.user] = grant.sa]
           /\ keys' = keys \cup {grant.sa}

\* A new key for the account of an active grant. An account that does not
\* exist answers 404 until the retries are used up.
createServiceAccountKey ==
    /\ grant.pc = "rekey"
    /\ GrantReturns
    /\ \/ /\ grant.sa \in accounts
          /\ SendKey
       \/ /\ grant.sa \notin accounts \/ "iam" \in Faults
          /\ UNCHANGED <<granted, keys>>
    /\ UNCHANGED <<cache, revoke, doomed, restarts, gcpVars, revoked>>

createServiceAccount ==
    /\ grant.pc = "create"
    /\ \/ \E a \in Fresh(grant.user) :
             /\ accounts' = accounts \cup {a}
             /\ used' = used \cup {a}
             /\ grant' = [grant EXCEPT !.pc = "key", !.sa = a]
             /\ UNCHANGED mutex
       \/ "iam" \in Faults /\ GrantReturns /\ UNCHANGED <<accounts, used>>
    /\ UNCHANGED <<cache, revoke, doomed, restarts, policy, expired, ghosts>>

\* An error after the account was created: delete it again.
Rollback == GrantReturns /\ deleteServiceAccount(grant.sa)

GrantKey ==
    /\ grant.pc = "key"
    /\ \/ grant' = [grant EXCEPT !.pc = "bind"] /\ UNCHANGED <<mutex, accounts>>
       \/ "iam" \in Faults /\ Rollback
    /\ UNCHANGED <<cache, revoke, doomed, restarts, policy, used, expired, ghosts>>

\* Read the policy, add the conditional binding, write it back.
GrantBind ==
    /\ grant.pc = "bind"
    /\ \/ /\ policy' = policy \cup {grant.sa}
          /\ grant' = [grant EXCEPT !.pc = "answer"]
          /\ UNCHANGED <<mutex, accounts>>
       \/ "iam" \in Faults /\ Rollback /\ UNCHANGED policy
    /\ UNCHANGED <<cache, revoke, doomed, restarts, used, expired, ghosts>>

\* Mutant: the new grant is not cached.
GrantAnswerMutant ==
    /\ grant.pc = "answer"
    /\ GrantReturns
    /\ SendKey
    /\ UNCHANGED <<cache, revoke, doomed, restarts, gcpVars, revoked>>

GrantAnswer ==
    /\ grant.pc = "answer"
    /\ GrantReturns
    /\ cache' = [cache EXCEPT ![grant.user] = grant.sa]
    /\ SendKey
    /\ UNCHANGED <<revoke, doomed, restarts, gcpVars, revoked>>

-----------------------------------------------------------------------------
(* RevokeGCPAccess: GetUserGrant, then RevokeAccess *)

\* Only the goroutine r moves.
Move(r, pc, a) == revoke' = [revoke EXCEPT ![r].pc = pc, ![r].sa = a]
Return(r) == revoke' = [revoke EXCEPT ![r] = NoRevoke]

\* The user is told that the access is revoked.
Revoked(r) == /\ Return(r)
              /\ revoked' = IF revoke[r].overtaken THEN revoked
                            ELSE revoked \cup {revoke[r].user}

\* GetUserGrant looks into the cache; an expired grant is left to the cleanup.
RevokeGCPAccess(r, u) ==
    /\ revoke[r].pc = "idle"
    /\ "twice" \in Faults \/ \A q \in Revokes : revoke[q].user # u
    /\ mutex = "free"
    /\ revoke' = IF cache[u] \in expired THEN revoke
                 ELSE [revoke EXCEPT ![r] =
                         [pc |-> IF cache[u] = Nil THEN "query" ELSE "enter",
                          user |-> u, sa |-> Nil, overtaken |-> FALSE]]
    /\ UNCHANGED <<cache, mutex, grant, doomed, restarts, gcpVars, ghosts>>

\* Not in the cache: ask IAM, without the mutex.
GetUserGrantQuery(r) ==
    /\ revoke[r].pc = "query"
    /\ \/ \E a \in getUserGrantFromIAM(revoke[r].user) :
             IF a = Nil THEN Return(r) ELSE Move(r, "remember", a)
       \/ "iam" \in Faults /\ Return(r)
    /\ UNCHANGED <<cache, mutex, grant, doomed, restarts, gcpVars, ghosts>>

\* What was found goes into the cache, whatever has happened since.
GetUserGrantRemember(r) ==
    /\ revoke[r].pc = "remember"
    /\ mutex = "free"
    /\ cache' = [cache EXCEPT ![revoke[r].user] = revoke[r].sa]
    /\ IF revoke[r].sa \in expired THEN Return(r) ELSE Move(r, "enter", Nil)
    /\ UNCHANGED <<mutex, grant, doomed, restarts, gcpVars, ghosts>>

\* RevokeAccess takes the mutex; without a cached grant it gives it back to
\* ask IAM.
RevokeAccess(r) ==
    LET u == revoke[r].user
    IN /\ revoke[r].pc = "enter"
       /\ mutex = "free"
       /\ IF cache[u] # Nil
          THEN mutex' = "revoke" /\ Move(r, "unbind", cache[u])
          ELSE Move(r, "requery", Nil) /\ UNCHANGED mutex
       /\ UNCHANGED <<cache, grant, doomed, restarts, gcpVars, ghosts>>

RevokeAccessQuery(r) ==
    /\ revoke[r].pc = "requery"
    /\ \/ \E a \in getUserGrantFromIAM(revoke[r].user) : Move(r, "relock", a)
       \/ "iam" \in Faults /\ Move(r, "relock", Nil)
    /\ UNCHANGED <<cache, mutex, grant, doomed, restarts, gcpVars, ghosts>>

\* Mutant: back from IAM, the revoke goes on without the mutex.
RevokeAccessRelockMutant(r) ==
    LET u == revoke[r].user
        a == revoke[r].sa
    IN /\ revoke[r].pc = "relock"
       /\ cache' = [cache EXCEPT ![u] = a]
       /\ IF a # Nil THEN Move(r, "unbind", a) /\ UNCHANGED revoked ELSE Revoked(r)
       /\ UNCHANGED <<mutex, grant, doomed, restarts, gcpVars, granted, keys>>

\* The mutex is taken again, and what IAM knew goes into the cache.
RevokeAccessRelock(r) ==
    LET u == revoke[r].user
        a == revoke[r].sa
    IN /\ revoke[r].pc = "relock"
       /\ mutex = "free"
       /\ cache' = [cache EXCEPT ![u] = a]
       /\ IF a # Nil
          THEN mutex' = "revoke" /\ Move(r, "unbind", a) /\ UNCHANGED revoked
          ELSE Revoked(r) /\ UNCHANGED mutex
       /\ UNCHANGED <<grant, doomed, restarts, gcpVars, granted, keys>>

\* Mutant: the account goes before its binding.
RevokeAccessUnbindMutant(r) ==
    /\ revoke[r].pc = "unbind"
    /\ Move(r, "delete", revoke[r].sa) /\ deleteServiceAccount(revoke[r].sa)
    /\ UNCHANGED <<cache, mutex, grant, doomed, restarts, policy, used, expired, ghosts>>

RevokeAccessUnbind(r) ==
    /\ revoke[r].pc = "unbind"
    /\ \/ /\ policy' = policy \ {revoke[r].sa}
          /\ Move(r, "delete", revoke[r].sa)
          /\ UNCHANGED mutex
       \/ "iam" \in Faults /\ Return(r) /\ mutex' = "free" /\ UNCHANGED policy
    /\ UNCHANGED <<cache, grant, doomed, restarts, accounts, used, expired, ghosts>>

\* The account that cannot be deleted does not fail the command.
RevokeAccessDelete(r) ==
    /\ revoke[r].pc = "delete"
    /\ deleteServiceAccount(revoke[r].sa)
    /\ cache' = [cache EXCEPT ![revoke[r].user] = Nil]
    /\ mutex' = "free"
    /\ Revoked(r)
    /\ UNCHANGED <<grant, doomed, restarts, policy, used, expired, granted, keys>>

-----------------------------------------------------------------------------
(* CleanupExpiredAccess, every hour *)

\* Mutant: only grants that are still in the cache are cleaned up.
ExpiredBindingsMutant == {a \in policy \cap expired : \E u \in Users : cache[u] = a}

ExpiredBindings == policy \cap expired

\* The cache forgets the expired grants before the policy is written.
CleanupExpiredAccess ==
    /\ mutex = "free"
    /\ ExpiredBindings # {}
    /\ cache' = [u \in Users |-> IF cache[u] \in ExpiredBindings THEN Nil ELSE cache[u]]
    /\ \/ /\ policy' = policy \ ExpiredBindings
          /\ doomed' = ExpiredBindings
          /\ mutex' = "cleanup"
       \/ "iam" \in Faults /\ UNCHANGED <<policy, doomed, mutex>>
    /\ UNCHANGED <<grant, revoke, restarts, accounts, used, expired, ghosts>>

CleanupDelete ==
    /\ mutex = "cleanup"
    /\ \E a \in doomed : deleteServiceAccount(a) /\ doomed' = doomed \ {a}
    /\ mutex' = IF doomed' = {} THEN "free" ELSE "cleanup"
    /\ UNCHANGED <<cache, grant, revoke, restarts, policy, used, expired, ghosts>>

-----------------------------------------------------------------------------
(* The clock and the process *)

\* Seven days are over. Commands take seconds; only a run with edge lets an
\* account expire while its user's access is being revoked.
Expire(a) ==
    /\ a \in used \ expired
    /\ grant.sa # a
    /\ "edge" \in Faults \/ \A r \in Revokes : revoke[r].user # OwnerOf[a]
    /\ expired' = expired \cup {a}
    /\ UNCHANGED <<botVars, restarts, accounts, policy, used, ghosts>>

Restart ==
    /\ restarts < MaxRestarts
    /\ restarts' = restarts + 1
    /\ cache' = [u \in Users |-> Nil]
    /\ mutex' = "free"
    /\ grant' = NoGrant
    /\ revoke' = [r \in Revokes |-> NoRevoke]
    /\ doomed' = {}
    /\ UNCHANGED <<gcpVars, ghosts>>

Init ==
    /\ cache = [u \in Users |-> Nil]
    /\ mutex = "free"
    /\ grant = NoGrant
    /\ revoke = [r \in Revokes |-> NoRevoke]
    /\ doomed = {}
    /\ restarts = 0
    /\ accounts = {}
    /\ policy = {}
    /\ used = {}
    /\ expired = {}
    /\ granted = [u \in Users |-> Nil]
    /\ keys = {}
    /\ revoked = {}

Granting == \/ createServiceAccountKey \/ createServiceAccount \/ GrantKey
            \/ GrantBind \/ GrantAnswer

Revoking(r) == \/ GetUserGrantQuery(r) \/ GetUserGrantRemember(r) \/ RevokeAccess(r)
               \/ RevokeAccessQuery(r) \/ RevokeAccessRelock(r)
               \/ RevokeAccessUnbind(r) \/ RevokeAccessDelete(r)

Next ==
    \/ \E u \in Users : GrantAccess(u) \/ \E r \in Revokes : RevokeGCPAccess(r, u)
    \/ Granting
    \/ \E r \in Revokes : Revoking(r)
    \/ CleanupExpiredAccess
    \/ CleanupDelete
    \/ \E a \in Accounts : Expire(a)
    \/ Restart

Spec == Init /\ [][Next]_vars

-----------------------------------------------------------------------------
(* Properties *)

\* No binding names an account that does not exist: accounts are created
\* before and deleted after their binding, in GrantAccess and its rollback, in
\* RevokeAccess and in the cleanup, across failures and restarts.
BoundExists == policy \subseteq accounts

\* GrantAccess answers "You have been granted access" only for an account that
\* exists, is bound and has not expired, also when it hands out a new key for
\* a grant that the cache remembers.
GrantIsUsable ==
    [][\A u \in Users : granted[u] = Nil /\ granted'[u] # Nil
          => granted'[u] \in (accounts' \cap policy') \ expired']_vars

\* Where the mutex is held: by the one command that is between its Lock and
\* its Unlock, across the calls to IAM that it makes in between.
MutexHeld ==
    /\ mutex = "grant" <=> grant.pc # "idle"
    /\ doomed # {} => mutex = "cleanup"
    /\ \A r \in Revokes : revoke[r].pc \in {"unbind", "delete"} =>
          /\ mutex = "revoke"
          /\ \A q \in Revokes : revoke[q].pc \in {"unbind", "delete"} => q = r

\* What a command works on: a grant on an account that it created and that is
\* not bound yet, a revoke or the cleanup on accounts that are bound no more.
WorkInProgress ==
    /\ accounts \subseteq used
    /\ expired \subseteq used
    /\ grant.pc \in {"key", "bind"} => grant.sa \in accounts \ policy
    /\ grant.pc \in {"rekey", "answer"} => grant.sa \in Accounts
    /\ \A r \in Revokes :
          /\ revoke[r].pc # "idle" => revoke[r].user \in Users
          /\ revoke[r].pc = "delete" => revoke[r].sa \notin policy
    /\ doomed \cap policy = {}

\* The inductive invariant: no interleaving of the commands, the cleanup and a
\* crash, and no failing call to IAM, lets two of them work on the policy and
\* the accounts at once or leaves a binding of an account that is gone.
AccessInv == TypeOK /\ BoundExists /\ MutexHeld /\ WorkInProgress

\* A user whose access "has been revoked successfully" has no key of an account
\* that is still bound, until access is granted again.
RevokedHasNone ==
    \A u \in revoked : \A a \in (policy \cap keys) \ expired : OwnerOf[a] # u

\* The cleanup runs every hour, commands and their goroutines proceed, the
\* mutex starves nobody and failures of IAM do not last.
Fairness ==
    /\ SF_vars(CleanupExpiredAccess /\ mutex' = "cleanup")
    /\ WF_vars(CleanupDelete)
    /\ WF_vars(Granting)
    /\ \A r \in Revokes : WF_vars(Revoking(r))

FairSpec == Spec /\ Fairness

\* A binding does not outlive its seven days for ever, also when the grant was
\* forgotten in a restart or its user is told that the cleanup will come.
ExpiredIsRemoved == \A a \in Accounts : a \in policy \cap expired ~> a \notin policy
=============================================================================
