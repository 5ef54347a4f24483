----------------------------- MODULE RosaProofs -----------------------------
(***************************************************************************)
(* The password a user is told is the one the cluster accepts, for every   *)
(* number of clusters, rosaSyncs and goroutines, with every failure and    *)
(* restart that Rosa has.                                                  *)
(***************************************************************************)
EXTENDS Rosa, TLAPS

\* What a password that is told, cached, saved or carried has to be.
Fits(p, c) == p \in Workers => p = idp[c]

Carried ==
    \A c \in Clusters :
       /\ \A s \in Syncs : Fits(sync[s].found[c], c)
       /\ \A w \in Workers : auth[c][w] \in {"save", "cache"} => idp[c] = w

Stored ==
    \A c \in Clusters : Fits(told[c], c) /\ Fits(passwords[c], c) /\ Fits(secret[c], c)

Inv == TypeOK /\ Stored /\ Carried

LEMMA InvIsPasswordInv == Inv => PasswordInv
  BY DEF Inv, PasswordInv, PasswordFits, Stored, Carried, Fits

-----------------------------------------------------------------------------
(* Types *)

LEMMA IdleType == Idle \in SyncRecord
  BY DEF Idle, SyncRecord, SyncPhases, States, Passwords

LEMMA SyncType ==
  ASSUME TypeOK, NEW s \in Syncs, NEW r \in SyncRecord, sync' = [sync EXCEPT ![s] = r]
  PROVE  sync' \in [Syncs -> SyncRecord]
  BY DEF TypeOK

LEMMA GotoType ==
  ASSUME TypeOK, NEW c \in Clusters, NEW w \in Workers, NEW pc \in AuthPhases,
         Goto(c, w, pc)
  PROVE  /\ auth' \in [Clusters -> [Workers -> AuthPhases]]
         /\ \A d \in Clusters, v \in Workers :
               auth'[d][v] = IF d = c /\ v = w THEN pc ELSE auth[d][v]
  BY DEF TypeOK, Goto

LEMMA UninstallingType ==
  ASSUME TypeOK, NEW S
  PROVE  Uninstalling(S) \in [Clusters -> States]
  BY DEF TypeOK, Uninstalling, States

\* Steps that leave every password alone.
quiet == <<idp, told, passwords, secret, sync, auth>>

LEMMA QuietKeeps ==
  ASSUME Stored, Carried, UNCHANGED quiet
  PROVE  Stored' /\ Carried'
  BY DEF Stored, Carried, Fits, quiet

-----------------------------------------------------------------------------
(* The creation of a cluster, the commands and the clusters themselves *)

LEMMA CreateKeeps ==
  ASSUME Inv, NEW c \in Clusters, CreateStep(c)
  PROVE  Inv'
<1> USE DEF Inv, CreatePhases
<1>1. CASE CheckCluster(c)
  <2>1. TypeOK'
    BY <1>1 DEF CheckCluster, TypeOK, cacheVars, ocmVars, ghosts, unseen
  <2> QED  BY <1>1, <2>1, QuietKeeps DEF CheckCluster, quiet, cacheVars, ocmVars, ghosts
<1>2. CASE CheckRequest(c)
  <2>1. TypeOK'
    BY <1>2 DEF CheckRequest, TypeOK, cacheVars, ocmVars, ghosts, unseen
  <2> QED  BY <1>2, <2>1, QuietKeeps DEF CheckRequest, quiet, cacheVars, ocmVars, ghosts
<1>3. CASE CountCluster(c)
  <2>1. TypeOK'
    BY <1>3 DEF CountCluster, TypeOK, ocmVars, ghosts
  <2> QED  BY <1>3, <2>1, QuietKeeps DEF CountCluster, quiet, ocmVars, ghosts
<1>4. CASE CreateCluster(c)
  <2>1. TypeOK'
    BY <1>4 DEF CreateCluster, TypeOK, cacheVars, ghosts, States
  <2> QED  BY <1>4, <2>1, QuietKeeps DEF CreateCluster, quiet, cacheVars, ghosts
<1>5. CASE Register(c)
  <2>1. TypeOK'
    BY <1>5 DEF Register, UpdateSecret, TypeOK, ocmVars, ghosts, unseen, States, Passwords
  <2>2. Stored'
    BY <1>5, RosaAssumption DEF Register, UpdateSecret, TypeOK, ocmVars, ghosts, Stored, Fits
  <2>3. Carried'
    BY <1>5 DEF Register, ocmVars, ghosts, Carried, Fits
  <2> QED  BY <2>1, <2>2, <2>3
<1>6. CASE CreateRoles(c)
  <2>1. TypeOK'
    BY <1>6 DEF CreateRoles, TypeOK, cacheVars, ocmVars, ghosts, unseen
  <2> QED  BY <1>6, <2>1, QuietKeeps DEF CreateRoles, quiet, cacheVars, ocmVars, ghosts
<1>7. CASE ReturnCreate(c)
  <2>1. TypeOK'
    BY <1>7 DEF ReturnCreate, TypeOK, ocmVars, ghosts, unseen
  <2> QED  BY <1>7, <2>1, QuietKeeps DEF ReturnCreate, quiet, ocmVars, ghosts
<1> QED  BY <1>1, <1>2, <1>3, <1>4, <1>5, <1>6, <1>7 DEF CreateStep

LEMMA CommandKeeps ==
  ASSUME Inv, NEW u \in Users,
         \/ LaunchJobForUser(u) \/ Reserve(u) \/ TerminateJobForUser(u)
  PROVE  Inv'
<1> USE DEF Inv
<1>1. CASE LaunchJobForUser(u)
  <2>1. TypeOK'
    BY <1>1 DEF LaunchJobForUser, TypeOK, cacheVars, ocmVars, ghosts, unseen
  <2> QED  BY <1>1, <2>1, QuietKeeps DEF LaunchJobForUser, quiet, cacheVars, ocmVars, ghosts
<1>2. CASE Reserve(u)
  <2>1. TypeOK'
    BY <1>2 DEF Reserve, TypeOK, cacheVars, ocmVars, ghosts, unseen
  <2> QED  BY <1>2, <2>1, QuietKeeps DEF Reserve, quiet, cacheVars, ocmVars, ghosts
<1>3. CASE TerminateJobForUser(u)
  <2>1. ocm' \in [Clusters -> States]
    BY <1>3, UninstallingType DEF TerminateJobForUser, TypeOK
  <2>2. TypeOK'
    BY <1>3, <2>1 DEF TerminateJobForUser, TypeOK, cacheVars, ghosts, unseen
  <2> QED  BY <1>3, <2>2, QuietKeeps DEF TerminateJobForUser, quiet, cacheVars, ghosts
<1> QED  BY <1>1, <1>2, <1>3

LEMMA ClusterKeeps ==
  ASSUME Inv, NEW c \in Clusters, Install(c) \/ Uninstall(c) \/ Expire(c)
  PROVE  Inv'
<1> USE DEF Inv
<1>1. CASE Install(c)
  <2>1. TypeOK'
    BY <1>1 DEF Install, TypeOK, cacheVars, ghosts, unseen, States
  <2> QED  BY <1>1, <2>1, QuietKeeps DEF Install, quiet, cacheVars, ghosts
<1>2. CASE Uninstall(c)
  <2>1. TypeOK'
    BY <1>2 DEF Uninstall, TypeOK, cacheVars, ghosts, unseen, States
  <2> QED  BY <1>2, <2>1, QuietKeeps DEF Uninstall, quiet, cacheVars, ghosts
<1>3. CASE Expire(c)
  <2>1. TypeOK'
    BY <1>3 DEF Expire, TypeOK, cacheVars, ghosts, unseen
  <2> QED  BY <1>3, <2>1, QuietKeeps DEF Expire, quiet, cacheVars, ghosts
<1> QED  BY <1>1, <1>2, <1>3

-----------------------------------------------------------------------------
(* rosaSync *)

\* A step that gives the other variables of a rosaSync's step their types and
\* writes a record whose passwords fit.
LEMMA SyncStepKeeps ==
  ASSUME Inv, NEW s \in Syncs, NEW r \in SyncRecord,
         sync' = [sync EXCEPT ![s] = r],
         \A c \in Clusters : Fits(r.found[c], c),
         UNCHANGED <<idp, auth>>
  PROVE  Carried'
<1>1. ASSUME NEW c \in Clusters, NEW t \in Syncs
      PROVE  Fits(sync'[t].found[c], c)
  <2>1. CASE t = s
    BY <2>1 DEF Inv, TypeOK
  <2>2. CASE t # s
    BY <2>2 DEF Inv, TypeOK, Carried
  <2> QED  BY <2>1, <2>2
<1> QED  BY <1>1 DEF Inv, Carried, Fits

LEMMA IdleFits == \A c \in Clusters : Fits(Idle.found[c], c)
  BY RosaAssumption DEF Idle, Fits

LEMMA SyncKeeps ==
  ASSUME Inv, NEW s \in Syncs, SyncStep(s)
  PROVE  Inv'
<1> USE DEF Inv
<1>0. sync[s] \in SyncRecord
  BY DEF TypeOK
<1>1. CASE ListClusters(s)
  <2> DEFINE l == [c \in Clusters |-> IF Exists(c) THEN ocm[c] ELSE "none"]
             r == [Idle EXCEPT !.pc = "listed", !.list = l]
  <2>1. l \in [Clusters -> States]
    BY DEF TypeOK, States
  <2>2. r \in SyncRecord
    BY <2>1, IdleType DEF SyncRecord, SyncPhases
  <2>3. sync' = [sync EXCEPT ![s] = r]
    BY <1>1 DEF ListClusters
  <2>4. sync' \in [Syncs -> SyncRecord]
    BY <2>2, <2>3, SyncType
  <2>5. TypeOK'
    BY <1>1, <2>4 DEF ListClusters, TypeOK, cacheVars, ocmVars, ghosts, unseen
  <2>6. \A c \in Clusters : Fits(r.found[c], c)
    BY RosaAssumption DEF Idle, Fits
  <2>7. Carried'
    BY <1>1, <2>2, <2>3, <2>6, SyncStepKeeps DEF ListClusters, ocmVars
  <2>8. Stored'
    BY <1>1 DEF ListClusters, Stored, Fits, cacheVars, ocmVars, ghosts
  <2> QED  BY <2>5, <2>7, <2>8
<1>2. CASE ScanClusters(s)
  <2> DEFINE list == sync[s].list
             ready == NewlyReady(list)
             report == markRosaErrorReported({c \in Clusters : list[c] = "error" /\ cache[c] # "error"})
             over == {c \in expired : list[c] # "none"}
             r == [pc |-> "scanned",
                   list |-> [c \in Clusters |-> IF c \in over /\ Exists(c)
                                                THEN ocm'[c] ELSE list[c]],
                   dead |-> toDelete(list),
                   found |-> [c \in Clusters |-> IF list[c] = "none" THEN Nil
                                                                     ELSE secret[c]]]
  <2>1. ocm' \in [Clusters -> States]
    BY <1>2, UninstallingType DEF ScanClusters
  <2>2. PICK worker \in [ready -> Workers] :
            auth' = [c \in Clusters |->
                       IF c \in ready THEN [auth[c] EXCEPT ![worker[c]] = "ask"] ELSE auth[c]]
    BY <1>2 DEF ScanClusters
  <2>3. auth' \in [Clusters -> [Workers -> AuthPhases]]
    BY <2>2 DEF TypeOK, AuthPhases
  <2>4. \A c \in Clusters, w \in Workers : auth'[c][w] \in {"save", "cache"} => idp[c] = w
    BY <2>2 DEF Carried, TypeOK
  <2>5. list \in [Clusters -> States]
    BY <1>0 DEF SyncRecord
  <2>6. r \in SyncRecord
    BY <2>1, <2>5 DEF SyncRecord, SyncPhases, TypeOK, Passwords, toDelete
  <2>7. PICK q \in {r, Idle} : sync' = [sync EXCEPT ![s] = q]
    BY <1>2 DEF ScanClusters
  <2>8. q \in SyncRecord
    BY <2>6, <2>7, IdleType
  <2>9. \A c \in Clusters : Fits(q.found[c], c)
    <3>1. \A c \in Clusters : Fits(r.found[c], c)
      BY RosaAssumption DEF Stored, Fits
    <3> QED  BY <2>7, <3>1, IdleFits
  <2>10. \A c \in Clusters, t \in Syncs : Fits(sync'[t].found[c], c)
    <3> TAKE c \in Clusters, t \in Syncs
    <3>1. CASE t = s
      BY <2>7, <2>9, <3>1 DEF TypeOK
    <3>2. CASE t # s
      BY <2>7, <3>2 DEF TypeOK, Carried
    <3> QED  BY <3>1, <3>2
  <2>11. idp' = idp /\ told' = told /\ passwords' = passwords /\ secret' = secret
    BY <1>2 DEF ScanClusters, cacheVars
  <2>12. Carried' /\ Stored'
    BY <2>4, <2>10, <2>11 DEF Carried, Stored, Fits
  <2>13. sync' \in [Syncs -> SyncRecord]
    BY <2>7, <2>8, SyncType
  <2>14. errors' \in [Clusters -> 0..2] /\ reported' \subseteq Clusters
    BY <1>2 DEF ScanClusters, TypeOK, markRosaErrorReported
  <2>15. UNCHANGED <<cache, pending, create, launch, synced, restarts, expired, aws,
                     before, lost, overtaken, hasty>>
    BY <1>2 DEF ScanClusters, cacheVars, unseen
  <2>16. TypeOK'
    BY <2>1, <2>3, <2>11, <2>13, <2>14, <2>15 DEF TypeOK
  <2> QED  BY <2>12, <2>16
<1>3. CASE StoreClusters(s)
  <2>1. [Idle EXCEPT !.pc = "stored", !.dead = sync[s].dead] \in SyncRecord
    BY <1>0, IdleType DEF SyncRecord, SyncPhases
  <2>2. \A c \in Clusters : Fits([Idle EXCEPT !.pc = "stored", !.dead = sync[s].dead].found[c], c)
    BY RosaAssumption DEF Idle, Fits
  <2>3. PICK r \in {Idle, [Idle EXCEPT !.pc = "stored", !.dead = sync[s].dead]} :
            sync' = [sync EXCEPT ![s] = r]
    BY <1>3 DEF StoreClusters
  <2>4. r \in SyncRecord /\ \A c \in Clusters : Fits(r.found[c], c)
    BY <2>1, <2>2, <2>3, IdleType, IdleFits
  <2>5. sync' \in [Syncs -> SyncRecord]
    BY <2>3, <2>4, SyncType
  <2>6. cache' \in [Clusters -> States] /\ passwords' \in [Clusters -> Passwords]
    BY <1>0, <1>3 DEF StoreClusters, SyncRecord
  <2>7. TypeOK'
    BY <1>3, <2>5, <2>6 DEF StoreClusters, TypeOK, ocmVars, ghosts, unseen
  <2>8. Carried'
    BY <1>3, <2>3, <2>4, SyncStepKeeps DEF StoreClusters, ocmVars
  <2>9. Stored'
    BY <1>3 DEF StoreClusters, Stored, Carried, Fits, ocmVars, ghosts
  <2> QED  BY <2>7, <2>8, <2>9
<1>4. CASE RemoveResources(s)
  <2>1. PICK D \in SUBSET sync[s].dead :
            /\ aws' = aws \ D
            /\ sync' = [sync EXCEPT ![s] = IF D = {} THEN Idle
                                           ELSE [Idle EXCEPT !.pc = "removed", !.dead = D]]
    BY <1>4 DEF RemoveResources
  <2>2. [Idle EXCEPT !.pc = "removed", !.dead = D] \in SyncRecord
    BY <1>0, IdleType DEF SyncRecord, SyncPhases
  <2>3. \A c \in Clusters : Fits([Idle EXCEPT !.pc = "removed", !.dead = D].found[c], c)
    BY RosaAssumption DEF Idle, Fits
  <2>4. PICK r \in {Idle, [Idle EXCEPT !.pc = "removed", !.dead = D]} :
            sync' = [sync EXCEPT ![s] = r]
    BY <2>1
  <2>5. r \in SyncRecord /\ \A c \in Clusters : Fits(r.found[c], c)
    BY <2>2, <2>3, <2>4, IdleType, IdleFits
  <2>6. sync' \in [Syncs -> SyncRecord]
    BY <2>4, <2>5, SyncType
  <2>7. TypeOK'
    BY <1>4, <2>1, <2>6 DEF RemoveResources, TypeOK, cacheVars, ocmVars, ghosts, unseen
  <2>8. Carried'
    BY <1>4, <2>4, <2>5, SyncStepKeeps DEF RemoveResources, ocmVars
  <2>9. Stored'
    BY <1>4 DEF RemoveResources, Stored, Fits, cacheVars, ocmVars, ghosts
  <2> QED  BY <2>7, <2>8, <2>9
<1>5. CASE ForgetEntries(s)
  <2>1. sync' \in [Syncs -> SyncRecord]
    BY <1>5, IdleType, SyncType DEF ForgetEntries
  <2>2. secret' \in [Clusters -> Passwords]
    BY <1>5 DEF ForgetEntries, UpdateSecret, TypeOK, Passwords
  <2>3. TypeOK'
    BY <1>5, <2>1, <2>2 DEF ForgetEntries, TypeOK, cacheVars, ocmVars, ghosts, unseen
  <2>4. Carried'
    BY <1>5, IdleType, IdleFits, SyncStepKeeps DEF ForgetEntries, ocmVars
  <2>5. Stored'
    BY <1>5, RosaAssumption DEF ForgetEntries, UpdateSecret, Stored, Fits, cacheVars, ocmVars, ghosts
  <2> QED  BY <2>3, <2>4, <2>5
<1> QED  BY <1>1, <1>2, <1>3, <1>4, <1>5 DEF SyncStep

-----------------------------------------------------------------------------
(* The goroutine of a ready cluster *)

LEMMA AuthKeeps ==
  ASSUME Inv, NEW c \in Clusters, NEW w \in Workers, AuthStep(c, w)
  PROVE  Inv'
<1> USE DEF Inv
<1>1. CASE AskIdentityProviders(c, w)
  <2>1. PICK pc \in {"make", "idle", "tell"} : Goto(c, w, pc)
    BY <1>1 DEF AskIdentityProviders
  <2>2. /\ auth' \in [Clusters -> [Workers -> AuthPhases]]
        /\ \A d \in Clusters, v \in Workers :
              auth'[d][v] = IF d = c /\ v = w THEN pc ELSE auth[d][v]
    BY <2>1, GotoType DEF AuthPhases
  <2>3. TypeOK'
    BY <1>1, <2>2 DEF AskIdentityProviders, Lose, TypeOK, unseen, cacheVars, ocmVars
  <2>4. Carried' /\ Stored'
    BY <1>1, <2>2 DEF AskIdentityProviders, Carried, Stored, Fits, cacheVars, ocmVars
  <2> QED  BY <2>3, <2>4
<1>2. CASE CreateIdentityProvider(c, w)
  <2>1. CASE idp[c] = Nil /\ idp' = [idp EXCEPT ![c] = w] /\ Goto(c, w, "save")
    <3>1. /\ auth' \in [Clusters -> [Workers -> AuthPhases]]
          /\ \A d \in Clusters, v \in Workers :
                auth'[d][v] = IF d = c /\ v = w THEN "save" ELSE auth[d][v]
      BY <2>1, GotoType DEF AuthPhases
    <3>2. TypeOK'
      BY <1>2, <2>1, <3>1 DEF CreateIdentityProvider, Lose, TypeOK, unseen, cacheVars
    <3>3. \A p, d : d \in Clusters /\ Fits(p, d) => (p \in Workers => p = idp'[d])
      BY <2>1, RosaAssumption DEF Fits, TypeOK
    <3>4. Stored'
      BY <1>2, <3>3 DEF CreateIdentityProvider, Stored, Fits, cacheVars
    <3>5. Carried'
      <4>1. \A d \in Clusters, s \in Syncs : Fits(sync[s].found[d], d)'
        BY <1>2, <3>3 DEF CreateIdentityProvider, Carried, Fits
      <4>2. \A d \in Clusters, v \in Workers :
               auth'[d][v] \in {"save", "cache"} => idp'[d] = v
        BY <2>1, <3>1, RosaAssumption DEF Carried, TypeOK
      <4> QED  BY <4>1, <4>2 DEF Carried
    <3> QED  BY <3>2, <3>4, <3>5
  <2>2. CASE UNCHANGED idp /\ Goto(c, w, "tell")
    <3>1. /\ auth' \in [Clusters -> [Workers -> AuthPhases]]
          /\ \A d \in Clusters, v \in Workers :
                auth'[d][v] = IF d = c /\ v = w THEN "tell" ELSE auth[d][v]
      BY <2>2, GotoType DEF AuthPhases
    <3>2. TypeOK'
      BY <1>2, <2>2, <3>1 DEF CreateIdentityProvider, Lose, TypeOK, unseen, cacheVars
    <3>3. Carried' /\ Stored'
      BY <1>2, <2>2, <3>1 DEF CreateIdentityProvider, Carried, Stored, Fits, cacheVars
    <3> QED  BY <3>2, <3>3
  <2> QED  BY <1>2, <2>1, <2>2 DEF CreateIdentityProvider
<1>3. CASE SavePassword(c, w)
  <2>1. PICK pc \in {"cache", "tell"} : Goto(c, w, pc)
    BY <1>3 DEF SavePassword
  <2>2. /\ auth' \in [Clusters -> [Workers -> AuthPhases]]
        /\ \A d \in Clusters, v \in Workers :
              auth'[d][v] = IF d = c /\ v = w THEN pc ELSE auth[d][v]
    BY <2>1, GotoType DEF AuthPhases
  <2>3. idp[c] = w
    BY <1>3 DEF SavePassword, Carried
  <2>7. secret' \in [Clusters -> Passwords] /\ lost' \subseteq Clusters
    BY <1>3 DEF SavePassword, Lose, TypeOK, Passwords
  <2>4. TypeOK'
    BY <1>3, <2>2, <2>7 DEF SavePassword, TypeOK, unseen, cacheVars, ocmVars
  <2>5. Carried'
    BY <1>3, <2>2, <2>3 DEF SavePassword, Carried, Fits, ocmVars
  <2>6. Stored'
    BY <1>3, <2>3 DEF SavePassword, Stored, Fits, TypeOK, cacheVars, ocmVars
  <2> QED  BY <2>4, <2>5, <2>6
<1>4. CASE CachePassword(c, w)
  <2>1. /\ auth' \in [Clusters -> [Workers -> AuthPhases]]
        /\ \A d \in Clusters, v \in Workers :
              auth'[d][v] = IF d = c /\ v = w THEN "tell" ELSE auth[d][v]
    BY <1>4, GotoType DEF CachePassword, AuthPhases
  <2>2. idp[c] = w
    BY <1>4 DEF CachePassword, Carried
  <2>3. TypeOK'
    BY <1>4, <2>1 DEF CachePassword, TypeOK, ocmVars, ghosts, unseen, Passwords
  <2>4. Carried' /\ Stored'
    BY <1>4, <2>1, <2>2 DEF CachePassword, Carried, Stored, Fits, TypeOK, ocmVars, ghosts
  <2> QED  BY <2>3, <2>4
<1>5. CASE TellPassword(c, w)
  <2>1. /\ auth' \in [Clusters -> [Workers -> AuthPhases]]
        /\ \A d \in Clusters, v \in Workers :
              auth'[d][v] = IF d = c /\ v = w THEN "idle" ELSE auth[d][v]
    BY <1>5, GotoType DEF TellPassword, AuthPhases
  <2>2. told' \in [Clusters -> Workers \cup {Nil}] /\ lost' \subseteq Clusters
    BY <1>5 DEF TellPassword, Lose, TypeOK
  <2>3. TypeOK'
    BY <1>5, <2>1, <2>2 DEF TellPassword, TypeOK, unseen, cacheVars, ocmVars
  <2>4. Carried'
    BY <1>5, <2>1 DEF TellPassword, Carried, Fits, ocmVars
  <2>5. Stored'
    BY <1>5 DEF TellPassword, Stored, Fits, TypeOK, cacheVars, ocmVars
  <2> QED  BY <2>3, <2>4, <2>5
<1> QED  BY <1>1, <1>2, <1>3, <1>4, <1>5 DEF AuthStep

LEMMA RestartKeeps ==
  ASSUME Inv, Restart
  PROVE  Inv'
<1> USE DEF Inv, Restart
<1>1. sync' \in [Syncs -> SyncRecord]
  BY IdleType
<1>2. /\ create' \in [Clusters -> CreatePhases]
      /\ auth' \in [Clusters -> [Workers -> AuthPhases]]
      /\ launch' \in [Users -> {"none", "checked", "running"}]
  BY DEF TypeOK, CreatePhases, AuthPhases
<1>3. cache' \in [Clusters -> States] /\ passwords' \in [Clusters -> Passwords]
  BY DEF States, Passwords
<1>4. /\ told' \in [Clusters -> Workers \cup {Nil}] /\ errors' \in [Clusters -> 0..2]
      /\ restarts' \in 0..MaxRestarts
      /\ before' \subseteq Clusters /\ lost' \subseteq Clusters
  BY RosaAssumption DEF TypeOK
<1>5. TypeOK'
  <2>1. pending' \in Int /\ reported' \subseteq Clusters
    OBVIOUS
  <2>3. synced' \in BOOLEAN
    BY Zenon
  <2>2. UNCHANGED <<ocm, idp, expired, aws, secret, overtaken, hasty>>
    BY DEF ocmVars, unseen
  <2> HIDE DEF Restart
  <2> QED  BY <1>1, <1>2, <1>3, <1>4, <2>1, <2>2, <2>3 DEF TypeOK
<1>6. Stored'
  BY RosaAssumption DEF Stored, Fits, ocmVars
<1>7. Carried'
  BY IdleFits DEF Carried, Fits, ocmVars
<1> QED  BY <1>5, <1>6, <1>7

-----------------------------------------------------------------------------

LEMMA InitInv == Init => Inv
<1> SUFFICES ASSUME Init PROVE Inv
  OBVIOUS
<1> USE DEF Init
<1>1. TypeOK
  <2>1. sync \in [Syncs -> SyncRecord]
    BY IdleType
  <2>2. /\ cache \in [Clusters -> States] /\ ocm \in [Clusters -> States]
        /\ create \in [Clusters -> CreatePhases]
        /\ auth \in [Clusters -> [Workers -> AuthPhases]]
    BY DEF States, CreatePhases, AuthPhases
  <2>3. passwords \in [Clusters -> Passwords] /\ secret \in [Clusters -> Passwords]
    BY DEF Passwords
  <2>4. pending \in Int /\ restarts \in 0..MaxRestarts
    BY RosaAssumption
  <2>7. synced \in BOOLEAN
    BY Zenon
  <2>5. /\ told \in [Clusters -> Workers \cup {Nil}] /\ errors \in [Clusters -> 0..2]
        /\ idp \in [Clusters -> Workers \cup {Nil}]
        /\ launch \in [Users -> {"none", "checked", "running"}]
    OBVIOUS
  <2>6. {reported, expired, aws, before, lost, overtaken, hasty} \subseteq SUBSET Clusters
    OBVIOUS
  <2> HIDE DEF Init
  <2> QED  BY <2>1, <2>2, <2>3, <2>4, <2>5, <2>6, <2>7 DEF TypeOK
<1>2. Stored
  BY RosaAssumption DEF Stored, Fits
<1>3. Carried
  BY IdleFits DEF Carried
<1> QED  BY <1>1, <1>2, <1>3 DEF Inv

LEMMA NextInv == Inv /\ [Next]_vars => Inv'
<1> SUFFICES ASSUME Inv, [Next]_vars PROVE Inv'
  OBVIOUS
<1>1. CASE UNCHANGED vars
  <2>1. TypeOK'
    BY <1>1 DEF Inv, TypeOK, vars, cacheVars, ocmVars, ghosts, unseen
  <2> QED  BY <1>1, <2>1, QuietKeeps DEF Inv, quiet, vars, cacheVars, ocmVars, ghosts
<1>2. CASE Next
  BY <1>2, RosaAssumption, CreateKeeps, CommandKeeps, ClusterKeeps, SyncKeeps,
     AuthKeeps, RestartKeeps DEF Next
<1> QED  BY <1>1, <1>2

\* The passwords that users are told, that are cached and that are saved are
\* the ones the clusters accept (addClusterAuth, rosaSync), whatever the number
\* of clusters, rosaSyncs and goroutines.
THEOREM PasswordsFit == Spec => []PasswordInv
  BY InitInv, NextInv, InvIsPasswordInv, PTL DEF Spec

=============================================================================
