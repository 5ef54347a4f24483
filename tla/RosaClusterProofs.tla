-------------------------- MODULE RosaClusterProofs --------------------------
(***************************************************************************)
(* The clusters of Rosa, for every number of users, clusters, rosaSyncs    *)
(* and goroutines: their AWS resources are recorded, they stay within the  *)
(* limit, a user has one of them, and a user is told an error once and a   *)
(* password not again after a restart. The clusters created while a        *)
(* rosaSync works with an older list are set apart in the properties. A    *)
(* theorem names the faults it excludes; all others may happen.            *)
(***************************************************************************)
EXTENDS RosaProofs, FiniteSetTheorems

-----------------------------------------------------------------------------
(* What a cluster's life in OCM looks like *)

\* What a listed or cached state says about a cluster.
Knows(st, c) ==
    /\ st # "none" => ocm[c] # "none"
    /\ st = "uninstalling" => ocm[c] \in {"uninstalling", "gone"}

\* OCM has a cluster only after it was asked for, and whatever is known, told
\* or kept of a cluster is of one that OCM has or had.
Born ==
    \A c \in Clusters :
       /\ create[c] \in {"none", "checked", "free", "counted"} => ocm[c] = "none"
       /\ create[c] \in {"created", "registered"} => ocm[c] # "none"
       /\ idp[c] # Nil => ocm[c] # "none"
       /\ secret[c] # Nil => ocm[c] # "none"
       /\ errors[c] # 0 => ocm[c] # "none"
       /\ Knows(cache[c], c)
       /\ \A s \in Syncs : Knows(sync[s].list[c], c)

\* How the state of a cluster changes in a step that does not create it.
Ages(c) ==
    \/ ocm'[c] = ocm[c]
    \/ ocm[c] = "installing" /\ ocm'[c] \in {"ready", "error"}
    \/ Exists(c) /\ ocm'[c] = "uninstalling"
    \/ ocm[c] = "uninstalling" /\ ocm'[c] = "gone"

Age == \A c \in Clusters : Ages(c)

LEMMA UninstallingAges ==
  ASSUME TypeOK, NEW D, ocm' = Uninstalling(D)
  PROVE  Age
  BY DEF Age, Ages, Uninstalling, TypeOK

\* What was known stays true when a cluster ages.
LEMMA KnowsStays ==
  ASSUME Age, NEW c \in Clusters
  PROVE  /\ ocm[c] # "none" <=> ocm'[c] # "none"
         /\ \A st : Knows(st, c) => Knows(st, c)'
  BY DEF Age, Ages, Knows, Exists

\* Only CreateCluster brings a cluster into being.
LEMMA NextAges ==
  ASSUME Inv, Next, \A c \in Clusters : ~CreateCluster(c)
  PROVE  Age
<1>1. ASSUME UNCHANGED ocm PROVE Age
  BY <1>1 DEF Age, Ages
<1>2. ASSUME NEW c \in Clusters, CreateStep(c) PROVE Age
  BY <1>1, <1>2 DEF CreateStep, CheckCluster, CheckRequest, CountCluster, Register,
     CreateRoles, ReturnCreate, ocmVars
<1>3. ASSUME NEW c \in Clusters, Install(c) PROVE Age
  BY <1>3 DEF Install, Age, Ages, Inv, TypeOK
<1>4. ASSUME NEW c \in Clusters, Uninstall(c) PROVE Age
  BY <1>4 DEF Uninstall, Age, Ages, Inv, TypeOK
<1>5. ASSUME NEW c \in Clusters, Expire(c) PROVE Age
  BY <1>1, <1>5 DEF Expire
<1>6. ASSUME NEW u \in Users, LaunchJobForUser(u) \/ Reserve(u) PROVE Age
  BY <1>1, <1>6 DEF LaunchJobForUser, Reserve, ocmVars
<1>7. ASSUME NEW u \in Users, TerminateJobForUser(u) PROVE Age
  BY <1>1, <1>7, UninstallingAges DEF TerminateJobForUser, Inv
<1>8. ASSUME NEW s \in Syncs, SyncStep(s) PROVE Age
  <2>1. CASE ScanClusters(s)
    BY <2>1, UninstallingAges DEF ScanClusters, Inv
  <2> QED
    BY <1>1, <1>8, <2>1 DEF SyncStep, ListClusters, StoreClusters, RemoveResources,
       ForgetEntries, ocmVars
<1>9. ASSUME NEW c \in Clusters, NEW w \in Workers, AuthStep(c, w) PROVE Age
  BY <1>1, <1>9 DEF AuthStep, AskIdentityProviders, CreateIdentityProvider, SavePassword,
     CachePassword, TellPassword, ocmVars
<1>10. ASSUME Restart PROVE Age
  BY <1>1, <1>10 DEF Restart, ocmVars
<1> QED
  BY <1>2, <1>3, <1>4, <1>5, <1>6, <1>7, <1>8, <1>9, <1>10, RosaAssumption DEF Next

\* A step that writes one record of sync leaves the others alone.
LEMMA SyncWrite ==
  ASSUME TypeOK, NEW s \in Syncs, NEW r, sync' = [sync EXCEPT ![s] = r]
  PROVE  sync'[s] = r /\ \A t \in Syncs : t # s => sync'[t] = sync[t]
  BY DEF TypeOK

LEMMA IdleFields ==
  ASSUME NEW c \in Clusters
  PROVE  Idle.pc = "idle" /\ Idle.list[c] = "none" /\ Idle.dead = {}
  BY DEF Idle

\* The lists of rosaSync: a new one shows OCM as it is, a scanned one shows the
\* deletions of expired clusters, others are empty.
LEMMA SyncLists ==
  ASSUME Inv, NEW s \in Syncs, SyncStep(s), NEW c \in Clusters
  PROVE  /\ \A t \in Syncs : t # s => sync'[t] = sync[t]
         /\ \/ /\ ListClusters(s)
               /\ sync'[s].pc = "listed"
               /\ sync'[s].list[c] = IF Exists(c) THEN ocm[c] ELSE "none"
               /\ sync'[s].dead = {}
            \/ /\ ScanClusters(s)
               /\ sync'[s].pc = "scanned"
               /\ \/ sync'[s].list[c] = sync[s].list[c]
                  \/ /\ Exists(c) /\ sync'[s].list[c] = ocm'[c]
                     /\ sync[s].list[c] # "none"
               /\ c \in sync'[s].dead => sync[s].list[c] = "none" /\ secret[c] # Nil
            \/ /\ ScanClusters(s) \/ StoreClusters(s) \/ RemoveResources(s) \/ ForgetEntries(s)
               /\ sync'[s].pc \in {"idle", "stored", "removed"}
               /\ sync'[s].list[c] = "none"
               /\ c \in sync'[s].dead => ~ScanClusters(s) /\ c \in sync[s].dead
               /\ sync'[s].pc = "removed" /\ c \in sync'[s].dead => c \notin aws'
<1> USE DEF Inv
<1>0. sync[s] \in SyncRecord
  BY DEF TypeOK
<1>1. CASE ListClusters(s)
  <2> DEFINE l == [d \in Clusters |-> IF Exists(d) THEN ocm[d] ELSE "none"]
             r == [Idle EXCEPT !.pc = "listed", !.list = l]
  <2>1. sync' = [sync EXCEPT ![s] = r]
    BY <1>1 DEF ListClusters
  <2>2. r.pc = "listed" /\ r.list = l /\ r.dead = {}
    BY DEF Idle
  <2> HIDE DEF r
  <2> QED  BY <1>1, <2>1, <2>2, SyncWrite
<1>2. CASE ScanClusters(s)
  <2> DEFINE list == sync[s].list
             over == {d \in expired : list[d] # "none"}
             r == [pc |-> "scanned",
                   list |-> [d \in Clusters |-> IF d \in over /\ Exists(d)
                                                THEN ocm'[d] ELSE list[d]],
                   dead |-> toDelete(list),
                   found |-> [d \in Clusters |-> IF list[d] = "none" THEN Nil
                                                                     ELSE secret[d]]]
  <2>1. PICK q \in {r, Idle} : sync' = [sync EXCEPT ![s] = q]
    BY <1>2 DEF ScanClusters
  <2>2. sync'[s] = q /\ \A t \in Syncs : t # s => sync'[t] = sync[t]
    BY <2>1, SyncWrite
  <2>3. /\ r.pc = "scanned"
        /\ r.list[c] = IF c \in over /\ Exists(c) THEN ocm'[c] ELSE list[c]
        /\ c \in r.dead => list[c] = "none" /\ secret[c] # Nil
    BY DEF toDelete
  <2> HIDE DEF r
  <2> QED  BY <1>2, <2>1, <2>2, <2>3, IdleFields
<1>3. CASE StoreClusters(s)
  <2> DEFINE r == [Idle EXCEPT !.pc = "stored", !.dead = sync[s].dead]
  <2>1. PICK q \in {r, Idle} : sync' = [sync EXCEPT ![s] = q]
    BY <1>3 DEF StoreClusters
  <2>2. r.pc = "stored" /\ r.list[c] = "none" /\ r.dead = sync[s].dead
    BY DEF Idle
  <2>3. ~ScanClusters(s)
    BY <1>3 DEF StoreClusters, ScanClusters
  <2> HIDE DEF r
  <2> QED  BY <1>3, <2>1, <2>2, <2>3, IdleFields, SyncWrite
<1>4. CASE RemoveResources(s)
  <2>1. PICK D \in SUBSET sync[s].dead :
            /\ aws' = aws \ D
            /\ sync' = [sync EXCEPT ![s] = IF D = {} THEN Idle
                                           ELSE [Idle EXCEPT !.pc = "removed", !.dead = D]]
    BY <1>4 DEF RemoveResources
  <2> DEFINE r == [Idle EXCEPT !.pc = "removed", !.dead = D]
  <2>2. PICK q \in {r, Idle} : sync' = [sync EXCEPT ![s] = q]
    BY <2>1
  <2>3. r.pc = "removed" /\ r.list[c] = "none" /\ r.dead = D
    BY DEF Idle
  <2>4. ~ScanClusters(s)
    BY <1>4 DEF RemoveResources, ScanClusters
  <2> HIDE DEF r
  <2> QED  BY <1>4, <2>1, <2>2, <2>3, <2>4, IdleFields, SyncWrite
<1>5. CASE ForgetEntries(s)
  <2>1. sync' = [sync EXCEPT ![s] = Idle]
    BY <1>5 DEF ForgetEntries
  <2> QED  BY <1>5, <2>1, IdleFields, SyncWrite
<1> QED  BY <1>1, <1>2, <1>3, <1>4, <1>5 DEF SyncStep

-----------------------------------------------------------------------------
(* Born is invariant *)

\* Creating a cluster, which OCM then has.
LEMMA CreateClusterBorn ==
  ASSUME Inv, Born, NEW c \in Clusters, CreateCluster(c)
  PROVE  Born'
<1>1. ocm[c] = "none"
  BY DEF CreateCluster, Born
<1>2. UNCHANGED <<idp, secret, errors, cache, sync>>
  BY DEF CreateCluster, cacheVars, ghosts
<1>3. /\ \A d \in Clusters : d # c => ocm'[d] = ocm[d] /\ create'[d] = create[d]
      /\ \/ ocm'[c] = "installing" /\ create'[c] = "created"
         \/ ocm'[c] = "none" /\ create'[c] = "return"
  BY <1>1 DEF CreateCluster, Inv, TypeOK
<1>4. \A d \in Clusters : ocm[d] # "none" => ocm'[d] = ocm[d]
  BY <1>1, <1>3
<1>5. \A d \in Clusters : \A st : Knows(st, d) => Knows(st, d)'
  BY <1>4 DEF Knows
<1> QED  BY <1>2, <1>3, <1>4, <1>5 DEF Born

\* The other steps of a creation.
LEMMA CreateBorn ==
  ASSUME Inv, Born, NEW c \in Clusters, CreateStep(c), ~CreateCluster(c)
  PROVE  Born'
<1>1. UNCHANGED <<ocm, idp, errors, sync>>
  BY DEF CreateStep, CheckCluster, CheckRequest, CountCluster, Register, CreateRoles,
     ReturnCreate, ocmVars, ghosts
<1>2. \A st, d : Knows(st, d) <=> Knows(st, d)'
  BY <1>1 DEF Knows
<1>3. CASE Register(c)
  <2>1. ocm[c] # "none"
    BY <1>3 DEF Register, Born
  <2>2. /\ \A d \in Clusters : d # c => secret'[d] = secret[d] /\ create'[d] = create[d]
        /\ create'[c] \in {"registered", "return"}
        /\ \A d \in Clusters : cache'[d] = cache[d] \/ (d = c /\ cache'[d] = "installing")
    <3>1. create[c] = "created" /\ secret' \in {secret, [secret EXCEPT ![c] = Empty]}
          /\ cache' = [cache EXCEPT ![c] = IF @ = "none" THEN "installing" ELSE @]
          /\ \/ create' = [create EXCEPT ![c] = "return"]
             \/ create' = [create EXCEPT ![c] = "registered"]
      BY <1>3 DEF Register, UpdateSecret
    <3>2. create'[c] \in {"registered", "return"}
      BY <3>1 DEF Inv, TypeOK
    <3>3. \A d \in Clusters : d # c => secret'[d] = secret[d] /\ create'[d] = create[d]
      BY <3>1 DEF Inv, TypeOK
    <3>4. \A d \in Clusters : cache'[d] = cache[d] \/ (d = c /\ cache'[d] = "installing")
      BY <3>1 DEF Inv, TypeOK
    <3> QED  BY <3>2, <3>3, <3>4
  <2>3. Knows("installing", c)
    BY <2>1 DEF Knows
  <2> QED  BY <1>1, <1>2, <2>1, <2>2, <2>3 DEF Born
<1>4. CASE ~Register(c)
  <2>1. UNCHANGED <<cache, secret>>
    BY <1>4 DEF CreateStep, CheckCluster, CheckRequest, CountCluster, CreateRoles,
       ReturnCreate, cacheVars
  <2>2. /\ \A d \in Clusters : d # c => create'[d] = create[d]
        /\ \/ /\ create[c] \in {"none", "checked", "free"}
              /\ create'[c] \in {"checked", "ended", "free", "counted"}
           \/ create'[c] \in {"return", "ended"}
    BY <1>4 DEF CreateStep, CheckCluster, CheckRequest, CountCluster, CreateRoles,
       ReturnCreate, Inv, TypeOK
  <2> QED  BY <1>1, <1>2, <2>1, <2>2 DEF Born
<1> QED  BY <1>3, <1>4

\* Steps that leave everything but OCM alone.
LEMMA AgeBorn ==
  ASSUME Inv, Born, Age, UNCHANGED <<create, idp, secret, errors, cache, sync>>
  PROVE  Born'
<1> SUFFICES ASSUME NEW c \in Clusters
             PROVE  /\ create'[c] \in {"none", "checked", "free", "counted"} => ocm'[c] = "none"
                    /\ create'[c] \in {"created", "registered"} => ocm'[c] # "none"
                    /\ idp'[c] # Nil => ocm'[c] # "none"
                    /\ secret'[c] # Nil => ocm'[c] # "none"
                    /\ errors'[c] # 0 => ocm'[c] # "none"
                    /\ Knows(cache[c], c)'
                    /\ \A s \in Syncs : Knows(sync[s].list[c], c)'
  BY DEF Born
<1> QED  BY KnowsStays DEF Born, Knows

LEMMA SyncBorn ==
  ASSUME Inv, Born, Age, NEW s \in Syncs, SyncStep(s)
  PROVE  Born'
<1> SUFFICES ASSUME NEW c \in Clusters
             PROVE  /\ create'[c] \in {"none", "checked", "free", "counted"} => ocm'[c] = "none"
                    /\ create'[c] \in {"created", "registered"} => ocm'[c] # "none"
                    /\ idp'[c] # Nil => ocm'[c] # "none"
                    /\ secret'[c] # Nil => ocm'[c] # "none"
                    /\ errors'[c] # 0 => ocm'[c] # "none"
                    /\ Knows(cache[c], c)'
                    /\ \A t \in Syncs : Knows(sync[t].list[c], c)'
  BY DEF Born
<1>0. /\ ocm[c] # "none" <=> ocm'[c] # "none"
      /\ \A st : Knows(st, c) => Knows(st, c)'
  BY KnowsStays
<1>1. UNCHANGED <<create, idp>>
  BY DEF SyncStep, ListClusters, ScanClusters, StoreClusters, RemoveResources, ForgetEntries,
     ocmVars
<1>2. secret'[c] # Nil => secret[c] # Nil
  BY DEF SyncStep, ListClusters, ScanClusters, StoreClusters, RemoveResources, ForgetEntries,
     UpdateSecret
<1>3. errors'[c] = errors[c] \/ sync[s].list[c] = "error"
  BY DEF SyncStep, ListClusters, ScanClusters, StoreClusters, RemoveResources, ForgetEntries,
     ghosts, markRosaErrorReported
<1>4. cache'[c] = cache[c] \/ cache'[c] = sync[s].list[c]
  BY DEF SyncStep, ListClusters, ScanClusters, StoreClusters, RemoveResources, ForgetEntries,
     cacheVars
<1>5. ASSUME NEW t \in Syncs PROVE Knows(sync[t].list[c], c)'
  <2>1. CASE t # s
    BY <1>0, <2>1, SyncLists DEF Born
  <2>2. CASE t = s
    <3>1. Exists(c) => ocm'[c] # "none" /\ Exists(c)
      BY <1>0 DEF Exists
    <3>2. Knows(sync[s].list[c], c)
      BY DEF Born
    <3>3. /\ ~Exists(c) => ocm[c] \in {"none", "gone"}
          /\ ocm[c] \in {"uninstalling", "gone"} => ocm'[c] \in {"uninstalling", "gone"}
      BY DEF Age, Ages, Exists
    <3>4. \/ sync'[s].list[c] \in {"none", sync[s].list[c]}
          \/ Exists(c) /\ sync'[s].list[c] \in {ocm[c], ocm'[c]}
      BY SyncLists
    <3> QED  BY <1>0, <2>2, <3>1, <3>2, <3>3, <3>4 DEF Knows
  <2> QED  BY <2>1, <2>2
<1>6. sync[s].list[c] = "error" => ocm[c] # "none"
  BY DEF Born, Knows
<1> QED  BY <1>0, <1>1, <1>2, <1>3, <1>4, <1>5, <1>6 DEF Born

LEMMA AuthBorn ==
  ASSUME Inv, Born, NEW c \in Clusters, NEW w \in Workers, AuthStep(c, w)
  PROVE  Born'
<1>1. UNCHANGED <<create, ocm, errors, cache, sync>>
  BY DEF AuthStep, AskIdentityProviders, CreateIdentityProvider, SavePassword, CachePassword,
     TellPassword, cacheVars, ocmVars, ghosts
<1>2. \A st, d : Knows(st, d) <=> Knows(st, d)'
  BY <1>1 DEF Knows
<1>3. \A d \in Clusters : idp'[d] = idp[d] \/ ocm[d] # "none"
  BY DEF AuthStep, AskIdentityProviders, CreateIdentityProvider, SavePassword, CachePassword,
     TellPassword, cacheVars, ocmVars, ghosts, Exists, Inv, TypeOK
<1>4. \A d \in Clusters : secret'[d] = secret[d] \/ (d = c /\ SavePassword(c, w))
  <2>1. CASE SavePassword(c, w)
    BY <2>1 DEF SavePassword, Inv, TypeOK
  <2>2. CASE ~SavePassword(c, w)
    <3>1. UNCHANGED secret
      BY <2>2 DEF AuthStep, AskIdentityProviders, CreateIdentityProvider, CachePassword,
         TellPassword, ghosts
    <3> QED  BY <3>1
  <2> QED  BY <2>1, <2>2
<1>5. SavePassword(c, w) => idp[c] # Nil
  BY RosaAssumption DEF SavePassword, Inv, Carried
<1> QED  BY <1>1, <1>2, <1>3, <1>4, <1>5 DEF Born

LEMMA RestartBorn ==
  ASSUME Inv, Born, Restart
  PROVE  Born'
<1> SUFFICES ASSUME NEW c \in Clusters
             PROVE  /\ create'[c] \in {"none", "checked", "free", "counted"} => ocm'[c] = "none"
                    /\ create'[c] \in {"created", "registered"} => ocm'[c] # "none"
                    /\ idp'[c] # Nil => ocm'[c] # "none"
                    /\ secret'[c] # Nil => ocm'[c] # "none"
                    /\ errors'[c] # 0 => ocm'[c] # "none"
                    /\ Knows(cache[c], c)'
                    /\ \A t \in Syncs : Knows(sync[t].list[c], c)'
  BY DEF Born
<1>1. UNCHANGED <<ocm, idp, secret>> /\ errors'[c] = 0 /\ cache'[c] = "none"
      /\ create'[c] \in {"none", "ended"} /\ (create'[c] = "none" => create[c] = "none")
  BY DEF Restart, ocmVars
<1>2. \A t \in Syncs : sync'[t].list[c] = "none"
  BY IdleFields DEF Restart
<1>3. Knows("none", c)'
  BY DEF Knows
<1> QED  BY <1>1, <1>2, <1>3 DEF Born

LEMMA InitBorn == Init => Born
<1> SUFFICES ASSUME Init, NEW c \in Clusters
             PROVE  /\ ocm[c] = "none" /\ create[c] = "none" /\ idp[c] = Nil /\ secret[c] = Nil
                    /\ errors[c] = 0 /\ cache[c] = "none"
                    /\ \A s \in Syncs : sync[s].list[c] = "none"
  BY DEF Born, Knows
<1> QED  BY IdleFields DEF Init

LEMMA NextBorn == Inv /\ Born /\ [Next]_vars => Born'
<1> SUFFICES ASSUME Inv, Born, [Next]_vars PROVE Born'
  OBVIOUS
<1>1. CASE UNCHANGED vars
  <2>1. Age /\ UNCHANGED <<create, idp, secret, errors, cache, sync>>
    BY <1>1 DEF vars, cacheVars, ocmVars, ghosts, Age, Ages
  <2> QED  BY <2>1, AgeBorn
<1>2. CASE \E c \in Clusters : CreateCluster(c)
  BY <1>2, CreateClusterBorn
<1>3. CASE Next /\ \A c \in Clusters : ~CreateCluster(c)
  <2>0. Age
    BY <1>3, NextAges
  <2>1. ASSUME NEW c \in Clusters, Install(c) \/ Uninstall(c) \/ Expire(c) PROVE Born'
    <3>1. UNCHANGED <<create, idp, secret, errors, cache, sync>>
      BY <2>1 DEF Install, Uninstall, Expire, cacheVars, ghosts
    <3> QED  BY <2>0, <3>1, AgeBorn
  <2>2. ASSUME NEW u \in Users,
               LaunchJobForUser(u) \/ Reserve(u) \/ TerminateJobForUser(u)
        PROVE  Born'
    <3>1. UNCHANGED <<create, idp, secret, errors, cache, sync>>
      BY <2>2 DEF LaunchJobForUser, Reserve, TerminateJobForUser, cacheVars, ocmVars, ghosts
    <3> QED  BY <2>0, <3>1, AgeBorn
  <2> QED
    BY <1>3, <2>0, <2>1, <2>2, RosaAssumption, CreateBorn, SyncBorn, AuthBorn, RestartBorn
    DEF Next
<1> QED  BY <1>1, <1>2, <1>3

-----------------------------------------------------------------------------
(* What rosaSync lists of the clusters that are not created behind its back *)

\* A list that is going to be stored has every cluster of OCM; so has the
\* cache, once a list was stored, with those that are about to enter it.
Listed ==
    \A c \in Clusters \ overtaken :
       Exists(c) =>
          /\ \A s \in Syncs : Listing(s) => sync[s].list[c] # "none"
          /\ synced => cache[c] # "none" \/ create[c] = "created"

\* A cluster that ages was there before.
LEMMA ExistedBefore ==
  ASSUME Age, NEW c \in Clusters
  PROVE  Exists(c)' => Exists(c)
  BY DEF Age, Ages, Exists

\* Only CreateCluster takes a cluster for overtaken, and none ceases to be.
LEMMA OvertakenStays ==
  ASSUME Inv, Next
  PROVE  /\ overtaken \subseteq overtaken'
         /\ (\A c \in Clusters : ~CreateCluster(c)) => overtaken' = overtaken
<1>1. ASSUME NEW c \in Clusters, CreateCluster(c) PROVE overtaken \subseteq overtaken'
  BY <1>1 DEF CreateCluster
<1>2. ASSUME \A c \in Clusters : ~CreateCluster(c) PROVE overtaken' = overtaken
  BY <1>2 DEF Next, CreateStep, CheckCluster, CheckRequest, CountCluster, Register,
     CreateRoles, ReturnCreate, Install, Uninstall, Expire, LaunchJobForUser, Reserve,
     TerminateJobForUser, SyncStep, ListClusters, ScanClusters, StoreClusters,
     RemoveResources, ForgetEntries, AuthStep, AskIdentityProviders,
     CreateIdentityProvider, SavePassword, CachePassword, TellPassword, Restart,
     ghosts, unseen
<1> QED  BY <1>1, <1>2

LEMMA CreateListed ==
  ASSUME Inv, Born, Listed, Next, NEW c \in Clusters, CreateStep(c)
  PROVE  Listed'
<1>1. UNCHANGED <<sync, synced>>
  BY DEF CreateStep, CheckCluster, CheckRequest, CountCluster, CreateCluster, Register,
     CreateRoles, ReturnCreate
<1>0. overtaken \subseteq overtaken'
  BY OvertakenStays
<1>2. CASE CreateCluster(c)
  <2>1. /\ UNCHANGED cache
        /\ create[c] = "counted"
        /\ \A d \in Clusters : d # c => ocm'[d] = ocm[d] /\ create'[d] = create[d]
        /\ \/ ocm'[c] = "installing" /\ create'[c] = "created"
           \/ ocm'[c] = ocm[c] /\ create'[c] = "return"
    BY <1>2 DEF CreateCluster, cacheVars, Inv, TypeOK
  <2>2. ocm[c] = "none"
    BY <2>1 DEF Born
  <2>3. ocm'[c] = "installing" => c \in overtaken' \/ \A s \in Syncs : ~Listing(s)
    BY <1>2, <2>2 DEF CreateCluster
  <2>4. ASSUME NEW d \in Clusters \ overtaken', Exists(d)'
        PROVE  /\ \A s \in Syncs : Listing(s)' => sync'[s].list[d] # "none"
               /\ synced' => cache'[d] # "none" \/ create'[d] = "created"
    <3>1. CASE d # c
      BY <1>0, <1>1, <2>1, <2>4, <3>1 DEF Listed, Listing, Exists
    <3>2. CASE d = c
      BY <1>1, <2>1, <2>2, <2>3, <2>4, <3>2 DEF Listing, Exists
    <3> QED  BY <3>1, <3>2
  <2> QED  BY <2>4 DEF Listed
<1>3. CASE Register(c)
  <2>1. /\ UNCHANGED ocm
        /\ cache' = [cache EXCEPT ![c] = IF @ = "none" THEN "installing" ELSE @]
        /\ \/ create' = [create EXCEPT ![c] = "return"]
           \/ create' = [create EXCEPT ![c] = "registered"]
    BY <1>3 DEF Register, ocmVars
  <2>2. cache'[c] # "none" /\ \A d \in Clusters : d # c => cache'[d] = cache[d]
    BY <2>1 DEF Inv, TypeOK
  <2>3. \A d \in Clusters : d # c => create'[d] = create[d]
    BY <2>1 DEF Inv, TypeOK
  <2> QED  BY <1>0, <1>1, <2>1, <2>2, <2>3 DEF Listed, Listing, Exists
<1>4. CASE ~CreateCluster(c) /\ ~Register(c)
  <2>1. UNCHANGED <<ocm, cache>>
    BY <1>4 DEF CreateStep, CheckCluster, CheckRequest, CountCluster, CreateRoles,
       ReturnCreate, cacheVars, ocmVars
  <2>2. \A d \in Clusters : create[d] = "created" => create'[d] = "created"
    BY <1>4 DEF CreateStep, CheckCluster, CheckRequest, CountCluster, CreateRoles,
       ReturnCreate, Inv, TypeOK
  <2> QED  BY <1>0, <1>1, <2>1, <2>2 DEF Listed, Listing, Exists
<1> QED  BY <1>2, <1>3, <1>4

LEMMA SyncListed ==
  ASSUME Inv, Listed, Age, overtaken' = overtaken, NEW s \in Syncs, SyncStep(s)
  PROVE  Listed'
<1> SUFFICES ASSUME NEW c \in Clusters \ overtaken, Exists(c)'
             PROVE  /\ \A t \in Syncs : Listing(t)' => sync'[t].list[c] # "none"
                    /\ synced' => cache'[c] # "none" \/ create'[c] = "created"
  BY DEF Listed
<1>1. Exists(c) /\ ocm'[c] # "none" /\ ocm[c] # "none"
  BY ExistedBefore DEF Exists
<1>2. ASSUME NEW t \in Syncs, Listing(t)' PROVE sync'[t].list[c] # "none"
  <2>1. CASE t # s
    <3>1. sync'[t] = sync[t]
      BY <2>1, SyncLists
    <3> QED  BY <1>1, <1>2, <3>1 DEF Listed, Listing
  <2>2. CASE t = s
    <3>1. sync'[s].pc \in {"listed", "scanned"}
      BY <1>2, <2>2 DEF Listing
    <3>2. \/ sync'[s].list[c] = ocm[c]
          \/ sync'[s].list[c] = ocm'[c]
          \/ sync'[s].list[c] = sync[s].list[c] /\ sync[s].pc = "listed"
      BY <1>1, <3>1, SyncLists DEF ScanClusters
    <3> QED  BY <1>1, <2>2, <3>2 DEF Listed, Listing
  <2> QED  BY <2>1, <2>2
<1>3. UNCHANGED create
  BY DEF SyncStep, ListClusters, ScanClusters, StoreClusters, RemoveResources, ForgetEntries
<1>4. synced' => cache'[c] # "none" \/ create'[c] = "created"
  <2>1. CASE StoreClusters(s)
    BY <1>1, <2>1 DEF StoreClusters, Listed, Listing
  <2>2. CASE ~StoreClusters(s)
    <3>1. UNCHANGED <<cache, synced>>
      BY <2>2 DEF SyncStep, ListClusters, ScanClusters, RemoveResources, ForgetEntries, cacheVars
    <3> QED  BY <1>1, <1>3, <3>1 DEF Listed
  <2> QED  BY <2>1, <2>2
<1> QED  BY <1>2, <1>4

LEMMA RestartListed ==
  ASSUME Restart
  PROVE  Listed'
<1>1. synced' = FALSE
  BY DEF Restart
<1>2. \A s \in Syncs, c \in Clusters : sync'[s].pc = "idle"
  BY IdleFields DEF Restart
<1> QED  BY <1>1, <1>2 DEF Listed, Listing

\* Steps that leave the cache, the lists and the creations alone.
LEMMA AgeListed ==
  ASSUME Listed, Age, UNCHANGED <<create, cache, sync, synced, overtaken>>
  PROVE  Listed'
<1> SUFFICES ASSUME NEW c \in Clusters \ overtaken, Exists(c)'
             PROVE  /\ \A t \in Syncs : Listing(t)' => sync'[t].list[c] # "none"
                    /\ synced' => cache'[c] # "none" \/ create'[c] = "created"
  BY DEF Listed
<1>1. Exists(c)
  BY ExistedBefore
<1> QED  BY <1>1 DEF Listed, Listing

LEMMA InitListed == Init => Listed
  BY DEF Init, Listed, Exists

LEMMA NextListed == Inv /\ Born /\ Listed /\ [Next]_vars => Listed'
<1> SUFFICES ASSUME Inv, Born, Listed, [Next]_vars PROVE Listed'
  OBVIOUS
<1>1. CASE UNCHANGED vars
  <2>1. Age /\ UNCHANGED <<create, cache, sync, synced, overtaken>>
    BY <1>1 DEF vars, cacheVars, ocmVars, ghosts, unseen, Age, Ages
  <2> QED  BY <2>1, AgeListed
<1>2. CASE \E c \in Clusters : CreateStep(c)
  BY <1>2, CreateListed DEF Next
<1>3. CASE Next /\ \A c \in Clusters : ~CreateStep(c)
  <2>0. Age /\ overtaken' = overtaken
    BY <1>3, NextAges, OvertakenStays DEF CreateStep
  <2>1. ASSUME NEW c \in Clusters, Install(c) \/ Uninstall(c) \/ Expire(c) PROVE Listed'
    <3>1. UNCHANGED <<create, cache, sync, synced>>
      BY <2>1 DEF Install, Uninstall, Expire, cacheVars
    <3> QED  BY <2>0, <3>1, AgeListed
  <2>2. ASSUME NEW u \in Users,
               LaunchJobForUser(u) \/ Reserve(u) \/ TerminateJobForUser(u)
        PROVE  Listed'
    <3>1. UNCHANGED <<create, cache, sync, synced>>
      BY <2>2 DEF LaunchJobForUser, Reserve, TerminateJobForUser, cacheVars
    <3> QED  BY <2>0, <3>1, AgeListed
  <2>3. ASSUME NEW c \in Clusters, NEW w \in Workers, AuthStep(c, w) PROVE Listed'
    <3>1. UNCHANGED <<create, cache, sync, synced>>
      BY <2>3 DEF AuthStep, AskIdentityProviders, CreateIdentityProvider, SavePassword,
         CachePassword, TellPassword, cacheVars
    <3> QED  BY <2>0, <3>1, AgeListed
  <2> QED
    BY <1>3, <2>0, <2>1, <2>2, <2>3, RosaAssumption, SyncListed, RestartListed DEF Next
<1> QED  BY <1>1, <1>2, <1>3

-----------------------------------------------------------------------------
(* The AWS resources *)

\* Resources have an entry in the secret; it is there before they are made; the
\* entries to delete are of clusters that are gone, and have no resources any
\* more when they are deleted.
Recorded ==
    \A c \in Clusters \ overtaken :
       /\ c \in aws => secret[c] # Nil
       /\ create[c] = "registered" /\ Exists(c) => secret[c] # Nil
       /\ \A s \in Syncs :
             c \in sync[s].dead => ocm[c] = "gone" /\ (sync[s].pc = "removed" => c \notin aws)

LEMMA GoneStays ==
  ASSUME Age, NEW c \in Clusters, ocm[c] = "gone"
  PROVE  ocm'[c] = "gone"
  BY DEF Age, Ages, Exists

LEMMA CreateRecorded ==
  ASSUME Inv, Born, Recorded, Next, NEW c \in Clusters, CreateStep(c)
  PROVE  Recorded'
<1>0. overtaken \subseteq overtaken'
  BY OvertakenStays
<1>1. UNCHANGED sync
  BY DEF CreateStep, CheckCluster, CheckRequest, CountCluster, CreateCluster, Register,
     CreateRoles, ReturnCreate
<1>2. CASE CreateCluster(c)
  <2>1. /\ UNCHANGED <<aws, secret>>
        /\ create[c] = "counted"
        /\ \A d \in Clusters : d # c => ocm'[d] = ocm[d] /\ create'[d] = create[d]
        /\ create'[c] # "registered"
    BY <1>2 DEF CreateCluster, Inv, TypeOK
  <2>2. ocm[c] = "none"
    BY <2>1 DEF Born
  <2> QED  BY <1>0, <1>1, <2>1, <2>2 DEF Recorded, Exists
<1>3. CASE Register(c)
  <2>1. /\ UNCHANGED <<aws, ocm>>
        /\ secret' \in {secret, [secret EXCEPT ![c] = Empty]}
        /\ create' = [create EXCEPT ![c] = IF secret' = secret THEN "return" ELSE "registered"]
    BY <1>3 DEF Register, UpdateSecret, ocmVars
  <2>2. \A d \in Clusters : secret'[d] = secret[d] \/ secret'[d] # Nil
    BY <2>1, RosaAssumption DEF Inv, TypeOK
  <2>3. /\ \A d \in Clusters : d # c => create'[d] = create[d]
        /\ create'[c] = "registered" => secret'[c] # Nil
    BY <2>1, RosaAssumption DEF Inv, TypeOK
  <2> QED  BY <1>0, <1>1, <2>1, <2>2, <2>3 DEF Recorded, Exists
<1>4. CASE CreateRoles(c)
  <2>1. /\ UNCHANGED <<secret, ocm>>
        /\ create[c] = "registered"
        /\ \A d \in Clusters : create'[d] = "registered" => create[d] = "registered"
        /\ aws' = aws \/ (aws' = aws \cup {c} /\ Exists(c))
    BY <1>4 DEF CreateRoles, ocmVars, Inv, TypeOK
  <2> QED  BY <1>0, <1>1, <2>1 DEF Recorded, Exists
<1>5. CASE ~CreateCluster(c) /\ ~Register(c) /\ ~CreateRoles(c)
  <2>1. UNCHANGED <<ocm, aws, secret>>
    BY <1>5 DEF CreateStep, CheckCluster, CheckRequest, CountCluster, ReturnCreate, ocmVars
  <2>2. \A d \in Clusters : create'[d] = "registered" => create[d] = "registered"
    BY <1>5 DEF CreateStep, CheckCluster, CheckRequest, CountCluster, ReturnCreate, Inv, TypeOK
  <2> QED  BY <1>0, <1>1, <2>1, <2>2 DEF Recorded, Exists
<1> QED  BY <1>2, <1>3, <1>4, <1>5

LEMMA SyncRecorded ==
  ASSUME Inv, Born, Listed, Recorded, Age, overtaken' = overtaken,
         NEW s \in Syncs, SyncStep(s)
  PROVE  Recorded'
<1> SUFFICES ASSUME NEW c \in Clusters \ overtaken
             PROVE  /\ c \in aws' => secret'[c] # Nil
                    /\ create'[c] = "registered" /\ Exists(c)' => secret'[c] # Nil
                    /\ \A t \in Syncs :
                          c \in sync'[t].dead =>
                             ocm'[c] = "gone" /\ (sync'[t].pc = "removed" => c \notin aws')
  BY DEF Recorded
<1>1. UNCHANGED create /\ aws' \subseteq aws
  BY DEF SyncStep, ListClusters, ScanClusters, StoreClusters, RemoveResources, ForgetEntries
<1>2. secret'[c] = secret[c] \/ (c \in sync[s].dead /\ sync[s].pc = "removed")
  BY DEF SyncStep, ListClusters, ScanClusters, StoreClusters, RemoveResources, ForgetEntries,
     UpdateSecret
<1>3. c \in sync[s].dead => ~Exists(c)
  BY DEF Recorded, Exists
<1>4. ASSUME NEW t \in Syncs, c \in sync'[t].dead
      PROVE  ocm'[c] = "gone" /\ (sync'[t].pc = "removed" => c \notin aws')
  <2>1. CASE t # s
    <3>1. sync'[t] = sync[t]
      BY <2>1, SyncLists
    <3>2. ocm[c] = "gone" /\ (sync[t].pc = "removed" => c \notin aws)
      BY <1>4, <3>1 DEF Recorded
    <3> QED  BY <1>1, <3>1, <3>2, GoneStays
  <2>2. CASE t = s
    <3>1. \/ /\ ScanClusters(s)
             /\ sync'[s].pc = "scanned"
             /\ sync[s].list[c] = "none"
             /\ secret[c] # Nil
          \/ /\ c \in sync[s].dead
             /\ sync'[s].pc = "removed" => c \notin aws'
      BY <1>4, <2>2, SyncLists
    <3>2. CASE ScanClusters(s) /\ sync'[s].pc = "scanned" /\ sync[s].list[c] = "none"
               /\ secret[c] # Nil
      <4>1. ocm[c] # "none"
        BY <3>2 DEF Born
      <4>2. ~Exists(c)
        BY <3>2 DEF Listed, Listing, ScanClusters
      <4> QED  BY <2>2, <3>2, <4>1, <4>2, GoneStays DEF Exists
    <3>3. CASE c \in sync[s].dead /\ (sync'[s].pc = "removed" => c \notin aws')
      BY <2>2, <3>3, GoneStays DEF Recorded
    <3> QED  BY <3>1, <3>2, <3>3
  <2> QED  BY <2>1, <2>2
<1> QED  BY <1>1, <1>2, <1>3, <1>4, ExistedBefore DEF Recorded

\* Steps that leave the entries, the resources and rosaSync alone; a new
\* password is an entry, too.
LEMMA AgeRecorded ==
  ASSUME Recorded, Age, UNCHANGED <<create, sync, aws, overtaken>>,
         \A c \in Clusters : secret'[c] = secret[c] \/ secret'[c] # Nil
  PROVE  Recorded'
  BY GoneStays, ExistedBefore DEF Recorded

LEMMA RestartRecorded ==
  ASSUME Recorded, Restart
  PROVE  Recorded'
<1>1. /\ UNCHANGED <<ocm, aws, secret, overtaken>>
      /\ \A c \in Clusters : create'[c] # "registered"
  BY DEF Restart, ocmVars, unseen
<1>2. \A s \in Syncs, c \in Clusters : sync'[s].dead = {}
  BY IdleFields DEF Restart
<1> QED  BY <1>1, <1>2 DEF Recorded

LEMMA InitRecorded == Init => Recorded
<1> SUFFICES ASSUME Init PROVE Recorded
  OBVIOUS
<1>1. \A s \in Syncs, c \in Clusters : sync[s].dead = {}
  BY IdleFields DEF Init
<1>2. aws = {} /\ \A c \in Clusters : create[c] = "none"
  BY DEF Init
<1> QED  BY <1>1, <1>2 DEF Recorded

LEMMA NextRecorded == Inv /\ Born /\ Listed /\ Recorded /\ [Next]_vars => Recorded'
<1> SUFFICES ASSUME Inv, Born, Listed, Recorded, [Next]_vars PROVE Recorded'
  OBVIOUS
<1>1. CASE UNCHANGED vars
  <2>1. Age /\ UNCHANGED <<create, sync, aws, secret, overtaken>>
    BY <1>1 DEF vars, ocmVars, ghosts, unseen, Age, Ages
  <2> QED  BY <2>1, AgeRecorded
<1>2. CASE \E c \in Clusters : CreateStep(c)
  BY <1>2, CreateRecorded DEF Next
<1>3. CASE Next /\ \A c \in Clusters : ~CreateStep(c)
  <2>0. Age /\ overtaken' = overtaken
    BY <1>3, NextAges, OvertakenStays DEF CreateStep
  <2>1. ASSUME NEW c \in Clusters, Install(c) \/ Uninstall(c) \/ Expire(c) PROVE Recorded'
    <3>1. UNCHANGED <<create, sync, aws, secret>>
      BY <2>1 DEF Install, Uninstall, Expire
    <3> QED  BY <2>0, <3>1, AgeRecorded
  <2>2. ASSUME NEW u \in Users,
               LaunchJobForUser(u) \/ Reserve(u) \/ TerminateJobForUser(u)
        PROVE  Recorded'
    <3>1. UNCHANGED <<create, sync, aws, secret>>
      BY <2>2 DEF LaunchJobForUser, Reserve, TerminateJobForUser
    <3> QED  BY <2>0, <3>1, AgeRecorded
  <2>3. ASSUME NEW c \in Clusters, NEW w \in Workers, AuthStep(c, w) PROVE Recorded'
    <3>1. UNCHANGED <<create, sync, aws>>
      BY <2>3 DEF AuthStep, AskIdentityProviders, CreateIdentityProvider, SavePassword,
         CachePassword, TellPassword
    <3>2. UNCHANGED secret \/ secret' = [secret EXCEPT ![c] = w]
      BY <2>3 DEF AuthStep, AskIdentityProviders, CreateIdentityProvider, SavePassword,
         CachePassword, TellPassword
    <3>3. \A d \in Clusters : secret'[d] = secret[d] \/ secret'[d] # Nil
      BY <3>2, RosaAssumption DEF Inv, TypeOK
    <3> QED  BY <2>0, <3>1, <3>3, AgeRecorded
  <2> QED
    BY <1>3, <2>0, <2>1, <2>2, <2>3, RosaAssumption, SyncRecorded, RestartRecorded DEF Next
<1> QED  BY <1>1, <1>2, <1>3

\* The operator roles and the OIDC provider of a cluster are recorded in the
\* secret (createRosaCluster, removeAssociatedAWSResources), under every failing
\* call and crash, unless it was created while a rosaSync worked with an older
\* list.
THEOREM Resources == Spec => []ResourcesAreRecorded
<1>1. Recorded /\ Inv => ResourcesAreRecorded
  BY DEF Recorded, ResourcesAreRecorded, Inv, TypeOK
<1> QED
  BY <1>1, InitInv, InitBorn, InitListed, InitRecorded, NextInv, NextBorn, NextListed,
     NextRecorded, PTL DEF Spec

\* Whatever fails, a rosaSync removes the AWS resources of a cluster that was on
\* every list only when OCM has the cluster no more.
THEOREM LiveResources == Spec => LiveKeepsResources
<1>1. Inv /\ Recorded /\ [Next]_vars
        => [\A c \in Clusters \ overtaken : c \in aws /\ c \notin aws' => ~Exists(c)]_vars
  <2> SUFFICES ASSUME Inv, Recorded, Next, NEW c \in Clusters \ overtaken, c \in aws, c \notin aws'
               PROVE  ~Exists(c)
    BY DEF vars
  <2>1. PICK s \in Syncs : RemoveResources(s)
    BY DEF Next, CreateStep, CheckCluster, CheckRequest, CountCluster, CreateCluster, Register,
       CreateRoles, ReturnCreate, SyncStep, ListClusters, ScanClusters, StoreClusters,
       ForgetEntries, AuthStep, AskIdentityProviders, CreateIdentityProvider, SavePassword,
       CachePassword, TellPassword, LaunchJobForUser, Reserve, TerminateJobForUser, Restart,
       Install, Uninstall, Expire
  <2>2. c \in sync[s].dead
    BY <2>1 DEF RemoveResources
  <2> QED  BY <2>2 DEF Recorded, Exists
<1> QED
  BY <1>1, InitInv, InitBorn, InitListed, InitRecorded, NextInv, NextBorn, NextListed,
     NextRecorded, PTL DEF Spec, LiveKeepsResources

-----------------------------------------------------------------------------
(* Errors are told once *)

\* The bot remembers that it told the error of a cluster while OCM has it.
Reports == \A c \in Clusters \ overtaken : errors[c] # 0 /\ Exists(c) => c \in reported

\* Only the scan of rosaSync and a restart touch what was reported.
LEMMA ReportersOnly ==
  ASSUME Next, \A s \in Syncs : ~ScanClusters(s), ~Restart
  PROVE  UNCHANGED <<errors, reported>>
  BY DEF Next, CreateStep, CheckCluster, CheckRequest, CountCluster, CreateCluster,
     Register, CreateRoles, ReturnCreate, Install, Uninstall, Expire, LaunchJobForUser,
     Reserve, TerminateJobForUser, SyncStep, ListClusters, StoreClusters, RemoveResources,
     ForgetEntries, AuthStep, AskIdentityProviders, CreateIdentityProvider,
     SavePassword, CachePassword, TellPassword, ghosts

LEMMA NextReports == Inv /\ Born /\ Listed /\ Reports /\ [Next]_vars => Reports'
<1> SUFFICES ASSUME Inv, Born, Listed, Reports, [Next]_vars,
                    NEW c \in Clusters \ overtaken', errors'[c] # 0, Exists(c)'
             PROVE  c \in reported'
  BY DEF Reports
<1>0. c \notin overtaken
  BY OvertakenStays DEF vars, ghosts, unseen
<1>1. CASE UNCHANGED vars
  BY <1>0, <1>1 DEF vars, ocmVars, ghosts, Reports, Exists
<1>2. CASE Restart
  BY <1>2 DEF Restart
<1>3. CASE \E s \in Syncs : ScanClusters(s)
  <2> PICK s \in Syncs : ScanClusters(s)
    BY <1>3
  <2>1. Exists(c)
    BY UninstallingAges, ExistedBefore DEF ScanClusters, Inv
  <2>2. sync[s].list[c] # "none"
    BY <1>0, <2>1 DEF ScanClusters, Listed, Listing
  <2>3. errors'[c] = errors[c] \/ c \in markRosaErrorReported(
           {d \in Clusters : sync[s].list[d] = "error" /\ cache[d] # "error"})
    BY DEF ScanClusters
  <2> QED  BY <1>0, <2>1, <2>2, <2>3 DEF ScanClusters, Reports
<1>4. CASE Next /\ ~Restart /\ \A s \in Syncs : ~ScanClusters(s)
  <2>1. UNCHANGED <<errors, reported>>
    BY <1>4, ReportersOnly
  <2>2. CASE \E d \in Clusters : CreateCluster(d)
    <3> PICK d \in Clusters : CreateCluster(d)
      BY <2>2
    <3>1. ocm[d] = "none" /\ (c # d => ocm'[c] = ocm[c])
      BY DEF CreateCluster, Born, Inv, TypeOK
    <3> QED  BY <1>0, <2>1, <3>1 DEF Born, Reports, Exists
  <2>3. CASE \A d \in Clusters : ~CreateCluster(d)
    BY <1>0, <1>4, <2>1, <2>3, NextAges, ExistedBefore DEF Reports
  <2> QED  BY <2>2, <2>3
<1> QED  BY <1>1, <1>2, <1>3, <1>4

\* A process tells the error of a cluster once while OCM has it (rosaSync,
\* markRosaErrorReported), whichever of its rosaSyncs finds it and in whatever
\* order their lists are stored, unless the cluster was created while one of
\* them worked with an older list.
THEOREM ErrorsToldOnce == Spec => ErrorToldOnce
<1>1. Init => Reports
  BY DEF Init, Reports
<1>2. Inv /\ Reports /\ [Next]_vars =>
        [\A c \in Clusters \ overtaken :
            errors[c] = 1 /\ errors'[c] = 2 => ~Exists(c)]_vars
  <2> SUFFICES ASSUME Inv, Reports, Next, NEW c \in Clusters \ overtaken,
                      errors[c] = 1, errors'[c] = 2
               PROVE  ~Exists(c)
    OBVIOUS
  <2>0. ~Restart
    BY DEF Restart
  <2>1. PICK s \in Syncs : ScanClusters(s)
    <3> SUFFICES ASSUME \A s \in Syncs : ~ScanClusters(s) PROVE FALSE
      OBVIOUS
    <3>1. errors' = errors
      BY <2>0, ReportersOnly
    <3> QED  BY <3>1
  <2>2. c \notin reported
    BY <2>1 DEF ScanClusters, markRosaErrorReported
  <2> QED  BY <2>2 DEF Reports
<1> QED
  BY <1>1, <1>2, InitInv, InitBorn, InitListed, NextInv, NextBorn, NextListed, NextReports,
     PTL DEF Spec, ErrorToldOnce

-----------------------------------------------------------------------------
(* No password is told again after a restart *)

\* A cluster whose password was told by an earlier process has its identity
\* provider, and no goroutine gets beyond asking for it.
Silent ==
    \A c \in before :
       /\ idp[c] # Nil
       /\ Exists(c) => told[c] = Nil /\ \A w \in Workers : auth[c][w] \in {"idle", "ask"}

\* Steps that tell nothing.
LEMMA AgeSilent ==
  ASSUME Inv, Silent, Age, UNCHANGED <<before, idp, told, auth>>
  PROVE  Silent'
  BY ExistedBefore DEF Silent, Inv, TypeOK

LEMMA ScanSilent ==
  ASSUME Inv, Silent, NEW s \in Syncs, ScanClusters(s)
  PROVE  Silent'
<1>1. Age
  BY UninstallingAges DEF ScanClusters, Inv
<1>2. UNCHANGED <<before, idp, told>>
  BY DEF ScanClusters
<1>3. \A c \in Clusters, w \in Workers : auth'[c][w] \in {auth[c][w], "ask"}
  <2>1. PICK worker \in [NewlyReady(sync[s].list) -> Workers] :
            auth' = [c \in Clusters |-> IF c \in NewlyReady(sync[s].list)
                                        THEN [auth[c] EXCEPT ![worker[c]] = "ask"] ELSE auth[c]]
    BY DEF ScanClusters
  <2> QED  BY <2>1 DEF Inv, TypeOK
<1> QED  BY <1>1, <1>2, <1>3, ExistedBefore DEF Silent, Inv, TypeOK

LEMMA AuthSilent ==
  ASSUME "idps" \notin Faults, Inv, Silent, NEW c \in Clusters, NEW w \in Workers, AuthStep(c, w)
  PROVE  Silent'
<1>1. UNCHANGED <<before, ocm>>
  BY DEF AuthStep, AskIdentityProviders, CreateIdentityProvider, SavePassword, CachePassword,
     TellPassword, ocmVars, ghosts
<1>2. PICK pc \in AuthPhases : Goto(c, w, pc)
  BY DEF AuthStep, AskIdentityProviders, CreateIdentityProvider, SavePassword, CachePassword,
     TellPassword, AuthPhases
<1>3. \A d \in Clusters, v \in Workers :
         auth'[d][v] = IF d = c /\ v = w THEN pc ELSE auth[d][v]
  BY <1>2, GotoType DEF Inv
<1>4. \A d \in Clusters : idp[d] # Nil => idp'[d] # Nil
  BY RosaAssumption DEF AuthStep, AskIdentityProviders, CreateIdentityProvider, SavePassword,
     CachePassword, TellPassword, ocmVars, Inv, TypeOK
<1>5. \A d \in Clusters : d # c => told'[d] = told[d]
  BY DEF AuthStep, AskIdentityProviders, CreateIdentityProvider, SavePassword,
     CachePassword, TellPassword, ghosts, Inv, TypeOK
<1>6. CASE c \notin before \/ ~Exists(c)
  BY <1>1, <1>3, <1>4, <1>5, <1>6 DEF Silent, Exists, Inv, TypeOK
<1>7. CASE c \in before /\ Exists(c)
  <2>1. idp[c] # Nil /\ auth[c][w] \in {"idle", "ask"} /\ told[c] = Nil
    BY <1>7 DEF Silent
  <2>2. AskIdentityProviders(c, w)
    BY <2>1 DEF AuthStep, AskIdentityProviders, CreateIdentityProvider, SavePassword,
       CachePassword, TellPassword
  <2>3. Goto(c, w, "idle") /\ UNCHANGED told
    BY <1>7, <2>1, <2>2 DEF AskIdentityProviders
  <2>4. \A d \in Clusters, v \in Workers :
           auth'[d][v] = IF d = c /\ v = w THEN "idle" ELSE auth[d][v]
    BY <2>3, GotoType DEF Inv, AuthPhases
  <2> QED  BY <1>1, <1>4, <2>3, <2>4 DEF Silent, Exists, Inv, TypeOK
<1> QED  BY <1>6, <1>7

LEMMA RestartSilent ==
  ASSUME Inv, Silent, Restart
  PROVE  Silent'
<1>1. UNCHANGED <<ocm, idp>>
  BY DEF Restart, ocmVars
<1>2. \A c \in Clusters : told'[c] = Nil /\ \A w \in Workers : auth'[c][w] = "idle"
  BY DEF Restart
<1>3. \A c \in Clusters : told[c] # Nil => idp[c] # Nil
  BY RosaAssumption DEF Inv, TypeOK, Stored, Fits
<1>4. before' = before \cup {c \in Clusters : told[c] # Nil}
  BY DEF Restart
<1> QED  BY <1>1, <1>2, <1>3, <1>4 DEF Silent, Inv, TypeOK

LEMMA NextSilent == "idps" \notin Faults /\ Inv /\ Born /\ Silent /\ [Next]_vars => Silent'
<1> SUFFICES ASSUME "idps" \notin Faults, Inv, Born, Silent, [Next]_vars PROVE Silent'
  OBVIOUS
<1>1. CASE UNCHANGED vars
  <2>1. Age /\ UNCHANGED <<before, idp, told, auth>>
    BY <1>1 DEF vars, ocmVars, ghosts, Age, Ages
  <2> QED  BY <2>1, AgeSilent
<1>2. CASE \E c \in Clusters : CreateCluster(c)
  <2> PICK c \in Clusters : CreateCluster(c)
    BY <1>2
  <2>1. UNCHANGED <<before, idp, told, auth>>
    BY DEF CreateCluster, ghosts
  <2>2. ocm[c] = "none" /\ \A d \in Clusters : d # c => ocm'[d] = ocm[d]
    BY DEF CreateCluster, Born, Inv, TypeOK
  <2>3. c \notin before
    BY <2>2 DEF Silent, Born
  <2> QED  BY <2>1, <2>2, <2>3 DEF Silent, Exists, Inv, TypeOK
<1>3. CASE Next /\ \A c \in Clusters : ~CreateCluster(c)
  <2>0. Age
    BY <1>3, NextAges
  <2>1. ASSUME NEW c \in Clusters, CreateStep(c) \/ Install(c) \/ Uninstall(c) \/ Expire(c)
        PROVE  Silent'
    <3>1. UNCHANGED <<before, idp, told, auth>>
      BY <1>3, <2>1 DEF CreateStep, CheckCluster, CheckRequest, CountCluster, Register,
         CreateRoles, ReturnCreate, Install, Uninstall, Expire, ocmVars, ghosts
    <3> QED  BY <2>0, <3>1, AgeSilent
  <2>2. ASSUME NEW u \in Users,
               LaunchJobForUser(u) \/ Reserve(u) \/ TerminateJobForUser(u)
        PROVE  Silent'
    <3>1. UNCHANGED <<before, idp, told, auth>>
      BY <2>2 DEF LaunchJobForUser, Reserve, TerminateJobForUser, ocmVars, ghosts
    <3> QED  BY <2>0, <3>1, AgeSilent
  <2>3. ASSUME NEW s \in Syncs, SyncStep(s), ~ScanClusters(s) PROVE Silent'
    <3>1. UNCHANGED <<before, idp, told, auth>>
      BY <2>3 DEF SyncStep, ListClusters, StoreClusters, RemoveResources, ForgetEntries,
         ocmVars, ghosts
    <3> QED  BY <2>0, <3>1, AgeSilent
  <2> QED
    BY <1>3, <2>1, <2>2, <2>3, RosaAssumption, ScanSilent, AuthSilent, RestartSilent DEF Next
<1> QED  BY <1>1, <1>2, <1>3

\* The password of a cluster that OCM has is not told again after a restart
\* (rosaSync: "don't renotify users on chat-bot restart"), whatever fails but
\* GetIdentityProviders.
THEOREM NoRenotification == "idps" \notin Faults => (Spec => []NotRenotified)
<1> SUFFICES ASSUME "idps" \notin Faults PROVE Spec => []NotRenotified
  OBVIOUS
<1>1. Init => Silent
  BY DEF Init, Silent
<1>2. Silent => NotRenotified
  BY DEF Silent, NotRenotified
<1> QED
  BY <1>1, <1>2, InitInv, InitBorn, NextInv, NextBorn, NextSilent, PTL DEF Spec

-----------------------------------------------------------------------------
(* The limit *)

Cached == {c \in Clusters : cache[c] # "none"}
Begun == {c \in Clusters : create[c] # "none"}
InFlight == {c \in Clusters : create[c] \in {"counted", "created", "registered", "return"}}
Taken == (InFlight \cup {c \in Clusters : Exists(c)}) \ (overtaken \cup hasty)

\* pendingClusters is the number of creations that passed the limit, and these
\* together with the clusters of OCM are within the limit, as far as the bot
\* could see them.
Counts ==
    /\ IsFiniteSet(Begun)
    /\ pending = Cardinality(InFlight)
    /\ Limit # 0 => Cardinality(Taken) <= Limit

LEMMA CountedAreFinite ==
  ASSUME Born, IsFiniteSet(Begun)
  PROVE  /\ IsFiniteSet(InFlight) /\ Cardinality(InFlight) \in Nat
         /\ IsFiniteSet(Cached) /\ Cardinality(Cached) \in Nat
         /\ IsFiniteSet(Taken) /\ Cardinality(Taken) \in Nat
<1>1. InFlight \subseteq Begun
  BY DEF InFlight, Begun
<1>2. Taken \subseteq Begun
  BY DEF Taken, InFlight, Begun, Born, Exists
<1>3. Cached \subseteq Begun
  BY DEF Cached, Begun, Born, Knows
<1> QED  BY <1>1, <1>2, <1>3, FS_Subset, FS_CardinalityType

\* A cluster that was set apart stays so.
LEMMA UnseenStays ==
  ASSUME Inv, [Next]_vars
  PROVE  overtaken \subseteq overtaken' /\ hasty \subseteq hasty'
<1>1. CASE UNCHANGED vars
  BY <1>1 DEF vars, ghosts, unseen
<1>2. CASE \E c \in Clusters : CountCluster(c)
  BY <1>2, OvertakenStays DEF CountCluster
<1>3. CASE Next /\ \A c \in Clusters : ~CountCluster(c)
  <2>1. hasty' = hasty
    BY <1>3 DEF Next, CreateStep, CheckCluster, CheckRequest, CreateCluster, Register,
       CreateRoles, ReturnCreate, Install, Uninstall, Expire, LaunchJobForUser, Reserve,
       TerminateJobForUser, SyncStep, ListClusters, ScanClusters, StoreClusters,
       RemoveResources, ForgetEntries, AuthStep, AskIdentityProviders,
       CreateIdentityProvider, SavePassword, CachePassword, TellPassword, Restart,
       ghosts, unseen
  <2> QED  BY <1>3, <2>1, OvertakenStays
<1> QED  BY <1>1, <1>2, <1>3

\* Fewer clusters are within the limit, too.
LEMMA FewerTaken ==
  ASSUME Born, Counts, Taken' \subseteq Taken
  PROVE  Limit # 0 => Cardinality(Taken') <= Limit
<1>1. IsFiniteSet(Taken) /\ Cardinality(Taken) \in Nat
  BY CountedAreFinite DEF Counts
<1>2. Cardinality(Taken') <= Cardinality(Taken) /\ Cardinality(Taken') \in Nat
  BY <1>1, FS_Subset, FS_CardinalityType
<1> QED  BY <1>1, <1>2, RosaAssumption DEF Counts

\* Steps that leave the creations alone.
LEMMA AgeCounts ==
  ASSUME Inv, Born, Counts, Age, [Next]_vars, UNCHANGED <<create, pending>>
  PROVE  Counts'
<1>1. InFlight' = InFlight /\ Begun' = Begun
  BY DEF InFlight, Begun
<1>2. Taken' \subseteq Taken
  BY <1>1, ExistedBefore, UnseenStays DEF Taken
<1> QED  BY <1>1, <1>2, FewerTaken DEF Counts

\* The check of the limit counts every cluster, unless the cache is empty, and
\* then the new one is set apart.
LEMMA CountClusterCounts ==
  ASSUME Inv, Born, Listed, Counts, [Next]_vars, NEW c \in Clusters, CountCluster(c)
  PROVE  Counts'
<1>0. /\ create[c] = "free" /\ UNCHANGED ocm
      /\ \A d \in Clusters : d # c => create'[d] = create[d]
      /\ create'[c] \in {"ended", "counted"}
  BY DEF CountCluster, ocmVars, Inv, TypeOK
<1>1. Begun' = Begun
  BY <1>0 DEF Begun
<1>2. overtaken \subseteq overtaken' /\ hasty \subseteq hasty'
  BY UnseenStays
<1>3. CASE Limit # 0 /\ Counted >= Limit
  <2>1. create' = [create EXCEPT ![c] = "ended"] /\ UNCHANGED pending
    BY <1>3 DEF CountCluster
  <2>2. InFlight' = InFlight
    BY <1>0, <2>1 DEF InFlight, Inv, TypeOK
  <2>3. Taken' \subseteq Taken
    BY <1>0, <1>2, <2>2 DEF Taken, Exists
  <2> QED  BY <1>1, <2>1, <2>2, <2>3, FewerTaken DEF Counts
<1>4. CASE ~(Limit # 0 /\ Counted >= Limit)
  <2>1. create' = [create EXCEPT ![c] = "counted"] /\ pending' = pending + 1
    BY <1>4 DEF CountCluster
  <2>2. InFlight' = InFlight \cup {c} /\ c \notin InFlight
    BY <1>0, <2>1 DEF InFlight, Inv, TypeOK
  <2>3. Taken' \subseteq Taken \cup {c}
    BY <1>0, <1>2, <2>2 DEF Taken, Exists
  <2>4. synced => Taken \subseteq Cached \cup InFlight
    BY DEF Taken, Cached, InFlight, Listed
  <2>5. /\ IsFiniteSet(InFlight) /\ Cardinality(InFlight) \in Nat
        /\ IsFiniteSet(Cached) /\ Cardinality(Cached) \in Nat
        /\ IsFiniteSet(Taken) /\ Cardinality(Taken) \in Nat
    BY CountedAreFinite DEF Counts
  <2>6. Cardinality(InFlight') = Cardinality(InFlight) + 1
    BY <2>2, <2>5, FS_AddElement
  <2>7. Cardinality(Taken') \in Nat /\ Cardinality(Taken') <= Cardinality(Taken) + 1
    <3>1. /\ IsFiniteSet(Taken \cup {c})
          /\ Cardinality(Taken \cup {c}) \in {Cardinality(Taken), Cardinality(Taken) + 1}
      BY <2>5, FS_AddElement
    <3>2. IsFiniteSet(Taken') /\ Cardinality(Taken') <= Cardinality(Taken \cup {c})
      BY <2>3, <3>1, FS_Subset
    <3>3. Cardinality(Taken') \in Nat
      BY <3>2, FS_CardinalityType
    <3> QED  BY <2>5, <3>1, <3>2, <3>3
  <2>8. synced => Cardinality(Taken) <= Cardinality(Cached) + Cardinality(InFlight)
    <3>1. IsFiniteSet(Cached \cup InFlight)
          /\ Cardinality(Cached \cup InFlight) <= Cardinality(Cached) + Cardinality(InFlight)
      <4>1. IsFiniteSet(Cached \cap InFlight) /\ Cardinality(Cached \cap InFlight) \in Nat
        BY <2>5, FS_Intersection, FS_CardinalityType
      <4>2. /\ IsFiniteSet(Cached \cup InFlight)
            /\ Cardinality(Cached \cup InFlight) =
                 Cardinality(Cached) + Cardinality(InFlight) - Cardinality(Cached \cap InFlight)
        BY <2>5, FS_Union
      <4> QED  BY <2>5, <4>1, <4>2
    <3>2. /\ synced => Cardinality(Taken) <= Cardinality(Cached \cup InFlight)
          /\ Cardinality(Cached \cup InFlight) \in Nat
      BY <2>4, <3>1, FS_Subset, FS_CardinalityType
    <3> QED  BY <2>5, <3>1, <3>2
  <2>9. Counted = Cardinality(Cached) + Cardinality(InFlight)
    BY DEF Counted, Cached, Counts
  <2>10. Limit # 0 => Cardinality(Taken') <= Limit
    <3>1. CASE synced
      BY <1>4, <2>5, <2>7, <2>8, <2>9, <3>1, RosaAssumption
    <3>2. CASE ~synced
      <4>1. c \in hasty'
        BY <1>4, <3>2 DEF CountCluster
      <4>2. Taken' \subseteq Taken
        BY <2>3, <4>1 DEF Taken
      <4> QED  BY <4>2, FewerTaken
    <3> QED  BY <3>1, <3>2
  <2>11. pending' = Cardinality(InFlight')
    BY <2>1, <2>6 DEF Counts
  <2> QED  BY <1>1, <2>10, <2>11 DEF Counts
<1> QED  BY <1>3, <1>4

LEMMA CreateCounts ==
  ASSUME Inv, Born, Listed, Counts, [Next]_vars, NEW c \in Clusters, CreateStep(c)
  PROVE  Counts'
<1>0. overtaken \subseteq overtaken' /\ hasty \subseteq hasty'
  BY UnseenStays
<1>1. CASE CheckCluster(c)
  <2>1. /\ create[c] = "none" /\ create'[c] \in {"checked", "ended"}
        /\ \A d \in Clusters : d # c => create'[d] = create[d]
        /\ UNCHANGED <<ocm, pending>>
    BY <1>1 DEF CheckCluster, cacheVars, ocmVars, Inv, TypeOK
  <2>2. InFlight' = InFlight /\ Begun' = Begun \cup {c}
    BY <2>1 DEF InFlight, Begun
  <2>3. Taken' \subseteq Taken
    BY <1>0, <2>1, <2>2 DEF Taken, Exists
  <2>4. IsFiniteSet(Begun')
    BY <2>2, FS_AddElement DEF Counts
  <2> QED  BY <2>1, <2>2, <2>3, <2>4, FewerTaken DEF Counts
<1>2. CASE CheckRequest(c)
  <2>1. /\ create[c] = "checked" /\ create'[c] \in {"free", "ended"}
        /\ \A d \in Clusters : d # c => create'[d] = create[d]
        /\ UNCHANGED <<ocm, pending>>
    BY <1>2 DEF CheckRequest, cacheVars, ocmVars, Inv, TypeOK
  <2>2. InFlight' = InFlight /\ Begun' = Begun
    BY <2>1 DEF InFlight, Begun
  <2>3. Taken' \subseteq Taken
    BY <1>0, <2>1, <2>2 DEF Taken, Exists
  <2> QED  BY <2>1, <2>2, <2>3, FewerTaken DEF Counts
<1>3. CASE CountCluster(c)
  BY <1>3, CountClusterCounts
<1>4. CASE CreateCluster(c) \/ Register(c) \/ CreateRoles(c)
  <2>1. /\ create[c] \in {"counted", "created", "registered"}
        /\ create'[c] \in {"created", "registered", "return"}
        /\ \A d \in Clusters : d # c => create'[d] = create[d] /\ ocm'[d] = ocm[d]
        /\ UNCHANGED pending
    BY <1>4 DEF CreateCluster, Register, CreateRoles, cacheVars, ocmVars, Inv, TypeOK
  <2>2. InFlight' = InFlight /\ Begun' = Begun /\ c \in InFlight
    BY <2>1 DEF InFlight, Begun
  <2>3. Taken' \subseteq Taken
    BY <1>0, <2>1, <2>2 DEF Taken, Exists
  <2> QED  BY <2>1, <2>2, <2>3, FewerTaken DEF Counts
<1>5. CASE ReturnCreate(c)
  <2>1. /\ create[c] = "return" /\ create'[c] = "ended"
        /\ \A d \in Clusters : d # c => create'[d] = create[d]
        /\ UNCHANGED ocm /\ pending' = pending - 1
    BY <1>5 DEF ReturnCreate, ocmVars, Inv, TypeOK
  <2>2. InFlight' = InFlight \ {c} /\ Begun' = Begun /\ c \in InFlight
    BY <2>1 DEF InFlight, Begun
  <2>3. Taken' \subseteq Taken
    BY <1>0, <2>1, <2>2 DEF Taken, Exists
  <2>4. pending' = Cardinality(InFlight')
    BY <2>1, <2>2, CountedAreFinite, FS_RemoveElement DEF Counts
  <2> QED  BY <2>2, <2>3, <2>4, FewerTaken DEF Counts
<1> QED  BY <1>1, <1>2, <1>3, <1>4, <1>5 DEF CreateStep

LEMMA RestartCounts ==
  ASSUME Inv, Born, Counts, Restart
  PROVE  Counts'
<1>1. /\ \A c \in Clusters : create'[c] = IF create[c] = "none" THEN "none" ELSE "ended"
      /\ pending' = 0 /\ UNCHANGED <<ocm, overtaken, hasty>>
  BY DEF Restart, ocmVars, unseen
<1>2. InFlight' = {} /\ Begun' = Begun
  BY <1>1 DEF InFlight, Begun
<1>3. Taken' \subseteq Taken
  BY <1>1, <1>2 DEF Taken, Exists
<1> QED  BY <1>1, <1>2, <1>3, FewerTaken, FS_EmptySet DEF Counts

LEMMA InitCounts == Init => Counts
<1> SUFFICES ASSUME Init PROVE Counts
  OBVIOUS
<1>1. Begun = {} /\ InFlight = {} /\ Taken = {}
  BY DEF Init, Begun, InFlight, Taken, Exists
<1>2. pending = 0
  BY DEF Init
<1> QED  BY <1>1, <1>2, FS_EmptySet, RosaAssumption DEF Counts

LEMMA NextCounts ==
  ASSUME Inv, Born, Listed, Counts, [Next]_vars
  PROVE  Counts'
<1>1. CASE UNCHANGED vars
  <2>1. Age /\ UNCHANGED <<create, pending>>
    BY <1>1 DEF vars, cacheVars, ocmVars, Age, Ages
  <2> QED  BY <2>1, AgeCounts
<1>2. CASE \E c \in Clusters : CreateStep(c)
  BY <1>2, CreateCounts
<1>3. CASE Next /\ \A c \in Clusters : ~CreateStep(c)
  <2>0. Age
    BY <1>3, NextAges DEF CreateStep
  <2>1. CASE Restart
    BY <2>1, RestartCounts
  <2>2. CASE ~Restart
    <3>1. UNCHANGED <<create, pending>>
      BY <1>3, <2>2 DEF Next, Install, Uninstall, Expire, LaunchJobForUser, Reserve,
         TerminateJobForUser, SyncStep, ListClusters, ScanClusters, StoreClusters,
         RemoveResources, ForgetEntries, AuthStep, AskIdentityProviders,
         CreateIdentityProvider, SavePassword, CachePassword, TellPassword, cacheVars
    <3> QED  BY <2>0, <3>1, AgeCounts
  <2> QED  BY <2>1, <2>2
<1> QED  BY <1>1, <1>2, <1>3

\* OCM never has more clusters than rosaClusterLimit (CreateRosaCluster), with
\* any number of creations and rosaSyncs at a time and after every restart,
\* besides those created while a rosaSync worked with an older list and those
\* admitted before the first rosaSync.
THEOREM ClusterLimit == Spec => []SeenWithinLimit
<1>1. Born /\ Counts => SeenWithinLimit
  <2> DEFINE E == {c \in Clusters : Exists(c)} \ (overtaken \cup hasty)
  <2> SUFFICES ASSUME Born, Counts, Limit # 0 PROVE Cardinality(E) <= Limit
    BY DEF SeenWithinLimit
  <2>1. E \subseteq Taken
    BY DEF Taken
  <2>2. IsFiniteSet(Taken) /\ Cardinality(Taken) \in Nat
    BY CountedAreFinite DEF Counts
  <2>3. Cardinality(E) <= Cardinality(Taken) /\ Cardinality(E) \in Nat
    BY <2>1, <2>2, FS_Subset, FS_CardinalityType
  <2> HIDE DEF E
  <2> QED  BY <2>2, <2>3, RosaAssumption DEF Counts
<1>2. Inv /\ Born /\ Listed /\ Counts /\ [Next]_vars => Counts'
  BY NextCounts
<1> QED
  BY <1>1, <1>2, InitInv, InitBorn, InitListed, InitCounts, NextInv, NextBorn, NextListed,
     PTL DEF Spec

-----------------------------------------------------------------------------
(* One cluster per user *)

Asking(c) == create[c] \notin {"none", "ended"}

\* The live clusters that a list could show.
Shown(c) == Live(c) /\ c \notin overtaken

\* Without twice: while a user's creation is under way the user has no other
\* cluster and no other command, and who has a cluster has no launched one.
Alone ==
    \A c \in Clusters :
       /\ Asking(c) => launch[OwnerOf[c]] # "checked"
       /\ Shown(c) \/ create[c] \in {"free", "counted"} => launch[OwnerOf[c]] = "none"
       /\ \A d \in Clusters :
             d # c /\ OwnerOf[c] = OwnerOf[d] =>
                /\ ~(Asking(c) /\ Asking(d))
                /\ ~(Asking(c) /\ Shown(d))
                /\ ~(Shown(c) /\ Shown(d))

LEMMA ShownBefore ==
  ASSUME Age, overtaken \subseteq overtaken', NEW c \in Clusters
  PROVE  Shown(c)' => Shown(c)
  BY DEF Age, Ages, Live, Shown

\* getROSAClusterForUser finds every such cluster, but one that is just created.
LEMMA ShownIsFound ==
  ASSUME Inv, Born, Listed, synced, NEW c \in Clusters, Shown(c), create[c] # "created"
  PROVE  c \in getROSAClusterForUser(OwnerOf[c])
<1>1. Exists(c) /\ Live(c) /\ c \notin overtaken
  BY DEF Shown, Live, Exists
<1>2. cache[c] # "none"
  BY <1>1 DEF Listed
<1>3. cache[c] # "uninstalling"
  BY <1>1 DEF Born, Knows, Live
<1> QED  BY <1>2, <1>3 DEF getROSAClusterForUser

\* A user who may ask and is found to have no cluster has none.
LEMMA FreeUser ==
  ASSUME Inv, Born, Listed, "early" \notin Faults, "twice" \notin Faults,
         NEW u, MayAsk(u)
  PROVE  /\ synced /\ launch[u] # "checked"
         /\ \A c \in Clusters : OwnerOf[c] = u => ~Asking(c)
         /\ getROSAClusterForUser(u) = {} => \A c \in Clusters : OwnerOf[c] = u => ~Shown(c)
<1>1. synced /\ launch[u] # "checked" /\ \A c \in Clusters : OwnerOf[c] = u => ~Asking(c)
  BY DEF MayAsk, Busy, Asking
<1>2. ASSUME NEW c \in Clusters, OwnerOf[c] = u, Shown(c) PROVE getROSAClusterForUser(u) # {}
  BY <1>1, <1>2, ShownIsFound DEF Asking
<1> QED  BY <1>1, <1>2

\* Steps that leave the commands alone.
LEMMA AgeAlone ==
  ASSUME Alone, Age, overtaken \subseteq overtaken', UNCHANGED <<create, launch>>
  PROVE  Alone'
<1>1. \A c \in Clusters : Shown(c)' => Shown(c)
  BY ShownBefore
<1>2. \A c \in Clusters : Asking(c)' <=> Asking(c)
  BY DEF Asking
<1> QED  BY <1>1, <1>2 DEF Alone

LEMMA CreateAlone ==
  ASSUME Inv, Born, Listed, Alone, Next, "early" \notin Faults, "twice" \notin Faults,
         NEW c \in Clusters, CreateStep(c)
  PROVE  Alone'
<1>0. UNCHANGED launch
  BY DEF CreateStep, CheckCluster, CheckRequest, CountCluster, CreateCluster, Register,
     CreateRoles, ReturnCreate
<1>1. \A d \in Clusters : d # c => create'[d] = create[d] /\ (Asking(d)' <=> Asking(d))
  BY DEF CreateStep, CheckCluster, CheckRequest, CountCluster, CreateCluster, Register,
     CreateRoles, ReturnCreate, Inv, TypeOK, Asking
<1>4. overtaken \subseteq overtaken'
  BY OvertakenStays
<1>2. CASE CheckCluster(c)
  <2>1. UNCHANGED ocm /\ MayAsk(OwnerOf[c])
        /\ create'[c] = IF getROSAClusterForUser(OwnerOf[c]) = {} THEN "checked" ELSE "ended"
    BY <1>2 DEF CheckCluster, ocmVars, Inv, TypeOK
  <2>2. \A d \in Clusters : Shown(d)' => Shown(d)
    BY <1>4, <2>1 DEF Shown, Live
  <2>3. /\ launch[OwnerOf[c]] # "checked"
        /\ \A d \in Clusters : OwnerOf[d] = OwnerOf[c] => ~Asking(d)
        /\ Asking(c)' => \A d \in Clusters : OwnerOf[d] = OwnerOf[c] => ~Shown(d)
    BY <2>1, FreeUser DEF Asking
  <2>4. create'[c] \notin {"free", "counted"}
    BY <2>1
  <2> QED  BY <1>0, <1>1, <2>2, <2>3, <2>4 DEF Alone
<1>3. CASE ~CheckCluster(c)
  <2>1. Asking(c)
    BY <1>3 DEF CreateStep, CheckRequest, CountCluster, CreateCluster, Register, CreateRoles,
       ReturnCreate, Asking
  <2>2. \A d \in Clusters : d # c => (Shown(d)' => Shown(d))
    BY <1>3, <1>4 DEF CreateStep, CheckRequest, CountCluster, CreateCluster, Register, CreateRoles,
       ReturnCreate, Shown, Live, ocmVars, Inv, TypeOK
  <2>3. create'[c] \in {"free", "counted"} =>
           create[c] \in {"free", "counted"} \/ launch[OwnerOf[c]] = "none"
    <3>1. launch[OwnerOf[c]] \in {"none", "running"}
      BY <2>1, RosaAssumption DEF Alone, Inv, TypeOK
    <3> QED
      BY <1>3, <3>1 DEF CreateStep, CheckRequest, CountCluster, CreateCluster, Register,
         CreateRoles, ReturnCreate, Inv, TypeOK
  <2>4. Shown(c)' => Shown(c) \/ create[c] = "counted"
    BY <1>3, <1>4 DEF CreateStep, CheckRequest, CountCluster, CreateCluster, Register, CreateRoles,
       ReturnCreate, Shown, Live, ocmVars, Inv, TypeOK
  <2>5. launch[OwnerOf[c]] # "checked" /\ (Shown(c)' => launch[OwnerOf[c]] = "none")
    BY <2>1, <2>4 DEF Alone
  <2>6. \A d \in Clusters : d # c /\ OwnerOf[d] = OwnerOf[c] => ~Asking(d) /\ ~Shown(d)
    BY <2>1 DEF Alone
  <2> QED  BY <1>0, <1>1, <2>2, <2>3, <2>5, <2>6 DEF Alone
<1> QED  BY <1>2, <1>3

LEMMA CommandAlone ==
  ASSUME Inv, Born, Listed, Alone, Next, "early" \notin Faults, "twice" \notin Faults,
         NEW u \in Users,
         LaunchJobForUser(u) \/ Reserve(u) \/ TerminateJobForUser(u)
  PROVE  Alone'
<1>4. overtaken \subseteq overtaken'
  BY OvertakenStays
<1>0. UNCHANGED create /\ \A c \in Clusters : Asking(c)' <=> Asking(c)
  BY DEF LaunchJobForUser, Reserve, TerminateJobForUser, Asking
<1>1. CASE LaunchJobForUser(u)
  <2>1. UNCHANGED ocm /\ launch' = [launch EXCEPT ![u] = "checked"]
    BY <1>1 DEF LaunchJobForUser, ocmVars
  <2>2. \A c \in Clusters : OwnerOf[c] = u => ~Shown(c) /\ ~Asking(c)
    BY <1>1, FreeUser DEF LaunchJobForUser
  <2>3. \A c \in Clusters : /\ Shown(c)' => Shown(c)
                            /\ OwnerOf[c] # u => launch'[OwnerOf[c]] = launch[OwnerOf[c]]
    BY <1>4, <2>1, RosaAssumption DEF Shown, Live, Inv, TypeOK
  <2> QED  BY <1>0, <2>2, <2>3 DEF Alone, Asking
<1>2. CASE Reserve(u)
  <2>1. UNCHANGED ocm /\ launch[u] = "checked"
        /\ \A v \in Users : v # u => launch'[v] = launch[v]
    BY <1>2 DEF Reserve, ocmVars, Inv, TypeOK
  <2>2. \A c \in Clusters : OwnerOf[c] = u => ~Shown(c) /\ ~Asking(c)
    BY <2>1 DEF Alone
  <2>3. \A c \in Clusters : /\ Shown(c)' => Shown(c)
                            /\ OwnerOf[c] # u => launch'[OwnerOf[c]] = launch[OwnerOf[c]]
    BY <1>4, <2>1, RosaAssumption DEF Shown, Live
  <2> QED  BY <1>0, <2>2, <2>3 DEF Alone, Asking
<1>3. CASE TerminateJobForUser(u)
  <2>1. \A v \in Users : launch'[v] = launch[v] \/ launch'[v] = "none"
    BY <1>3 DEF TerminateJobForUser, Inv, TypeOK
  <2>2. Age
    <3>1. UNCHANGED ocm => Age
      BY DEF Age, Ages
    <3> QED  BY <1>3, <3>1, UninstallingAges DEF TerminateJobForUser, Inv
  <2>3. \A c \in Clusters : /\ Shown(c)' => Shown(c)
                            /\ launch'[OwnerOf[c]] \in {launch[OwnerOf[c]], "none"}
    BY <1>4, <2>1, <2>2, ShownBefore, RosaAssumption
  <2> QED  BY <1>0, <2>3 DEF Alone
<1> QED  BY <1>1, <1>2, <1>3

LEMMA RestartAlone ==
  ASSUME Inv, Alone, Restart
  PROVE  Alone'
<1>1. /\ UNCHANGED <<ocm, overtaken>>
      /\ \A c \in Clusters : ~Asking(c)' /\ create'[c] \notin {"free", "counted"}
  BY DEF Restart, ocmVars, unseen, Asking
<1>2. \A u \in Users : launch[u] = "none" => launch'[u] = "none"
  BY DEF Restart
<1>3. \A c \in Clusters : Shown(c)' <=> Shown(c)
  BY <1>1 DEF Shown, Live
<1> QED  BY <1>1, <1>2, <1>3, RosaAssumption DEF Alone

LEMMA NextAlone ==
  ASSUME "early" \notin Faults, "twice" \notin Faults, Inv, Born, Listed, Alone, [Next]_vars
  PROVE  Alone'
<1>1. CASE UNCHANGED vars
  <2>1. Age /\ UNCHANGED <<create, launch, overtaken>>
    BY <1>1 DEF vars, ocmVars, ghosts, unseen, Age, Ages
  <2> QED  BY <2>1, AgeAlone
<1>2. CASE \E c \in Clusters : CreateStep(c)
  BY <1>2, CreateAlone DEF Next
<1>3. CASE Next /\ \A c \in Clusters : ~CreateStep(c)
  <2>0. Age /\ overtaken \subseteq overtaken'
    BY <1>3, NextAges, OvertakenStays DEF CreateStep
  <2>1. ASSUME UNCHANGED <<create, launch>> PROVE Alone'
    BY <2>0, <2>1, AgeAlone
  <2>2. ASSUME NEW c \in Clusters, Install(c) \/ Uninstall(c) \/ Expire(c) PROVE Alone'
    BY <2>1, <2>2 DEF Install, Uninstall, Expire
  <2>3. ASSUME NEW s \in Syncs, SyncStep(s) PROVE Alone'
    BY <2>1, <2>3 DEF SyncStep, ListClusters, ScanClusters, StoreClusters, RemoveResources,
       ForgetEntries
  <2>4. ASSUME NEW c \in Clusters, NEW w \in Workers, AuthStep(c, w) PROVE Alone'
    BY <2>1, <2>4 DEF AuthStep, AskIdentityProviders, CreateIdentityProvider, SavePassword,
       CachePassword, TellPassword
  <2> QED
    BY <1>3, <2>2, <2>3, <2>4, RosaAssumption, CommandAlone, RestartAlone DEF Next
<1> QED  BY <1>1, <1>2, <1>3

\* A user has one cluster, from rosa create or from launch (CreateRosaCluster,
\* LaunchJobForUser), who waits for the answer to a command before the next and
\* is served after the first rosaSync, besides the clusters created while a
\* rosaSync worked with an older list.
THEOREM OneCluster == Faults \cap {"early", "twice"} = {} => (Spec => []OnePerUser)
<1> SUFFICES ASSUME "early" \notin Faults, "twice" \notin Faults PROVE Spec => []OnePerUser
  OBVIOUS
<1>1. Init => Alone
  BY DEF Init, Alone, Asking, Shown, Live
<1>2. Alone /\ Inv => OnePerUser
  <2> SUFFICES ASSUME Alone, Inv, NEW u \in Users
               PROVE  Cardinality({c \in Clusters \ overtaken : OwnerOf[c] = u /\ Live(c)})
                        + (IF launch[u] = "running" THEN 1 ELSE 0) <= 1
    BY DEF OnePerUser
  <2> DEFINE L == {c \in Clusters \ overtaken : OwnerOf[c] = u /\ Live(c)}
  <2>1. CASE L = {}
    <3>1. Cardinality(L) = 0
      BY <2>1, FS_EmptySet
    <3> QED  BY <3>1
  <2>2. CASE L # {}
    <3>1. PICK c \in L : TRUE
      BY <2>2
    <3>2. launch[u] = "none"
      BY <3>1 DEF Alone, Shown
    <3>3. L = {c}
      BY <3>1 DEF Alone, Shown
    <3>4. Cardinality(L) = 1
      BY <3>3, FS_Singleton
    <3> QED  BY <3>2, <3>4
  <2> QED  BY <2>1, <2>2
<1>3. Inv /\ Born /\ Listed /\ Alone /\ [Next]_vars => Alone'
  BY NextAlone
<1> QED
  BY <1>1, <1>2, <1>3, InitInv, InitBorn, InitListed, NextInv, NextBorn, NextListed,
     PTL DEF Spec

=============================================================================
