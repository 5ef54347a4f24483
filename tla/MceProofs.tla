------------------------------ MODULE MceProofs -----------------------------
(***************************************************************************)
(* A cluster is annotated as notified only when its owner was told or the  *)
(* attempts were used up: for every number of clusters and attempts, with  *)
(* every failure and restart that Mce has. Then, each without the faults   *)
(* that its theorem names: an available cluster and a failed attempt are   *)
(* told once, and no live cluster is deleted as a stale one.               *)
(***************************************************************************)
EXTENDS Mce, TLAPS

Marked == sync.mark # Nil => ToldOrTried(sync.mark)
Counted == \A n \in Clusters : attempts["ready"][n] <= tried[n]
Inv == TypeOK /\ NotifiedIsTold /\ Marked /\ Counted

LEMMA InvIsNotifiedInv == Inv => NotifiedInv
  BY DEF Inv, NotifiedInv, Marked, Counted

-----------------------------------------------------------------------------
(* Types *)

LEMMA NoViewType == NoView \in View
  BY DEF NoView, View, Deployments, NoProvision, Provisions, MaxTries

LEMMA IdleType == Idle \in SyncRecord
  BY NoViewType DEF Idle, SyncRecord

LEMMA ReplaceType ==
  ASSUME TypeOK, NEW doomed, NEW made \in SUBSET Clusters, Replace(doomed, made)
  PROVE  /\ imagesets' \in SUBSET Clusters
         /\ deployed' \in [Clusters -> Deployments]
         /\ managed' \in [Clusters -> {"none", "there", "deleting", "gone"}]
  BY DEF TypeOK, Replace, Deployments

LEMMA CountUpToType ==
  ASSUME NEW bound \in Nat, NEW f \in [Clusters -> 0..bound], NEW n \in Clusters
  PROVE  /\ CountUpTo(bound, f, n) \in [Clusters -> 0..bound]
         /\ \A m \in Clusters :
               CountUpTo(bound, f, n)[m] = IF m = n /\ f[n] # bound THEN f[n] + 1 ELSE f[m]
  BY DEF CountUpTo

\* Steps of no notification: what was told, tried and annotated stays.
quiet == <<told, tried, annotated, attempts, sync>>

LEMMA QuietKeeps ==
  ASSUME NotifiedIsTold, Marked, Counted, UNCHANGED quiet
  PROVE  NotifiedIsTold' /\ Marked' /\ Counted'
  BY DEF NotifiedIsTold, Marked, Counted, ToldOrTried, quiet

-----------------------------------------------------------------------------
(* Users, the MCE part of sync, the hub *)

LEMMA UserKeeps ==
  ASSUME Inv, NEW n \in Clusters, CreateMceCluster(n) \/ DeleteMceCluster(n) \/ Creation(n)
  PROVE  Inv'
<1> USE DEF Inv
<1>1. CASE CreateMceCluster(n)
  <2>1. TypeOK'
    BY <1>1 DEF CreateMceCluster, TypeOK, hubVars, ghosts
  <2> QED  BY <1>1, <2>1, QuietKeeps DEF CreateMceCluster, quiet, hubVars, ghosts
<1>2. CASE DeleteMceCluster(n)
  <2>1. /\ imagesets' \in SUBSET Clusters
        /\ deployed' \in [Clusters -> Deployments]
        /\ managed' \in [Clusters -> {"none", "there", "deleting", "gone"}]
    BY <1>2, ReplaceType DEF DeleteMceCluster, deleteManagedCluster
  <2>2. asked' \in SUBSET Clusters
    BY <1>2 DEF DeleteMceCluster, TypeOK
  <2>3. TypeOK'
    BY <1>2, <2>1, <2>2 DEF DeleteMceCluster, TypeOK
  <2> QED  BY <1>2, <2>3, QuietKeeps DEF DeleteMceCluster, quiet
<1>3. CASE LaunchBuild(n)
  <2>1. TypeOK'
    BY <1>3 DEF LaunchBuild, TypeOK, ghosts
  <2> QED  BY <1>3, <2>1, QuietKeeps DEF LaunchBuild, quiet, ghosts
<1>4. CASE createManagedCluster(n)
  <2>1. TypeOK'
    BY <1>4 DEF createManagedCluster, TypeOK, ghosts
  <2> QED  BY <1>4, <2>1, QuietKeeps DEF createManagedCluster, quiet, ghosts
<1>5. CASE createClusterDeployment(n)
  <2>1. TypeOK'
    BY <1>5 DEF createClusterDeployment, TypeOK, ghosts, Deployments
  <2> QED  BY <1>5, <2>1, QuietKeeps DEF createClusterDeployment, quiet, ghosts
<1> QED  BY <1>1, <1>2, <1>3, <1>4, <1>5 DEF Creation

LEMMA SyncJobsKeeps ==
  ASSUME Inv, syncJobs
  PROVE  Inv'
<1> USE DEF Inv
<1>1. PICK made \in SUBSET Clusters, doomed \in SUBSET Clusters : Replace(doomed, made)
  BY DEF syncJobs, Due, TypeOK, View
<1>2. /\ imagesets' \in SUBSET Clusters
      /\ deployed' \in [Clusters -> Deployments]
      /\ managed' \in [Clusters -> {"none", "there", "deleting", "gone"}]
  BY <1>1, ReplaceType
<1>3. jobs' \in SUBSET Clusters
  BY DEF syncJobs
<1>4. jobsRead' \in BOOLEAN
  BY Zenon DEF syncJobs
<1>5. UNCHANGED <<provision, available, annotated, expired, job, create, sync,
                  cache, creds, attempts, notifier, restarts, ghosts>>
  BY DEF syncJobs
<1>6. TypeOK'
  BY <1>2, <1>3, <1>4, <1>5 DEF TypeOK, ghosts
<1> QED  BY <1>5, <1>6, QuietKeeps DEF quiet, ghosts

LEMMA HubKeeps ==
  ASSUME Inv, NEW n \in Clusters, Hub(n)
  PROVE  Inv'
<1> USE DEF Inv
<1>1. CASE JobEnds(n)
  <2>1. TypeOK'
    BY <1>1 DEF JobEnds, TypeOK, ghosts
  <2> QED  BY <1>1, <2>1, QuietKeeps DEF JobEnds, quiet, ghosts
<1>2. CASE Hive(n)
  <2>1. provision[n] \in Provisions
    BY DEF TypeOK
  <2>2. provision' \in [Clusters -> Provisions] /\ deployed' \in [Clusters -> Deployments]
    BY <1>2, <2>1 DEF Hive, TypeOK, Provisions, Deployments, MaxTries
  <2>3. available' \in SUBSET Clusters
    BY <1>2 DEF Hive, TypeOK
  <2>4. UNCHANGED <<managed, annotated, imagesets, expired, job, create, sync, cache,
                    creds, jobs, jobsRead, attempts, notifier, restarts, ghosts>>
    BY <1>2 DEF Hive
  <2>5. TypeOK'
    BY <2>2, <2>3, <2>4 DEF TypeOK, ghosts
  <2> QED  BY <2>4, <2>5, QuietKeeps DEF quiet, ghosts
<1>3. CASE Finalize(n)
  <2>1. TypeOK'
    BY <1>3 DEF Finalize, TypeOK, ghosts, Deployments
  <2> QED  BY <1>3, <2>1, QuietKeeps DEF Finalize, quiet, ghosts
<1>4. CASE Expire(n)
  <2>1. TypeOK'
    BY <1>4 DEF Expire, TypeOK, ghosts
  <2> QED  BY <1>4, <2>1, QuietKeeps DEF Expire, quiet, ghosts
<1> QED  BY <1>1, <1>2, <1>3, <1>4 DEF Hub

-----------------------------------------------------------------------------
(* mceSync *)

LEMMA ListKeeps ==
  ASSUME Inv, listManagedClusters
  PROVE  Inv'
<1> USE DEF Inv
<1>1. PICK clusters \in SUBSET Clusters, deployments \in [Clusters -> Deployments],
           provisions \in [Clusters -> Provisions] :
        /\ sync' = [pc |-> "notify",
                    seen |-> [clusters |-> clusters, deployments |-> deployments,
                              provisions |-> provisions],
                    ready |-> available \cap clusters, todo |-> clusters, mark |-> Nil]
        /\ IF Over(clusters) # {} THEN deleteManagedCluster(Over(clusters))
           ELSE UNCHANGED <<managed, deployed, imagesets>>
  <2> DEFINE there == {n \in Clusters : OnHub(n)}
             seenDeployments(blind) ==
               [n \in Clusters |-> IF n \in blind THEN "none" ELSE deployed[n]]
             seenProvisions(blind, kept) ==
               [n \in Clusters |->
                  IF seenDeployments(blind)[n] = "none" THEN NoProvision
                  ELSE IF n \in kept THEN cache.provisions[n]
                  ELSE provision[n]]
  <2>1. \A blind : seenDeployments(blind) \in [Clusters -> Deployments]
    BY DEF TypeOK, Deployments
  <2>2. \A blind, kept : seenProvisions(blind, kept) \in [Clusters -> Provisions]
    BY DEF TypeOK, View, NoProvision, Provisions, MaxTries
  <2>3. PICK lost \in (IF "get" \in Faults THEN SUBSET there ELSE {{}}),
             blind \in (IF "get" \in Faults THEN SUBSET Clusters ELSE {{}}),
             kept \in (IF "provision" \in Faults THEN {{}, Clusters} ELSE {{}}) :
          /\ sync' = [pc |-> "notify",
                      seen |-> [clusters |-> there \ lost,
                                deployments |-> seenDeployments(blind),
                                provisions |-> seenProvisions(blind, kept)],
                      ready |-> available \cap (there \ lost), todo |-> there \ lost,
                      mark |-> Nil]
          /\ IF Over(there \ lost) # {} THEN deleteManagedCluster(Over(there \ lost))
             ELSE UNCHANGED <<managed, deployed, imagesets>>
    BY Zenon DEF listManagedClusters, syncProvisions
  <2>4. there \ lost \in SUBSET Clusters
    OBVIOUS
  <2> HIDE DEF there, seenDeployments, seenProvisions
  <2> QED  BY <2>1, <2>2, <2>3, <2>4
<1>2. sync' \in SyncRecord
  BY <1>1 DEF SyncRecord, View, TypeOK
<1>3. /\ imagesets' \in SUBSET Clusters
      /\ deployed' \in [Clusters -> Deployments]
      /\ managed' \in [Clusters -> {"none", "there", "deleting", "gone"}]
  BY <1>1, ReplaceType DEF deleteManagedCluster, TypeOK
<1>4. UNCHANGED <<provision, available, annotated, expired, job, create, cache,
                  creds, jobs, jobsRead, attempts, notifier, restarts, ghosts>>
  BY DEF listManagedClusters
<1>5. TypeOK'
  BY <1>2, <1>3, <1>4 DEF TypeOK, ghosts
<1>6. sync'.mark = Nil
  BY <1>1
<1>7. NotifiedIsTold' /\ Marked' /\ Counted'
  BY <1>4, <1>6 DEF NotifiedIsTold, Marked, Counted, ToldOrTried, ghosts
<1> QED  BY <1>5, <1>7

\* The step to the next cluster, which may leave one to be annotated.
LEMMA NextClusterType ==
  ASSUME TypeOK, NEW n \in Clusters, NEW m \in Clusters \cup {Nil}, NextCluster(n, m)
  PROVE  sync' \in SyncRecord /\ sync'.mark = m
  BY DEF TypeOK, NextCluster, SyncRecord

LEMMA AttemptsType ==
  ASSUME TypeOK, NEW kind \in {"ready", "failure"}, NEW n \in Clusters,
         recordMceNotifyAttempt(kind, n) \/ forgetAttempts(kind, n)
  PROVE  attempts' \in [{"ready", "failure"} -> [Clusters -> 0..MaxAttempts]]
<1>1. attempts[kind] \in [Clusters -> 0..MaxAttempts]
  BY DEF TypeOK
<1>2. attempts[kind][n] \in 0..MaxAttempts
  BY <1>1
<1>3. PICK v \in 0..MaxAttempts : attempts' = [attempts EXCEPT ![kind][n] = v]
  BY <1>1, <1>2, MceAssumption
     DEF recordMceNotifyAttempt, forgetAttempts, LastAttempt, TypeOK
<1> QED  BY <1>3 DEF TypeOK

\* What NotifyCluster does not touch.
LEMMA NotifyTypes ==
  ASSUME TypeOK, NEW n \in Clusters, NotifyCluster(n),
         sync' \in SyncRecord, creds' \in SUBSET Clusters, givenUp' \in SUBSET Clusters,
         attempts' \in [{"ready", "failure"} -> [Clusters -> 0..MaxAttempts]],
         told' \in [Clusters -> 0..(MaxRestarts + 2)],
         tried' \in [Clusters -> 0..MaxAttempts],
         failTold' \in [Clusters -> 0..(MaxTries + 1)]
  PROVE  TypeOK'
<1>1. UNCHANGED <<hubVars, create, cache, jobs, jobsRead, notifier, restarts, asked>>
  BY DEF NotifyCluster
<1> QED  BY <1>1 DEF TypeOK, hubVars

LEMMA NotifyReadyKeeps ==
  ASSUME Inv, NEW n \in Clusters, NotifyCluster(n), NotifyReady(n)
  PROVE  Inv'
<1> USE DEF Inv
<1>0. /\ UNCHANGED <<failTold, givenUp, annotated>>
      /\ attempts["ready"] \in [Clusters -> 0..MaxAttempts]
      /\ tried \in [Clusters -> 0..MaxAttempts] /\ told \in [Clusters -> 0..(MaxRestarts + 2)]
      /\ failTold \in [Clusters -> 0..(MaxTries + 1)] /\ givenUp \in SUBSET Clusters
      /\ creds \in SUBSET Clusters /\ annotated \in SUBSET Clusters
      /\ MaxRestarts + 2 \in Nat /\ MaxAttempts \in Nat \ {0} /\ n # Nil
  BY MceAssumption DEF NotifyReady, NotifyCluster, hubVars, TypeOK
<1>1. CASE /\ creds' = creds \cup {n}
           /\ told' = CountUpTo(MaxRestarts + 2, told, n)
           /\ forgetAttempts("ready", n) /\ NextCluster(n, n) /\ UNCHANGED tried
  <2>1. sync' \in SyncRecord /\ sync'.mark = n
    BY <1>1, NextClusterType
  <2>2. attempts' \in [{"ready", "failure"} -> [Clusters -> 0..MaxAttempts]]
    BY <1>1, AttemptsType
  <2>3. told' \in [Clusters -> 0..(MaxRestarts + 2)] /\ told'[n] > 0
        /\ \A m \in Clusters : told'[m] >= told[m]
    <3> DEFINE bound == MaxRestarts + 2
    <3>1. bound \in Nat /\ bound > 0 /\ told \in [Clusters -> 0..bound]
          /\ told' = CountUpTo(bound, told, n)
      BY <1>0, <1>1, MceAssumption
    <3> HIDE DEF bound
    <3>2. /\ told' \in [Clusters -> 0..bound]
          /\ \A m \in Clusters :
                told'[m] = IF m = n /\ told[n] # bound THEN told[n] + 1 ELSE told[m]
      BY <3>1, CountUpToType
    <3>3. told'[n] > 0 /\ \A m \in Clusters : told'[m] >= told[m]
      BY <3>1, <3>2
    <3> QED  BY <3>2, <3>3 DEF bound
  <2>4. TypeOK'
    BY <1>0, <1>1, <2>1, <2>2, <2>3, NotifyTypes
  <2>5. \A m \in Clusters : attempts'["ready"][m] <= tried'[m]
    BY <1>0, <1>1 DEF forgetAttempts, Counted, TypeOK
  <2>6. \A m \in Clusters : ToldOrTried(m) => ToldOrTried(m)'
    BY <1>0, <1>1, <2>3 DEF ToldOrTried
  <2>7. ToldOrTried(n)'
    BY <2>3 DEF ToldOrTried
  <2> QED  BY <1>0, <2>1, <2>4, <2>5, <2>6, <2>7 DEF NotifiedIsTold, Marked, Counted, ToldOrTried
<1>2. CASE /\ creds' = creds \cup {n}
           /\ tried' = CountUpTo(MaxAttempts, tried, n)
           /\ NextCluster(n, IF LastAttempt("ready", n) THEN n ELSE Nil)
           /\ recordMceNotifyAttempt("ready", n) /\ UNCHANGED told
  <2>1. sync' \in SyncRecord /\ sync'.mark = IF LastAttempt("ready", n) THEN n ELSE Nil
    BY <1>2, NextClusterType
  <2>2. attempts' \in [{"ready", "failure"} -> [Clusters -> 0..MaxAttempts]]
    BY <1>2, AttemptsType
  <2>3. /\ tried' \in [Clusters -> 0..MaxAttempts]
        /\ \A m \in Clusters :
              tried'[m] = IF m = n /\ tried[n] # MaxAttempts THEN tried[n] + 1 ELSE tried[m]
    BY <1>0, <1>2, CountUpToType
  <2>4. TypeOK'
    BY <1>0, <1>2, <2>1, <2>2, <2>3, NotifyTypes
  <2>5. /\ attempts'["ready"][n] = IF LastAttempt("ready", n) THEN 0
                                   ELSE attempts["ready"][n] + 1
        /\ \A m \in Clusters \ {n} : attempts'["ready"][m] = attempts["ready"][m]
    BY <1>0, <1>2 DEF recordMceNotifyAttempt, TypeOK
  <2>6. \A m \in Clusters : attempts'["ready"][m] <= tried'[m]
    BY <1>0, <2>3, <2>5 DEF Counted, LastAttempt
  <2>7. \A m \in Clusters : ToldOrTried(m) => ToldOrTried(m)'
    BY <1>0, <1>2, <2>3 DEF ToldOrTried
  <2>8. LastAttempt("ready", n) => ToldOrTried(n)'
    BY <1>0, <2>3 DEF Counted, LastAttempt, ToldOrTried
  <2> QED  BY <1>0, <2>1, <2>4, <2>6, <2>7, <2>8 DEF NotifiedIsTold, Marked, Counted, ToldOrTried
<1>3. CASE NextCluster(n, Nil) /\ UNCHANGED <<creds, told, tried, attempts>>
  <2>1. sync' \in SyncRecord /\ sync'.mark = Nil
    BY <1>3, NextClusterType
  <2>2. attempts' \in [{"ready", "failure"} -> [Clusters -> 0..MaxAttempts]]
    BY <1>3 DEF TypeOK
  <2>3. TypeOK'
    BY <1>0, <1>3, <2>1, <2>2, NotifyTypes
  <2> QED  BY <1>0, <1>3, <2>1, <2>3 DEF NotifiedIsTold, Marked, Counted, ToldOrTried
<1> QED  BY <1>1, <1>2, <1>3 DEF NotifyReady

LEMMA NotifyOtherKeeps ==
  ASSUME Inv, NEW n \in Clusters, NotifyCluster(n), notifyMceFailure(n) \/ NothingNew(n)
  PROVE  Inv'
<1> USE DEF Inv
<1>1. sync' \in SyncRecord /\ sync'.mark = Nil
  BY NextClusterType DEF notifyMceFailure, NothingNew
<1>2. UNCHANGED <<told, tried, annotated>>
  BY DEF notifyMceFailure, NothingNew, NotifyCluster, hubVars
<1>3. attempts' \in [{"ready", "failure"} -> [Clusters -> 0..MaxAttempts]]
  BY AttemptsType DEF notifyMceFailure, NothingNew, TypeOK
<1>4. attempts'["ready"] = attempts["ready"]
  BY DEF notifyMceFailure, NothingNew, forgetAttempts, recordMceNotifyAttempt, TypeOK
<1>5. failTold' \in [Clusters -> 0..(MaxTries + 1)]
  <2> DEFINE bound == MaxTries + 1
  <2>1. bound \in Nat /\ failTold \in [Clusters -> 0..bound]
    BY DEF TypeOK, MaxTries
  <2>2. failTold' \in {failTold, CountUpTo(bound, failTold, n)}
    BY DEF notifyMceFailure, NothingNew
  <2> HIDE DEF bound
  <2>3. failTold' \in [Clusters -> 0..bound]
    BY <2>1, <2>2, CountUpToType
  <2> QED  BY <2>3 DEF bound
<1>6. creds' \in SUBSET Clusters /\ givenUp' \in SUBSET Clusters
  BY DEF notifyMceFailure, NothingNew, TypeOK
<1>7. told' \in [Clusters -> 0..(MaxRestarts + 2)] /\ tried' \in [Clusters -> 0..MaxAttempts]
  BY <1>2 DEF TypeOK
<1>8. TypeOK'
  BY <1>1, <1>3, <1>5, <1>6, <1>7, NotifyTypes
<1> QED  BY <1>1, <1>2, <1>4, <1>8 DEF NotifiedIsTold, Marked, Counted, ToldOrTried

LEMMA AnnotateKeeps ==
  ASSUME Inv, Annotate
  PROVE  Inv'
<1> USE DEF Inv
<1>1. sync.mark \in Clusters /\ ToldOrTried(sync.mark)
  BY DEF Annotate, TypeOK, SyncRecord, Marked
<1>2. sync' \in SyncRecord /\ sync'.mark = Nil
  BY DEF Annotate, TypeOK, SyncRecord
<1>3. annotated' \subseteq annotated \cup {sync.mark}
  BY DEF Annotate
<1>4. UNCHANGED <<managed, deployed, provision, available, imagesets, expired, job,
                  create, cache, creds, jobs, jobsRead, attempts, notifier, restarts,
                  ghosts>>
  BY DEF Annotate
<1>5. TypeOK'
  BY <1>1, <1>2, <1>3, <1>4 DEF TypeOK, ghosts
<1>6. NotifiedIsTold' /\ Marked' /\ Counted'
  BY <1>1, <1>2, <1>3, <1>4 DEF NotifiedIsTold, Marked, Counted, ToldOrTried, ghosts
<1> QED  BY <1>5, <1>6

LEMMA DeleteStaleKeeps ==
  ASSUME Inv, DeleteStale
  PROVE  Inv'
<1> USE DEF Inv
<1>1. PICK kept : sync' = [sync EXCEPT !.pc = "store", !.seen.clusters = sync.seen.clusters \ kept]
  BY DEF DeleteStale
<1>2. sync \in SyncRecord /\ sync.seen \in View /\ sync.mark = Nil
  BY DEF TypeOK, SyncRecord, DeleteStale
<1>3. [sync.seen EXCEPT !.clusters = sync.seen.clusters \ kept] \in View
  BY <1>2 DEF View
<1>4. sync' \in SyncRecord /\ sync'.mark = Nil
  BY <1>1, <1>2, <1>3 DEF SyncRecord
<1>5. /\ imagesets' \in SUBSET Clusters
      /\ deployed' \in [Clusters -> Deployments]
      /\ managed' \in [Clusters -> {"none", "there", "deleting", "gone"}]
  BY ReplaceType DEF DeleteStale, deleteManagedCluster
<1>6. /\ attempts' \in [{"ready", "failure"} -> [Clusters -> 0..MaxAttempts]]
      /\ \A n \in Clusters : attempts'["ready"][n] \in {0, attempts["ready"][n]}
  <2>1. PICK drop : attempts' = [kind \in DOMAIN attempts |->
                      [n \in Clusters |-> IF <<kind, n>> \in drop THEN 0 ELSE attempts[kind][n]]]
    <3> DEFINE drop == {p \in {"ready", "failure"} \X Clusters :
                          \/ p[2] \notin sync.seen.clusters \ Stale
                          \/ p[1] = "failure" /\ ~ProvisionFailed(sync.seen, p[2])}
    <3>1. attempts' = [kind \in DOMAIN attempts |->
                         [n \in Clusters |-> IF <<kind, n>> \in drop THEN 0 ELSE attempts[kind][n]]]
      BY DEF DeleteStale, TypeOK
    <3> QED  BY <3>1
  <2> QED  BY <2>1, MceAssumption DEF TypeOK
<1>7. UNCHANGED <<provision, available, annotated, expired, job, create, cache,
                  creds, jobs, jobsRead, notifier, restarts, ghosts>>
  BY DEF DeleteStale
<1>8. TypeOK'
  BY <1>4, <1>5, <1>6, <1>7 DEF TypeOK, ghosts
<1>9. Counted'
  <2>1. \A n \in Clusters : tried'[n] = tried[n] /\ tried[n] \in Nat
    BY <1>7, MceAssumption DEF ghosts, TypeOK
  <2> QED  BY <1>6, <2>1 DEF Counted
<1>10. NotifiedIsTold' /\ Marked'
  BY <1>4, <1>7 DEF NotifiedIsTold, Marked, ToldOrTried, ghosts
<1> QED  BY <1>8, <1>9, <1>10

LEMMA StoreKeeps ==
  ASSUME Inv, Store
  PROVE  Inv'
<1> USE DEF Inv
<1>1. sync' \in SyncRecord /\ sync'.mark = Nil
  BY IdleType DEF Store, Idle
<1>2. cache' \in View /\ creds' \in SUBSET Clusters
  BY DEF Store, TypeOK, SyncRecord
<1>3. UNCHANGED <<hubVars, create, jobs, jobsRead, attempts, notifier, restarts, ghosts>>
  BY DEF Store
<1>4. TypeOK'
  BY <1>1, <1>2, <1>3 DEF TypeOK, hubVars, ghosts
<1> QED  BY <1>1, <1>3, <1>4 DEF NotifiedIsTold, Marked, Counted, ToldOrTried, hubVars, ghosts

LEMMA MceSyncKeeps ==
  ASSUME Inv, MceSync
  PROVE  Inv'
<1>1. ASSUME NEW n \in Clusters, NotifyCluster(n)
      PROVE  Inv'
  BY <1>1, NotifyReadyKeeps, NotifyOtherKeeps DEF NotifyCluster
<1> QED  BY <1>1, ListKeeps, AnnotateKeeps, DeleteStaleKeeps, StoreKeeps DEF MceSync

-----------------------------------------------------------------------------
(* The bot *)

LEMMA NotifierKeeps ==
  ASSUME Inv, SetMceNotifier
  PROVE  Inv'
<1> USE DEF Inv
<1>1. notifier' \in BOOLEAN
  BY Zenon DEF SetMceNotifier
<1>2. UNCHANGED <<hubVars, create, sync, cache, creds, jobs, jobsRead, attempts,
                  restarts, ghosts>>
  BY DEF SetMceNotifier
<1>3. TypeOK'
  BY <1>1, <1>2 DEF TypeOK, hubVars, ghosts
<1> QED  BY <1>2, <1>3, QuietKeeps DEF quiet, hubVars, ghosts

LEMMA RestartKeeps ==
  ASSUME Inv, Restart
  PROVE  Inv'
<1> USE DEF Inv
<1>1. sync' \in SyncRecord /\ sync'.mark = Nil /\ cache' \in View
  BY IdleType, NoViewType DEF Restart, Idle
<1>2. create' \in [Clusters -> {"none", "checked", "launched", "object", "ended"}]
  BY DEF Restart, TypeOK
<1>3. /\ restarts' \in 0..MaxRestarts
      /\ creds' \in SUBSET Clusters /\ jobs' \in SUBSET Clusters /\ givenUp' \in SUBSET Clusters
  BY MceAssumption DEF Restart, TypeOK
<1>4. jobsRead' \in BOOLEAN /\ notifier' \in BOOLEAN
  BY Zenon DEF Restart
<1>5. /\ attempts' \in [{"ready", "failure"} -> [Clusters -> 0..MaxAttempts]]
      /\ \A n \in Clusters : attempts'["ready"][n] = 0
  BY MceAssumption DEF Restart, TypeOK
<1>6. UNCHANGED <<hubVars, told, failTold, tried, asked>>
  BY DEF Restart
<1>7. TypeOK'
  BY <1>1, <1>2, <1>3, <1>4, <1>5, <1>6 DEF TypeOK, hubVars
<1>8. Counted'
  BY <1>5, <1>6, MceAssumption DEF Counted, TypeOK
<1> QED  BY <1>1, <1>6, <1>7, <1>8 DEF NotifiedIsTold, Marked, ToldOrTried, hubVars

-----------------------------------------------------------------------------

LEMMA InitInv == Init => Inv
<1> SUFFICES ASSUME Init PROVE Inv
  OBVIOUS
<1>1. sync \in SyncRecord /\ sync.mark = Nil /\ cache \in View
  BY IdleType, NoViewType DEF Init, Idle
<1>2. /\ managed \in [Clusters -> {"none", "there", "deleting", "gone"}]
      /\ deployed \in [Clusters -> Deployments]
      /\ provision \in [Clusters -> Provisions]
      /\ job \in [Clusters -> {"none", "running", "failed", "done", "old"}]
      /\ create \in [Clusters -> {"none", "checked", "launched", "object", "ended"}]
  BY DEF Init, Deployments, Provisions, NoProvision, MaxTries
<1>3. /\ {available, annotated, imagesets, expired} \subseteq SUBSET Clusters
      /\ {creds, jobs} \subseteq SUBSET Clusters /\ {givenUp, asked} \subseteq SUBSET Clusters
  BY DEF Init
<1>4. jobsRead \in BOOLEAN /\ notifier \in BOOLEAN
  BY Zenon DEF Init
<1>5. /\ attempts \in [{"ready", "failure"} -> [Clusters -> 0..MaxAttempts]]
      /\ restarts \in 0..MaxRestarts
      /\ told \in [Clusters -> 0..(MaxRestarts + 2)]
      /\ tried \in [Clusters -> 0..MaxAttempts]
      /\ failTold \in [Clusters -> 0..(MaxTries + 1)]
  BY MceAssumption DEF Init, MaxTries
<1>6. TypeOK
  BY <1>1, <1>2, <1>3, <1>4, <1>5 DEF TypeOK
<1>7. NotifiedIsTold /\ Counted
  BY DEF Init, NotifiedIsTold, Counted
<1> QED  BY <1>1, <1>6, <1>7 DEF Inv, Marked

LEMMA NextInv == Inv /\ [Next]_vars => Inv'
<1> SUFFICES ASSUME Inv, [Next]_vars PROVE Inv'
  OBVIOUS
<1>1. CASE UNCHANGED vars
  <2>1. TypeOK'
    BY <1>1 DEF Inv, TypeOK, vars, hubVars, ghosts
  <2> QED  BY <1>1, <2>1, QuietKeeps DEF Inv, quiet, vars, hubVars, ghosts
<1>2. CASE Next
  BY <1>2, UserKeeps, MceSyncKeeps, SyncJobsKeeps, NotifierKeeps, RestartKeeps,
     HubKeeps DEF Next, User
<1> QED  BY <1>1, <1>2

\* A ManagedCluster carries the annotation UserNotifiedTag only when its owner
\* was sent a message about it, or when maxMCENotificationAttempts messages were
\* not delivered (mceSync, recordMceNotifyAttempt), whatever fails and whenever
\* the bot restarts.
THEOREM NotifiedWereTold == Spec => []NotifiedInv
  BY InitInv, NextInv, InvIsNotifiedInv, PTL DEF Spec

-----------------------------------------------------------------------------
(* How far the creation of a cluster is *)

\* A ManagedCluster is made once and never comes back. A deployment is made when
\* the creation ends without a build, or by sync when the build is done.
Stages ==
    \A n \in Clusters :
       /\ managed[n] # "none" => create[n] \in {"object", "ended"}
       /\ create[n] \in {"none", "checked", "object"} => job[n] = "none"
       /\ create[n] # "ended" \/ managed[n] \in {"none", "gone"} => deployed[n] = "none"
       /\ deployed[n] # "none" => job[n] \in {"none", "done", "old"}

\* What deleteManagedCluster and the deployments of sync do to one cluster.
LEMMA ReplaceEffect ==
  ASSUME TypeOK, NEW doomed, NEW made, Replace(doomed, made), NEW n \in Clusters
  PROVE  /\ \/ managed'[n] = managed[n]
            \/ n \in doomed /\ managed[n] = "there" /\ managed'[n] = "deleting"
         /\ n \in made => deployed'[n] = "there" /\ n \in imagesets'
         /\ n \notin made => \/ deployed'[n] = deployed[n]
                             \/ n \in doomed /\ deployed'[n] = "none"
  BY DEF TypeOK, Replace

\* Deletions, by the owner or by mceSync, keep the stages.
LEMMA DeleteStages ==
  ASSUME TypeOK, Stages, NEW doomed, deleteManagedCluster(doomed), UNCHANGED <<create, job>>
  PROVE  Stages'
<1>1. \A n \in Clusters : /\ \/ managed'[n] = managed[n]
                             \/ managed[n] = "there" /\ managed'[n] = "deleting"
                          /\ deployed'[n] \in {deployed[n], "none"}
  BY ReplaceEffect DEF deleteManagedCluster
<1> QED  BY <1>1 DEF Stages

\* sync deploys only clusters whose creation has ended and whose build is done.
LEMMA SyncJobsStages ==
  ASSUME TypeOK, Stages, syncJobs
  PROVE  Stages'
<1>1. PICK doomed, made : /\ Replace(doomed, made)
                          /\ \A n \in made : job[n] = "done" /\ managed[n] = "there"
  BY DEF syncJobs, Due
<1>2. UNCHANGED <<create, job>>
  BY DEF syncJobs
<1>3. \A n \in Clusters :
         /\ \/ managed'[n] = managed[n]
            \/ managed[n] = "there" /\ managed'[n] = "deleting"
         /\ \/ deployed'[n] \in {deployed[n], "none"}
            \/ job[n] = "done" /\ managed[n] = "there"
  BY <1>1, ReplaceEffect
<1> QED  BY <1>2, <1>3 DEF Stages

\* Requests, the hub and the build farm keep the stages.
LEMMA ClusterStages ==
  ASSUME TypeOK, Stages, NEW n \in Clusters, CreateMceCluster(n) \/ Creation(n) \/ Hub(n)
  PROVE  Stages'
<1> USE DEF Stages, hubVars
<1>1. CASE CreateMceCluster(n)
  BY <1>1 DEF CreateMceCluster, TypeOK
<1>2. CASE LaunchBuild(n)
  BY <1>2 DEF LaunchBuild, TypeOK
<1>3. CASE createManagedCluster(n)
  BY <1>3 DEF createManagedCluster, TypeOK
<1>4. CASE createClusterDeployment(n)
  BY <1>4 DEF createClusterDeployment, TypeOK
<1>5. CASE JobEnds(n)
  <2>1. /\ \A m \in Clusters \ {n} : job'[m] = job[m]
        /\ job[n] = "running" \/ (job[n] \in {"done", "failed"} /\ job'[n] = "old")
    BY <1>5 DEF JobEnds, TypeOK
  <2> QED  BY <1>5, <2>1 DEF JobEnds
<1>6. CASE Hive(n)
  <2>1. /\ deployed[n] # "none"
        /\ \A m \in Clusters \ {n} : deployed'[m] = deployed[m]
    BY <1>6 DEF Hive, TypeOK
  <2> QED  BY <1>6, <2>1 DEF Hive
<1>7. CASE Finalize(n)
  BY <1>7 DEF Finalize, TypeOK
<1>8. CASE Expire(n)
  BY <1>8 DEF Expire
<1> QED  BY <1>1, <1>2, <1>3, <1>4, <1>5, <1>6, <1>7, <1>8 DEF Creation, Hub

LEMMA NextStages ==
  ASSUME TypeOK, Stages, [Next]_vars
  PROVE  Stages'
<1>1. CASE \E n \in Clusters : DeleteMceCluster(n)
  BY <1>1, DeleteStages DEF DeleteMceCluster
<1>2. CASE listManagedClusters
  <2>1. UNCHANGED <<create, job>>
        /\ ((\E doomed : deleteManagedCluster(doomed)) \/ UNCHANGED <<managed, deployed>>)
    BY <1>2 DEF listManagedClusters
  <2> QED  BY <2>1, DeleteStages DEF Stages
<1>3. CASE DeleteStale
  BY <1>3, DeleteStages DEF DeleteStale
<1>4. CASE Restart
  BY <1>4 DEF Restart, Stages, hubVars, TypeOK
<1>5. CASE UNCHANGED <<managed, deployed, create, job>>
  BY <1>5 DEF Stages
<1> QED
  BY <1>1, <1>2, <1>3, <1>4, <1>5, SyncJobsStages, ClusterStages
  DEF Next, User, MceSync, Annotate, Store, NotifyCluster, SetMceNotifier, vars, hubVars

\* What holds of every behaviour, for the proofs that follow.
Base == Inv /\ Stages

LEMMA BaseHolds == Spec => []Base
<1>1. Init => Base
  BY InitInv DEF Init, Base, Stages
<1>2. Base /\ [Next]_vars => Base'
  BY NextInv, NextStages DEF Base, Inv
<1> QED  BY <1>1, <1>2, PTL DEF Spec

\* No step brings a ManagedCluster back.
LEMMA ManagedMoves ==
  ASSUME Base, [Next]_vars, NEW n \in Clusters
  PROVE  /\ managed[n] # "none" => managed'[n] # "none"
         /\ managed[n] = "gone" => managed'[n] = "gone"
<1> USE DEF Base, Inv
<1>1. CASE UNCHANGED managed
  BY <1>1
<1>2. CASE \E doomed, made : Replace(doomed, made)
  BY <1>2, ReplaceEffect
<1>3. CASE \E m \in Clusters : createManagedCluster(m)
  BY <1>3 DEF createManagedCluster, Stages, TypeOK
<1>4. CASE \E m \in Clusters : Finalize(m)
  BY <1>4 DEF Finalize, TypeOK
<1> QED
  BY <1>1, <1>2, <1>3, <1>4
  DEF Next, User, MceSync, CreateMceCluster, DeleteMceCluster, Creation, LaunchBuild,
      createClusterDeployment, Hub, JobEnds, Hive, Expire, syncJobs, SetMceNotifier, Restart,
      listManagedClusters, Annotate, DeleteStale, Store, NotifyCluster, deleteManagedCluster, vars,
      hubVars

-----------------------------------------------------------------------------
(* ReadyToldOnce *)

\* Whom this process has told: the cluster is annotated, or the one to be
\* annotated next, or gone for good.
TellsOnce ==
    /\ sync.pc # "notify" => sync.mark = Nil
    /\ \A n \in Clusters :
          /\ n \in sync.todo \/ n = sync.mark => managed[n] # "none"
          /\ n = sync.mark => n \notin sync.todo
          /\ \/ told[n] <= restarts
             \/ /\ told[n] = restarts + 1
                /\ \/ n \in annotated
                   \/ n = sync.mark
                   \/ managed[n] = "gone" /\ n \notin sync.todo

\* What mceSync lists: clusters that are on the hub, with their deployments and
\* provisions or, where these were not read, without one or with the cached one.
LEMMA ListEffect ==
  ASSUME TypeOK, listManagedClusters
  PROVE  /\ sync.pc = "idle" /\ sync'.pc = "notify" /\ sync'.mark = Nil
         /\ sync'.todo = sync'.seen.clusters
         /\ \A n \in sync'.todo : n \in Clusters /\ OnHub(n)
         /\ \A n \in Clusters :
               /\ sync'.seen.deployments[n] \in {"none", deployed[n]}
               /\ "get" \notin Faults => sync'.seen.deployments[n] = deployed[n]
               /\ sync'.seen.deployments[n] = "none" => sync'.seen.provisions[n] = NoProvision
               /\ sync'.seen.deployments[n] # "none" =>
                     sync'.seen.provisions[n] \in {provision[n], cache.provisions[n]}
         /\ \/ deleteManagedCluster(Over(sync'.todo))
            \/ UNCHANGED <<managed, deployed, imagesets>>
<1> DEFINE there == {n \in Clusters : OnHub(n)}
           seenDeployments(blind) ==
             [n \in Clusters |-> IF n \in blind THEN "none" ELSE deployed[n]]
           seenProvisions(blind, kept) ==
             [n \in Clusters |->
                IF seenDeployments(blind)[n] = "none" THEN NoProvision
                ELSE IF n \in kept THEN cache.provisions[n]
                ELSE provision[n]]
<1>1. PICK lost \in (IF "get" \in Faults THEN SUBSET there ELSE {{}}),
           blind \in (IF "get" \in Faults THEN SUBSET Clusters ELSE {{}}),
           kept \in (IF "provision" \in Faults THEN {{}, Clusters} ELSE {{}}) :
        /\ sync' = [pc |-> "notify",
                    seen |-> [clusters |-> there \ lost,
                              deployments |-> seenDeployments(blind),
                              provisions |-> seenProvisions(blind, kept)],
                    ready |-> available \cap (there \ lost), todo |-> there \ lost,
                    mark |-> Nil]
        /\ IF Over(there \ lost) # {} THEN deleteManagedCluster(Over(there \ lost))
           ELSE UNCHANGED <<managed, deployed, imagesets>>
  BY Zenon DEF listManagedClusters, syncProvisions
<1>2. /\ sync'.pc = "notify" /\ sync'.mark = Nil /\ sync'.todo = there \ lost
      /\ sync'.seen.clusters = there \ lost
      /\ sync'.seen.deployments = seenDeployments(blind)
      /\ sync'.seen.provisions = seenProvisions(blind, kept)
  BY <1>1
<1>3. "get" \notin Faults => blind = {}
  BY <1>1
<1>4. sync.pc = "idle"
  BY DEF listManagedClusters
<1> QED  BY <1>1, <1>2, <1>3, <1>4

\* mceSync lists clusters on the hub, and every cluster of the list once.
LEMMA ListTellsOnce ==
  ASSUME Base, TellsOnce, listManagedClusters
  PROVE  TellsOnce'
<1>1. /\ sync.pc = "idle" /\ sync'.pc = "notify" /\ sync'.mark = Nil
      /\ \A n \in sync'.todo : OnHub(n)
  BY ListEffect DEF Base, Inv
<1>2. UNCHANGED <<told, restarts, annotated>>
  BY DEF listManagedClusters, ghosts
<1>3. \A n \in Clusters : /\ managed[n] # "none" => managed'[n] # "none"
                          /\ managed[n] = "gone" => managed'[n] = "gone"
  BY ManagedMoves DEF Next, MceSync
<1>4. \A n \in Clusters : n # Nil
  BY MceAssumption
<1> QED  BY <1>1, <1>2, <1>3, <1>4 DEF TellsOnce, OnHub

\* Who is told has not been told by this process, and is to be annotated.
LEMMA NotifyTellsOnce ==
  ASSUME Base, TellsOnce, NEW n \in Clusters, NotifyCluster(n)
  PROVE  TellsOnce'
<1> USE DEF Base, Inv
<1>1. /\ sync.pc = "notify" /\ n \in sync.todo /\ sync.mark = Nil /\ n # Nil
      /\ UNCHANGED <<managed, restarts, annotated>>
  BY MceAssumption DEF NotifyCluster, hubVars
<1>2. PICK m \in {n, Nil} : NextCluster(n, m)
  BY DEF NotifyCluster, NotifyReady, notifyMceFailure, NothingNew
<1>3. sync'.pc = "notify" /\ sync'.todo = sync.todo \ {n} /\ sync'.mark = m
  BY <1>1, <1>2 DEF NextCluster, TypeOK, SyncRecord
<1>4. \/ told' = told
      \/ /\ m = n /\ n \notin annotated
         /\ told' = CountUpTo(MaxRestarts + 2, told, n)
  <2>1. CASE NotifyReady(n)
    <3>1. NextCluster(n, n) => m = n
      <4> SUFFICES ASSUME NextCluster(n, n) PROVE m = n
        OBVIOUS
      <4>1. sync'.mark = n
        BY NextClusterType
      <4> QED  BY <1>3, <4>1
    <3> QED  BY <2>1, <3>1 DEF NotifyReady
  <2>2. CASE notifyMceFailure(n) \/ NothingNew(n)
    BY <2>2 DEF notifyMceFailure, NothingNew
  <2> QED  BY <2>1, <2>2 DEF NotifyCluster
<1>5. /\ \A k \in Clusters \ {n} : told'[k] = told[k]
      /\ told'[n] = told[n] \/ (told'[n] = told[n] + 1 /\ m = n /\ n \notin annotated)
      /\ \A k \in Clusters : told[k] \in Nat
      /\ restarts \in Nat
  <2> DEFINE bound == MaxRestarts + 2
  <2>1. bound \in Nat /\ told \in [Clusters -> 0..bound] /\ restarts \in Nat
    BY MceAssumption DEF TypeOK
  <2>2. told' = told \/ (m = n /\ n \notin annotated /\ told' = CountUpTo(bound, told, n))
    BY <1>4
  <2> HIDE DEF bound
  <2> QED  BY <2>1, <2>2, CountUpToType
<1>6. told[n] <= restarts \/ n \in annotated
  BY <1>1 DEF TellsOnce
<1>7. told'[n] <= restarts \/ n \in annotated \/ (told'[n] = restarts + 1 /\ m = n)
  BY <1>5, <1>6
<1>8. ASSUME NEW k \in Clusters
      PROVE  /\ k \in sync'.todo \/ k = sync'.mark => managed'[k] # "none"
             /\ k = sync'.mark => k \notin sync'.todo
             /\ \/ told'[k] <= restarts'
                \/ /\ told'[k] = restarts' + 1
                   /\ \/ k \in annotated'
                      \/ k = sync'.mark
                      \/ managed'[k] = "gone" /\ k \notin sync'.todo
  <2>1. CASE k = n
    <3>1. told'[n] = told[n] \/ m = n
      BY <1>5
    <3> QED  BY <1>1, <1>3, <1>5, <1>6, <1>7, <2>1, <3>1 DEF TellsOnce
  <2>2. CASE k # n
    BY <1>1, <1>3, <1>5, <2>2, MceAssumption DEF TellsOnce
  <2> QED  BY <2>1, <2>2
<1> QED  BY <1>3, <1>8 DEF TellsOnce

\* Where the annotation is not refused, what was told is annotated or is gone.
LEMMA AnnotateTellsOnce ==
  ASSUME Base, TellsOnce, "conflict" \notin Faults, Annotate
  PROVE  TellsOnce'
<1>1. /\ sync'.pc = sync.pc /\ sync'.todo = sync.todo /\ sync'.mark = Nil
      /\ sync.mark \in Clusters
  BY DEF Annotate, Base, Inv, TypeOK, SyncRecord
<1>2. /\ UNCHANGED <<managed, told, restarts>>
      /\ \/ annotated' = annotated \cup {sync.mark}
         \/ managed[sync.mark] \notin {"there", "deleting"} /\ annotated' = annotated
  BY DEF Annotate, ghosts, OnHub
<1>3. managed[sync.mark] \in {"none", "there", "deleting", "gone"}
  BY <1>1 DEF Base, Inv, TypeOK
<1> QED  BY <1>1, <1>2, <1>3, MceAssumption DEF TellsOnce

\* The other steps tell nobody.
LEMMA OtherTellsOnce ==
  ASSUME Base, TellsOnce, [Next]_vars, UNCHANGED <<told, annotated>>,
         \/ UNCHANGED <<sync, restarts>> \/ DeleteStale \/ Store \/ Restart
  PROVE  TellsOnce'
<1>1. \A n \in Clusters : /\ managed[n] # "none" => managed'[n] # "none"
                          /\ managed[n] = "gone" => managed'[n] = "gone"
                          /\ n # Nil /\ told[n] \in Nat
  BY ManagedMoves, MceAssumption DEF Base, Inv, TypeOK
<1>2. CASE UNCHANGED <<sync, restarts>>
  BY <1>1, <1>2 DEF TellsOnce
<1>3. CASE DeleteStale
  <2>1. /\ sync.todo = {} /\ sync.mark = Nil /\ UNCHANGED restarts
        /\ sync'.pc = "store" /\ sync'.todo = {} /\ sync'.mark = Nil
    BY <1>3 DEF DeleteStale, Base, Inv, TypeOK, SyncRecord
  <2> QED  BY <1>1, <2>1 DEF TellsOnce
<1>4. CASE Store
  <2>1. /\ sync.pc = "store" /\ UNCHANGED restarts
        /\ sync'.pc = "idle" /\ sync'.todo = {} /\ sync'.mark = Nil
    BY <1>4 DEF Store, Idle
  <2> QED  BY <1>1, <2>1 DEF TellsOnce
<1>5. CASE Restart
  <2>1. /\ restarts' = restarts + 1 /\ restarts \in Nat
        /\ sync'.pc = "idle" /\ sync'.todo = {} /\ sync'.mark = Nil
    BY <1>5, MceAssumption DEF Restart, Idle, Base, Inv, TypeOK
  <2>2. \A n \in Clusters : told[n] <= restarts + 1
    BY <1>1, <2>1 DEF TellsOnce
  <2> QED  BY <1>1, <2>1, <2>2 DEF TellsOnce
<1> QED  BY <1>2, <1>3, <1>4, <1>5

\* Where the annotation of a ManagedCluster is not refused, a process tells a
\* user once that the cluster is available (mceSync), however its reads, its
\* deletions and its messages fail and whoever else changes the hub.
THEOREM ReadyIsToldOnce == "conflict" \notin Faults => (Spec => []ReadyToldOnce)
<1> SUFFICES ASSUME "conflict" \notin Faults PROVE Spec => []ReadyToldOnce
  OBVIOUS
<1>1. Init => TellsOnce
  BY MceAssumption DEF Init, TellsOnce, Idle
<1>2. Base /\ TellsOnce /\ [Next]_vars => TellsOnce'
  <2> SUFFICES ASSUME Base, TellsOnce, [Next]_vars PROVE TellsOnce'
    OBVIOUS
  <2>1. CASE \/ listManagedClusters \/ Annotate \/ \E n \in Clusters : NotifyCluster(n)
    BY <2>1, ListTellsOnce, NotifyTellsOnce, AnnotateTellsOnce
  <2>2. CASE /\ UNCHANGED <<told, annotated>>
             /\ UNCHANGED <<sync, restarts>> \/ DeleteStale \/ Store \/ Restart
    BY <2>2, OtherTellsOnce
  <2> QED
    BY <2>1, <2>2
    DEF Next, User, MceSync, CreateMceCluster, DeleteMceCluster, Creation, LaunchBuild,
        createManagedCluster, createClusterDeployment, Hub, JobEnds, Hive, Finalize, Expire,
        syncJobs, SetMceNotifier, Restart, DeleteStale, Store, vars, hubVars, ghosts
<1>3. Base /\ TellsOnce => ReadyToldOnce
  BY MceAssumption DEF Base, Inv, TypeOK, TellsOnce, ReadyToldOnce
<1> QED  BY BaseHolds, <1>1, <1>2, <1>3, PTL DEF Spec

-----------------------------------------------------------------------------
(* LiveIsKept *)

\* m.jobs names every job that sync still reads. A listed cluster without a
\* deployment is not being created; if it has one by now then sync made it,
\* for a job that m.jobs names until the list is stored.
Sightings ==
    \A n \in Clusters :
       /\ jobsRead /\ job[n] \in {"running", "done", "failed"} => n \in jobs
       /\ sync.pc # "idle" /\ n \in sync.seen.clusters /\ sync.seen.deployments[n] = "none" =>
             /\ create[n] = "ended"
             /\ deployed[n] # "none" => job[n] = "done" /\ cache.deployments[n] = "none"

\* mceSync lists what is on the hub, when no creation is between its objects.
LEMMA ListSightings ==
  ASSUME Base, Sightings, "get" \notin Faults, "window" \notin Faults, listManagedClusters
  PROVE  Sightings'
<1> USE DEF Base, Inv
<1>1. /\ UNCHANGED <<create, job, jobs, jobsRead>>
      /\ \A n \in Clusters : create[n] # "object"
  BY DEF listManagedClusters
<1>2. \A n \in Clusters : n \in sync'.seen.clusters => create[n] = "ended"
  BY <1>1, ListEffect DEF OnHub, Stages
<1>3. \A n \in Clusters : sync'.seen.deployments[n] = deployed[n]
  BY ListEffect
<1>4. \A n \in Clusters : deployed'[n] \in {deployed[n], "none"}
  BY ListEffect, ReplaceEffect DEF deleteManagedCluster
<1> QED  BY <1>1, <1>2, <1>3, <1>4 DEF Sightings

\* The rest of mceSync keeps what it has seen, or less.
LEMMA MceSyncSightings ==
  ASSUME Base, Sightings,
         Annotate \/ DeleteStale \/ Store \/ \E n \in Clusters : NotifyCluster(n)
  PROVE  Sightings'
<1> USE DEF Base, Inv
<1>1. CASE Annotate
  <2>1. sync'.pc = sync.pc /\ sync'.seen = sync.seen
    BY <1>1 DEF Annotate, TypeOK, SyncRecord
  <2> QED  BY <1>1, <2>1 DEF Annotate, Sightings
<1>2. CASE DeleteStale
  <2>1. /\ sync.pc # "idle" /\ sync'.seen.clusters \subseteq sync.seen.clusters
        /\ sync'.seen.deployments = sync.seen.deployments
    BY <1>2 DEF DeleteStale, TypeOK, SyncRecord, View
  <2>2. \A n \in Clusters : deployed'[n] \in {deployed[n], "none"}
    BY <1>2, ReplaceEffect DEF DeleteStale, deleteManagedCluster
  <2>3. UNCHANGED <<create, job, jobs, jobsRead, cache>>
    BY <1>2 DEF DeleteStale
  <2> QED  BY <2>1, <2>2, <2>3 DEF Sightings
<1>3. CASE Store
  BY <1>3 DEF Store, Idle, Sightings, hubVars
<1>4. ASSUME NEW n \in Clusters, NotifyCluster(n) PROVE Sightings'
  <2>1. PICK m : NextCluster(n, m)
    BY <1>4 DEF NotifyCluster, NotifyReady, notifyMceFailure, NothingNew
  <2>2. sync'.pc = sync.pc /\ sync'.seen = sync.seen
    BY <2>1 DEF NextCluster, TypeOK, SyncRecord
  <2> QED  BY <1>4, <2>2 DEF NotifyCluster, Sightings, hubVars
<1> QED  BY <1>1, <1>2, <1>3, <1>4

\* The users, sync, the hub and a restart.
LEMMA OtherSightings ==
  ASSUME Base, Sightings,
         \/ User \/ syncJobs \/ SetMceNotifier \/ Restart \/ UNCHANGED vars
         \/ \E n \in Clusters : Creation(n) \/ Hub(n)
  PROVE  Sightings'
<1> USE DEF Base, Inv, hubVars
<1>1. ASSUME NEW n \in Clusters, CreateMceCluster(n) PROVE Sightings'
  BY <1>1 DEF CreateMceCluster, Sightings, TypeOK
<1>2. ASSUME NEW n \in Clusters, DeleteMceCluster(n) PROVE Sightings'
  <2>1. \A k \in Clusters : deployed'[k] \in {deployed[k], "none"}
    BY <1>2, ReplaceEffect DEF DeleteMceCluster, deleteManagedCluster
  <2> QED  BY <1>2, <2>1 DEF DeleteMceCluster, Sightings
<1>3. CASE syncJobs
  <2>1. PICK doomed, made : /\ Replace(doomed, made)
                            /\ \A n \in made : job[n] = "done" /\ cache.deployments[n] = "none"
    BY <1>3 DEF syncJobs, Due
  <2>2. \A n \in Clusters : \/ deployed'[n] \in {deployed[n], "none"}
                            \/ job[n] = "done" /\ cache.deployments[n] = "none"
    BY <2>1, ReplaceEffect
  <2>3. /\ UNCHANGED <<create, job, sync, cache>>
        /\ jobs' = {n \in Clusters : job[n] \notin {"none", "old"}}
    BY <1>3 DEF syncJobs
  <2> QED  BY <2>2, <2>3 DEF Sightings
<1>4. CASE SetMceNotifier \/ UNCHANGED vars
  BY <1>4 DEF SetMceNotifier, vars, Sightings
<1>5. CASE Restart
  BY <1>5 DEF Restart, Idle, Sightings
<1>6. ASSUME NEW n \in Clusters, LaunchBuild(n) PROVE Sightings'
  BY <1>6 DEF LaunchBuild, Sightings, TypeOK
<1>7. ASSUME NEW n \in Clusters, createManagedCluster(n) PROVE Sightings'
  BY <1>7 DEF createManagedCluster, Sightings, TypeOK
<1>8. ASSUME NEW n \in Clusters, createClusterDeployment(n) PROVE Sightings'
  BY <1>8 DEF createClusterDeployment, Sightings, TypeOK
<1>9. ASSUME NEW n \in Clusters, JobEnds(n) PROVE Sightings'
  <2>1. /\ \A k \in Clusters \ {n} : job'[k] = job[k]
        /\ \/ job[n] = "running"
           \/ /\ job[n] \in {"done", "failed"} /\ job'[n] = "old"
              /\ cache.deployments[n] # "none" \/ managed[n] = "gone"
    BY <1>9 DEF JobEnds, TypeOK
  <2>2. UNCHANGED <<create, jobs, jobsRead, sync, cache, deployed>>
    BY <1>9 DEF JobEnds
  <2>3. deployed[n] # "none" => job[n] # "running" /\ managed[n] # "gone"
    BY DEF Stages
  <2>4. jobsRead /\ job'[n] \in {"running", "done", "failed"} => n \in jobs
    BY <2>1 DEF Sightings
  <2> QED  BY <2>1, <2>2, <2>3, <2>4 DEF Sightings
<1>10. ASSUME NEW n \in Clusters, Hive(n) PROVE Sightings'
  <2>1. /\ deployed[n] # "none"
        /\ \A k \in Clusters \ {n} : deployed'[k] = deployed[k]
    BY <1>10 DEF Hive, TypeOK
  <2>2. UNCHANGED <<create, job, jobs, jobsRead, sync, cache>>
    BY <1>10 DEF Hive
  <2> QED  BY <2>1, <2>2 DEF Sightings
<1>11. ASSUME NEW n \in Clusters, Finalize(n) PROVE Sightings'
  BY <1>11 DEF Finalize, Sightings, TypeOK
<1>12. ASSUME NEW n \in Clusters, Expire(n) PROVE Sightings'
  BY <1>12 DEF Expire, Sightings
<1> QED
  BY <1>1, <1>2, <1>3, <1>4, <1>5, <1>6, <1>7, <1>8, <1>9, <1>10, <1>11, <1>12
  DEF User, Creation, Hub

\* Whatever is deleted belongs to its owner's request, is expired, or is neither
\* deployed nor built nor being created.
LEMMA DeletionIsDue ==
  ASSUME Base, Sightings, "early" \notin Faults, "slow" \notin Faults, [Next]_vars,
         NEW n \in Clusters, managed[n] = "there",
         managed'[n] # "there" \/ (deployed[n] # "none" /\ deployed'[n] = "none")
  PROVE  \/ n \in asked' \cup expired
         \/ deployed[n] = "none" /\ job[n] # "running" /\ create[n] = "ended"
<1> USE DEF Base, Inv
<1>1. CASE \E m \in Clusters : DeleteMceCluster(m)
  <2>1. PICK m \in Clusters : DeleteMceCluster(m)
    BY <1>1
  <2>2. n = m
    BY <2>1, ReplaceEffect DEF DeleteMceCluster, deleteManagedCluster
  <2> QED  BY <2>1, <2>2 DEF DeleteMceCluster
<1>2. CASE listManagedClusters
  <2>1. n \in Over(sync'.todo)
    BY <1>2, ListEffect, ReplaceEffect DEF deleteManagedCluster
  <2> QED  BY <2>1 DEF Over
<1>3. CASE syncJobs
  <2>1. PICK made :
          /\ \A k \in made : job[k] = "done"
          /\ Replace({k \in cache.clusters : job[k] = "failed"} \cup (Due \ made), made)
    BY <1>3 DEF syncJobs, Due
  <2>2. job[n] = "failed" \/ n \in Due
    BY <2>1, ReplaceEffect
  <2>3. n \in Due => deployed[n] = "none" /\ job[n] = "done"
    BY <1>3 DEF syncJobs, Due
  <2> QED  BY <2>2, <2>3 DEF Stages
<1>4. CASE DeleteStale
  <2>1. n \in Stale
    BY <1>4, ReplaceEffect DEF DeleteStale, deleteManagedCluster
  <2>2. jobsRead /\ sync.pc # "idle"
    BY <1>4 DEF DeleteStale
  <2> QED  BY <2>1, <2>2 DEF Stale, Sightings
<1>5. CASE UNCHANGED <<managed, deployed>>
  BY <1>5
<1>6. CASE \E m \in Clusters : createManagedCluster(m) \/ createClusterDeployment(m) \/ Finalize(m)
  BY <1>6 DEF createManagedCluster, createClusterDeployment, Finalize, TypeOK
<1>7. CASE \E m \in Clusters : Hive(m)
  BY <1>7 DEF Hive, TypeOK
<1> QED
  BY <1>1, <1>2, <1>3, <1>4, <1>5, <1>6, <1>7
  DEF Next, User, MceSync, CreateMceCluster, Creation, LaunchBuild, Hub, JobEnds, Expire,
      SetMceNotifier, Restart, Annotate, Store, NotifyCluster, vars, hubVars

\* mceSync and sync take no live cluster for a stale one and delete none that
\* waits for its images, whichever creations, deletions, messages or annotations
\* fail: unless the hub could not be read, a creation is seen between its
\* objects, jobs are not read yet, or no mceSync ends between two syncs.
THEOREM LiveClustersAreKept ==
    Faults \cap {"get", "window", "early", "slow"} = {} => (Spec => LiveIsKept)
<1> SUFFICES ASSUME Faults \cap {"get", "window", "early", "slow"} = {} PROVE Spec => LiveIsKept
  OBVIOUS
<1>0. "get" \notin Faults /\ "window" \notin Faults /\ "early" \notin Faults /\ "slow" \notin Faults
  OBVIOUS
<1>1. Init => Sightings
  BY DEF Init, Sightings, Idle
<1>2. Base /\ Sightings /\ [Next]_vars => Sightings'
  BY <1>0, ListSightings, MceSyncSightings, OtherSightings DEF Next, MceSync
<1>3. Base /\ Sightings /\ [Next]_vars =>
        [\A n \in Clusters :
           (/\ managed[n] = "there"
            /\ \/ managed'[n] # "there"
               \/ deployed[n] # "none" /\ deployed'[n] = "none")
              => \/ n \in asked' \cup expired
                 \/ deployed[n] = "none" /\ job[n] # "running" /\ create[n] = "ended"]_vars
  BY <1>0, DeletionIsDue
<1> QED  BY BaseHolds, <1>1, <1>2, <1>3, PTL DEF Spec, LiveIsKept

-----------------------------------------------------------------------------
(* FailureToldOnce *)

\* A cluster that sync or its creation may still deploy.
Undeployed(n) == managed[n] \in {"none", "there"} /\ deployed[n] = "none"

\* A provision of Hive, and the order in which Hive makes them.
Begun(p) == p.try \in 1..MaxTries /\ p.stage \in {"running", "failed", "complete"}
Before(p, q) == p = q \/ p.try < q.try \/ (p.try = q.try /\ p.stage = "running")

\* How often the installation has failed so far. A deployment that is gone may
\* have failed before its first provision.
FailuresOf(p, dep) ==
    IF p.try = 0 THEN IF dep = "there" THEN 0 ELSE 1
    ELSE IF p.stage = "failed" THEN p.try
    ELSE p.try - 1
Failures(n) == FailuresOf(provision[n], deployed[n])

\* A cluster is deployed once. No more failures are told than there were.
HubTold(n) ==
    /\ provision[n] = NoProvision \/ Begun(provision[n])
    /\ deployed[n] # "none" => job[n] = "none" \/ n \in imagesets
    /\ Undeployed(n) => provision[n] = NoProvision /\ failTold[n] = 0
    /\ failTold[n] <= Failures(n)

\* The failure that a provision or a deployment shows, and that it is not told.
Failed(p, dep) == p.stage = "failed" \/ (p = NoProvision /\ dep = "failed")
Untold(n, p) == IF p # NoProvision THEN failTold[n] < p.try ELSE failTold[n] < Failures(n)

\* What a view of the cluster, in the cache or in the list under way, says about
\* the failures that were told.
ViewTold(n, p, dep) ==
    /\ dep # "none" => ~Undeployed(n)
    /\ p # NoProvision => /\ Begun(p) /\ Before(p, provision[n])
                          /\ failTold[n] <= p.try
                          /\ p.stage # "failed" => failTold[n] < p.try
    /\ p = NoProvision /\ dep = "there" /\ deployed[n] = "failed" => failTold[n] < Failures(n)
    /\ attempts["failure"][n] # 0 /\ Failed(p, dep) => Untold(n, p)

\* The steps of the hub for one cluster: nothing, its creation, its deployment,
\* its deletion, and the progress of Hive.
HubStep(n) ==
    \/ /\ managed'[n] = managed[n] /\ deployed'[n] = deployed[n]
       /\ provision'[n] = provision[n]
    \/ /\ Undeployed(n) /\ managed'[n] = "there" /\ deployed'[n] \in {"none", "there"}
       /\ provision'[n] = provision[n]
    \/ /\ managed'[n] \notin {"none", "there"} /\ deployed'[n] = "none"
       /\ provision'[n] = provision[n]
    \/ /\ deployed[n] # "none" /\ managed'[n] = managed[n]
       /\ \/ /\ deployed[n] = "there" /\ provision[n].try = 0
             /\ \/ provision'[n] = [try |-> 1, stage |-> "running"] /\ deployed'[n] = "there"
                \/ provision'[n] = provision[n] /\ deployed'[n] = "failed"
          \/ /\ provision[n].stage = "running"
             /\ \/ /\ provision'[n] = [try |-> provision[n].try, stage |-> "failed"]
                   /\ deployed'[n] = "failed"
                \/ /\ provision'[n] = [try |-> provision[n].try, stage |-> "complete"]
                   /\ deployed'[n] = deployed[n]
          \/ /\ provision[n].stage = "failed" /\ provision[n].try < MaxTries
             /\ provision'[n] = [try |-> provision[n].try + 1, stage |-> "running"]
             /\ deployed'[n] = "there"

\* What HubStep preserves: deployed stays deployed or is gone for good, failures
\* are not undone, and a failing deployment adds one.
LEMMA HubStepMoves ==
  ASSUME TypeOK, NEW n \in Clusters, HubTold(n), HubStep(n)
  PROVE  /\ provision'[n] = NoProvision \/ Begun(provision'[n])
         /\ Undeployed(n)' => Undeployed(n) /\ provision'[n] = provision[n]
         /\ Failures(n) \in Nat /\ Failures(n)' \in Nat
         /\ ~Undeployed(n) => Failures(n)' >= Failures(n)
         /\ deployed'[n] = "failed" => deployed[n] = "failed" \/ Failures(n)' > Failures(n)
         /\ \A p \in Provisions : Begun(p) /\ Before(p, provision[n]) => Before(p, provision'[n])
<1> USE DEF Undeployed, Failures, FailuresOf, MaxTries, Begun, Before
<1>0. /\ provision[n] \in Provisions /\ deployed[n] \in Deployments
      /\ provision[n] = NoProvision \/ Begun(provision[n])
  BY DEF TypeOK, HubTold
<1>1. CASE /\ managed'[n] = managed[n] /\ deployed'[n] = deployed[n]
           /\ provision'[n] = provision[n]
  BY <1>0, <1>1 DEF NoProvision, Provisions
<1>2. CASE /\ Undeployed(n) /\ managed'[n] = "there" /\ deployed'[n] \in {"none", "there"}
           /\ provision'[n] = provision[n]
  BY <1>0, <1>2 DEF NoProvision, Provisions
<1>3. CASE /\ managed'[n] \notin {"none", "there"} /\ deployed'[n] = "none"
           /\ provision'[n] = provision[n]
  BY <1>0, <1>3 DEF NoProvision, Provisions
<1>4. CASE /\ deployed[n] = "there" /\ managed'[n] = managed[n] /\ provision[n].try = 0
           /\ provision'[n] = [try |-> 1, stage |-> "running"] /\ deployed'[n] = "there"
  BY <1>0, <1>4 DEF NoProvision, Provisions
<1>5. CASE /\ deployed[n] = "there" /\ managed'[n] = managed[n] /\ provision[n].try = 0
           /\ provision'[n] = provision[n] /\ deployed'[n] = "failed"
  BY <1>0, <1>5 DEF NoProvision, Provisions
<1>6. CASE /\ deployed[n] # "none" /\ managed'[n] = managed[n] /\ provision[n].stage = "running"
           /\ \/ /\ provision'[n] = [try |-> provision[n].try, stage |-> "failed"]
                 /\ deployed'[n] = "failed"
              \/ /\ provision'[n] = [try |-> provision[n].try, stage |-> "complete"]
                 /\ deployed'[n] = deployed[n]
  BY <1>0, <1>6 DEF NoProvision, Provisions
<1>7. CASE /\ deployed[n] # "none" /\ managed'[n] = managed[n]
           /\ provision[n].stage = "failed" /\ provision[n].try < MaxTries
           /\ provision'[n] = [try |-> provision[n].try + 1, stage |-> "running"]
           /\ deployed'[n] = "there"
  <2>1. /\ provision[n].try = 1 /\ provision[n].stage = "failed"
        /\ provision'[n].try = 2 /\ provision'[n].stage = "running"
    BY <1>0, <1>7 DEF NoProvision
  <2>2. Begun(provision'[n])
    BY <2>1
  <2>3. \A p \in Provisions : Begun(p) /\ Before(p, provision[n]) => Before(p, provision'[n])
    BY <2>1 DEF Provisions
  <2>4. Failures(n) = 1 /\ Failures(n)' = 1
    BY <2>1
  <2> QED  BY <1>0, <1>7, <2>1, <2>2, <2>3, <2>4
<1> QED  BY <1>1, <1>2, <1>3, <1>4, <1>5, <1>6, <1>7 DEF HubStep

\* What is said of a view stays true while nobody is told of a failure.
LEMMA ViewMoves ==
  ASSUME TypeOK, NEW n \in Clusters, HubTold(n), HubStep(n),
         NEW p \in Provisions, NEW dep \in Deployments, ViewTold(n, p, dep),
         failTold'[n] = failTold[n],
         attempts'["failure"][n] \in {0, attempts["failure"][n]}
  PROVE  ViewTold(n, p, dep)'
<1> DEFINE f == Failures(n)
           g == Failures(n)'
<1>1. /\ Undeployed(n)' => Undeployed(n) /\ provision'[n] = provision[n]
      /\ f \in Nat /\ g \in Nat
      /\ ~Undeployed(n) => g >= f
      /\ deployed'[n] = "failed" => deployed[n] = "failed" \/ g > f
      /\ Begun(p) /\ Before(p, provision[n]) => Before(p, provision'[n])
  BY HubStepMoves
<1>2. /\ failTold[n] \in Nat /\ failTold[n] <= f
      /\ Undeployed(n) => provision[n] = NoProvision
  BY DEF TypeOK, HubTold, MaxTries
<1> HIDE DEF f, g
<1>3. p # NoProvision => ~Undeployed(n)
  BY <1>2 DEF ViewTold, Begun, Before, NoProvision, MaxTries
<1>4. dep # "none" => ~Undeployed(n)
  BY DEF ViewTold
<1>5. p # NoProvision => /\ Begun(p) /\ Before(p, provision'[n])
                         /\ failTold[n] <= p.try
                         /\ p.stage # "failed" => failTold[n] < p.try
  BY <1>1 DEF ViewTold
<1>6. p = NoProvision /\ dep = "there" /\ deployed'[n] = "failed" => failTold[n] < g
  BY <1>1, <1>2, <1>4 DEF ViewTold, f
<1>7. attempts'["failure"][n] # 0 /\ Failed(p, dep) =>
        IF p # NoProvision THEN failTold[n] < p.try ELSE failTold[n] < g
  BY <1>1, <1>2, <1>4 DEF ViewTold, Untold, Failed, NoProvision, f
<1> QED  BY <1>1, <1>4, <1>5, <1>6, <1>7 DEF ViewTold, Untold, Failed, g

\* A failure that a view shows has happened.
LEMMA ShownHappened ==
  ASSUME TypeOK, NEW n \in Clusters, HubTold(n),
         NEW p \in Provisions, NEW dep \in Deployments, ViewTold(n, p, dep),
         Failed(p, dep), Untold(n, p)
  PROVE  failTold[n] < Failures(n) /\ ~Undeployed(n)
  BY DEF TypeOK, HubTold, ViewTold, Failed, Untold, Failures, FailuresOf, Begun, Before,
         NoProvision, MaxTries, Provisions

\* Where the deletion of a cluster does not stop half-way, its deployment, its
\* imageset and the ManagedCluster go together.
LEMMA ReplaceWhole ==
  ASSUME TypeOK, "part" \notin Faults, NEW doomed, NEW made, Replace(doomed, made),
         NEW n \in Clusters, n \notin made
  PROVE  \/ /\ deployed'[n] = deployed[n] /\ managed'[n] = managed[n]
            /\ n \in imagesets' <=> n \in imagesets
         \/ /\ deployed'[n] = "none"
            /\ managed'[n] = IF managed[n] = "there" THEN "deleting" ELSE managed[n]
<1> DEFINE parts == {"imageset", "deployment", "cluster"}
<1>1. PICK done \in [doomed -> {parts} \cup IF "delete" \in Faults THEN {{}} ELSE {}] :
        LET deleted(part) == {m \in doomed : part \in done[m]}
        IN /\ imagesets' = (imagesets \ deleted("imageset")) \cup made
           /\ deployed' = [m \in Clusters |->
                             IF m \in made THEN "there"
                             ELSE IF m \in deleted("deployment") THEN "none"
                             ELSE deployed[m]]
           /\ managed' = [m \in Clusters |->
                            IF m \in deleted("cluster") /\ managed[m] = "there"
                            THEN "deleting" ELSE managed[m]]
  BY Zenon DEF Replace
<1>2. n \in doomed => done[n] = parts \/ done[n] = {}
  BY <1>1
<1>3. CASE n \in doomed /\ done[n] = parts
  BY <1>1, <1>3
<1>4. CASE n \notin doomed \/ done[n] = {}
  BY <1>1, <1>4
<1> QED  BY <1>2, <1>3, <1>4

\* What a deletion is for the cluster: nothing, or its end.
LEMMA DeleteHubStep ==
  ASSUME Base, "part" \notin Faults, NEW n \in Clusters, HubTold(n),
         NEW doomed, NEW made, Replace(doomed, made), n \notin made,
         UNCHANGED <<provision, job>>
  PROVE  HubStep(n) /\ (deployed'[n] # "none" => job'[n] = "none" \/ n \in imagesets')
<1>1. \/ /\ deployed'[n] = deployed[n] /\ managed'[n] = managed[n]
         /\ n \in imagesets' <=> n \in imagesets
      \/ /\ deployed'[n] = "none"
         /\ managed'[n] = IF managed[n] = "there" THEN "deleting" ELSE managed[n]
  BY ReplaceWhole DEF Base, Inv
<1>2. managed[n] = "none" => deployed[n] = "none"
  BY DEF Base, Stages
<1>3. managed[n] \in {"none", "there", "deleting", "gone"}
  BY DEF Base, Inv, TypeOK
<1> QED  BY <1>1, <1>2, <1>3 DEF HubStep, HubTold

\* Every step is one of HubStep for every cluster, and no cluster with a build
\* is deployed without its imageset.
LEMMA NextHubStep ==
  ASSUME Base, "part" \notin Faults, [Next]_vars, NEW n \in Clusters, HubTold(n)
  PROVE  HubStep(n) /\ (deployed'[n] # "none" => job'[n] = "none" \/ n \in imagesets')
<1> USE DEF Base, Inv
<1>1. CASE \E m \in Clusters : DeleteMceCluster(m)
  BY <1>1, DeleteHubStep DEF DeleteMceCluster, deleteManagedCluster
<1>2. CASE listManagedClusters
  <2>1. UNCHANGED <<provision, job>>
    BY <1>2 DEF listManagedClusters
  <2>2. CASE deleteManagedCluster(Over(sync'.todo))
    BY <2>1, <2>2, DeleteHubStep DEF deleteManagedCluster
  <2>3. CASE UNCHANGED <<managed, deployed, imagesets>>
    BY <2>1, <2>3 DEF HubStep, HubTold
  <2> QED  BY <1>2, <2>2, <2>3, ListEffect
<1>3. CASE DeleteStale
  BY <1>3, DeleteHubStep DEF DeleteStale, deleteManagedCluster
<1>4. CASE syncJobs
  <2>1. PICK made :
          /\ Replace({k \in cache.clusters : job[k] = "failed"} \cup (Due \ made), made)
          /\ \A k \in made : k \notin imagesets /\ managed[k] = "there" /\ job[k] = "done"
    BY <1>4 DEF syncJobs, Due
  <2>2. UNCHANGED <<provision, job>>
    BY <1>4 DEF syncJobs
  <2>3. CASE n \in made
    <3>1. deployed[n] = "none"
      BY <2>1, <2>3 DEF HubTold
    <3>2. managed'[n] = "there" /\ deployed'[n] = "there" /\ n \in imagesets'
      BY <2>1, <2>3, ReplaceEffect
    <3> QED  BY <2>1, <2>2, <2>3, <3>1, <3>2 DEF HubStep, Undeployed
  <2>4. CASE n \notin made
    BY <2>1, <2>2, <2>4, DeleteHubStep
  <2> QED  BY <2>3, <2>4
<1>5. ASSUME NEW m \in Clusters, createManagedCluster(m)
      PROVE  HubStep(n) /\ (deployed'[n] # "none" => job'[n] = "none" \/ n \in imagesets')
  <2>1. /\ UNCHANGED <<deployed, provision, job, imagesets>>
        /\ \/ managed'[n] = managed[n]
           \/ m = n /\ managed'[n] = "there" /\ create[n] = "launched"
    BY <1>5 DEF createManagedCluster, TypeOK
  <2>2. create[n] = "launched" => Undeployed(n)
    BY DEF Stages, Undeployed
  <2> QED  BY <2>1, <2>2 DEF HubStep, HubTold, Undeployed
<1>6. ASSUME NEW m \in Clusters, createClusterDeployment(m)
      PROVE  HubStep(n) /\ (deployed'[n] # "none" => job'[n] = "none" \/ n \in imagesets')
  <2>1. /\ UNCHANGED <<managed, provision, job, imagesets>>
        /\ \/ deployed'[n] = deployed[n]
           \/ m = n /\ managed[n] = "there" /\ deployed'[n] = "there" /\ create[n] = "object"
    BY <1>6 DEF createClusterDeployment, TypeOK
  <2>2. create[n] = "object" => deployed[n] = "none" /\ job[n] = "none"
    BY DEF Stages
  <2> QED  BY <2>1, <2>2 DEF HubStep, HubTold, Undeployed
<1>7. ASSUME NEW m \in Clusters, LaunchBuild(m)
      PROVE  HubStep(n) /\ (deployed'[n] # "none" => job'[n] = "none" \/ n \in imagesets')
  <2>1. /\ UNCHANGED <<managed, deployed, provision, imagesets>>
        /\ job'[n] = job[n] \/ create[n] = "checked"
    BY <1>7 DEF LaunchBuild, TypeOK
  <2> QED  BY <2>1 DEF HubStep, HubTold, Stages
<1>8. ASSUME NEW m \in Clusters, JobEnds(m)
      PROVE  HubStep(n) /\ (deployed'[n] # "none" => job'[n] = "none" \/ n \in imagesets')
  <2>1. /\ UNCHANGED <<managed, deployed, provision, imagesets>>
        /\ job'[n] = job[n] \/ job[n] # "none"
    BY <1>8 DEF JobEnds, TypeOK
  <2> QED  BY <2>1 DEF HubStep, HubTold
<1>9. ASSUME NEW m \in Clusters, Hive(m)
      PROVE  HubStep(n) /\ (deployed'[n] # "none" => job'[n] = "none" \/ n \in imagesets')
  <2>1. UNCHANGED <<managed, job, imagesets>> /\ deployed[m] # "none"
    BY <1>9 DEF Hive
  <2>2. CASE m # n
    <3>1. deployed'[n] = deployed[n] /\ provision'[n] = provision[n]
      BY <1>9, <2>2 DEF Hive, TypeOK
    <3> QED  BY <2>1, <3>1 DEF HubStep, HubTold
  <2>3. CASE m = n
    <3>1. provision[n] \in Provisions
      BY DEF TypeOK
    <3>2. HubStep(n)
      BY <1>9, <2>3, <3>1 DEF Hive, HubStep, TypeOK, Provisions
    <3> QED  BY <2>1, <2>3, <3>2 DEF HubTold
  <2> QED  BY <2>2, <2>3
<1>10. ASSUME NEW m \in Clusters, Finalize(m)
      PROVE  HubStep(n) /\ (deployed'[n] # "none" => job'[n] = "none" \/ n \in imagesets')
  <2>1. /\ UNCHANGED <<provision, job, imagesets>>
        /\ \/ managed'[n] = managed[n] /\ deployed'[n] = deployed[n]
           \/ managed'[n] = "gone" /\ deployed'[n] = "none"
    BY <1>10 DEF Finalize, TypeOK
  <2> QED  BY <2>1 DEF HubStep, HubTold
<1>11. CASE UNCHANGED <<managed, deployed, provision, job, imagesets>>
  BY <1>11 DEF HubStep, HubTold
<1> QED
  BY <1>1, <1>2, <1>3, <1>4, <1>5, <1>6, <1>7, <1>8, <1>9, <1>10, <1>11
  DEF Next, User, MceSync, CreateMceCluster, Creation, Hub, Expire, SetMceNotifier, Restart,
      Annotate, Store, NotifyCluster, vars, hubVars

\* What mceSync compares the hub with: the cache or, when it is under way, what
\* it will leave there.
Latest == IF sync.pc = "idle" THEN cache ELSE sync.seen

\* What is told is not told again: a message is repeated only for a failure that
\* the view shows and that is untold, and a failure is new only if it is.
ShownTold(n, p, dep) ==
    /\ ViewTold(n, p, dep)
    /\ sync.pc # "notify" /\ attempts["failure"][n] # 0 => Failed(p, dep)
    /\ sync.pc = "notify" /\ n \in sync.todo /\ Failed(p, dep) /\ provisionFailureIsNew(n)
          => Untold(n, p)

FailuresTold ==
    \A n \in Clusters :
       /\ HubTold(n)
       /\ \A p \in Provisions, dep \in Deployments :
             p = Latest.provisions[n] /\ dep = Latest.deployments[n] => ShownTold(n, p, dep)

\* The view is a view.
LEMMA LatestType ==
  ASSUME TypeOK, NEW n \in Clusters
  PROVE  Latest.provisions[n] \in Provisions /\ Latest.deployments[n] \in Deployments
<1>1. Latest \in View
  BY DEF TypeOK, Latest, SyncRecord
<1> QED  BY <1>1 DEF View

\* No step that tells nobody makes more told than has failed.
LEMMA QuietHubTold ==
  ASSUME Base, "part" \notin Faults, [Next]_vars, NEW n \in Clusters, HubTold(n),
         failTold'[n] = failTold[n]
  PROVE  HubTold(n)' /\ HubStep(n)
<1> DEFINE f == Failures(n)
           g == Failures(n)'
<1>1. HubStep(n) /\ (deployed'[n] # "none" => job'[n] = "none" \/ n \in imagesets')
  BY NextHubStep
<1>2. /\ provision'[n] = NoProvision \/ Begun(provision'[n])
      /\ Undeployed(n)' => Undeployed(n) /\ provision'[n] = provision[n]
      /\ f \in Nat /\ g \in Nat
      /\ ~Undeployed(n) => g >= f
  BY <1>1, HubStepMoves DEF Base, Inv
<1>3. /\ failTold[n] \in Nat /\ failTold[n] <= f
      /\ Undeployed(n) => provision[n] = NoProvision /\ failTold[n] = 0
  BY DEF Base, Inv, TypeOK, HubTold, MaxTries
<1> HIDE DEF f, g
<1>4. failTold'[n] <= g
  BY <1>2, <1>3
<1> QED  BY <1>1, <1>2, <1>3, <1>4 DEF HubTold, g, Begun

\* A failure that is untold stays untold.
LEMMA QuietUntold ==
  ASSUME Base, NEW n \in Clusters, HubTold(n), HubStep(n),
         NEW p \in Provisions, NEW dep \in Deployments, ViewTold(n, p, dep),
         Failed(p, dep), Untold(n, p), failTold'[n] = failTold[n]
  PROVE  Untold(n, p)'
<1> DEFINE f == Failures(n)
           g == Failures(n)'
<1>1. /\ f \in Nat /\ g \in Nat /\ failTold[n] \in Nat
      /\ ~Undeployed(n) => g >= f
  BY HubStepMoves DEF Base, Inv, TypeOK, MaxTries
<1>2. p = NoProvision => ~Undeployed(n)
  BY DEF ViewTold, Failed, NoProvision
<1>3. p = NoProvision => failTold[n] < f
  BY DEF Untold
<1> HIDE DEF f, g
<1>4. p = NoProvision => failTold'[n] < g
  BY <1>1, <1>2, <1>3
<1> QED  BY <1>4 DEF Untold, g

\* Steps that tell nobody of a failure, forget attempts or keep them, and keep
\* the view, keep the invariant.
LEMMA QuietTold ==
  ASSUME Base, "part" \notin Faults, FailuresTold, [Next]_vars, UNCHANGED failTold,
         \A n \in Clusters :
            /\ attempts'["failure"][n] \in {0, attempts["failure"][n]}
            /\ Latest'.provisions[n] = Latest.provisions[n]
            /\ Latest'.deployments[n] = Latest.deployments[n]
            /\ sync'.pc = "notify" =>
                  /\ sync.pc = "notify" /\ sync'.todo \subseteq sync.todo
                  /\ provisionFailureIsNew(n)' => provisionFailureIsNew(n)
            /\ sync'.pc # "notify" /\ attempts'["failure"][n] # 0 =>
                  Failed(Latest.provisions[n], Latest.deployments[n])
  PROVE  FailuresTold'
<1> SUFFICES ASSUME NEW n \in Clusters
             PROVE  /\ HubTold(n)'
                    /\ \A p \in Provisions, dep \in Deployments :
                          p = Latest'.provisions[n] /\ dep = Latest'.deployments[n]
                            => ShownTold(n, p, dep)'
  BY DEF FailuresTold
<1>1. HubTold(n) /\ HubTold(n)' /\ HubStep(n)
  BY QuietHubTold DEF FailuresTold
<1>2. ASSUME NEW p \in Provisions, NEW dep \in Deployments,
             p = Latest'.provisions[n], dep = Latest'.deployments[n]
      PROVE  ShownTold(n, p, dep)'
  <2>1. ShownTold(n, p, dep)
    BY <1>2 DEF FailuresTold
  <2>2. ViewTold(n, p, dep)'
    BY <1>1, <2>1, ViewMoves DEF ShownTold, Base, Inv
  <2>3. (Failed(p, dep) /\ Untold(n, p)) => Untold(n, p)'
    BY <1>1, <2>1, QuietUntold DEF ShownTold
  <2>4. (sync'.pc = "notify" /\ n \in sync'.todo /\ Failed(p, dep) /\ provisionFailureIsNew(n)')
          => Untold(n, p)'
    BY <2>1, <2>3 DEF ShownTold
  <2>5. sync'.pc # "notify" /\ attempts'["failure"][n] # 0 => Failed(p, dep)
    BY <1>2
  <2> QED  BY <2>2, <2>4, <2>5 DEF ShownTold, Failed
<1> QED  BY <1>1, <1>2

\* What mceSync lists is told no more than the hub and the cache say; a failure
\* that it takes for new is untold.
LEMMA ListedTold ==
  ASSUME TypeOK, NEW n \in Clusters, HubTold(n),
         NEW old \in Provisions, NEW oldDep \in Deployments, ViewTold(n, old, oldDep),
         attempts["failure"][n] # 0 => Failed(old, oldDep),
         NEW p \in Provisions, NEW dep \in Deployments, dep \in {"none", deployed[n]},
         dep = "none" => p = NoProvision,
         dep # "none" => p \in {provision[n], old}
  PROVE  /\ ViewTold(n, p, dep)
         /\ (/\ Failed(p, dep)
             /\ IF p # NoProvision THEN old \notin {NoProvision, p} ELSE oldDep = "there")
               => Untold(n, p)
<1> DEFINE f == Failures(n)
<1>1. /\ failTold[n] \in Nat /\ provision[n] \in Provisions /\ f \in Nat
      /\ provision[n] = NoProvision \/ Begun(provision[n])
      /\ failTold[n] <= f
      /\ provision[n] # NoProvision =>
            f = IF provision[n].stage = "failed" THEN provision[n].try ELSE provision[n].try - 1
  BY DEF TypeOK, HubTold, Failures, FailuresOf, MaxTries, Begun, NoProvision, Provisions
<1>2. old # NoProvision => /\ Begun(old) /\ Before(old, provision[n])
                           /\ provision[n] # NoProvision
                           /\ failTold[n] <= old.try
                           /\ old.stage # "failed" => failTold[n] < old.try
  BY DEF ViewTold, Begun, Before, NoProvision, MaxTries
<1>3. old = NoProvision /\ oldDep = "there" /\ deployed[n] = "failed" => failTold[n] < f
  BY DEF ViewTold
<1>4. attempts["failure"][n] # 0 =>
        IF old # NoProvision THEN failTold[n] < old.try ELSE failTold[n] < f
  BY DEF ViewTold, Untold
<1> HIDE DEF f
<1>5. dep # "none" => ~Undeployed(n)
  BY DEF Undeployed
<1>6. p # NoProvision => /\ Begun(p) /\ Before(p, provision[n])
                         /\ failTold[n] <= p.try
                         /\ p.stage # "failed" => failTold[n] < p.try
  <2>1. CASE p = old
    BY <1>2, <2>1
  <2>2. CASE p = provision[n]
    BY <1>1, <2>2 DEF Begun, Before, MaxTries, Provisions
  <2> QED  BY <2>1, <2>2
<1>7. attempts["failure"][n] # 0 /\ Failed(p, dep) =>
        IF p # NoProvision THEN failTold[n] < p.try ELSE failTold[n] < f
  <2>1. CASE p = old
    BY <1>4, <2>1
  <2>2. CASE p = provision[n] /\ p # NoProvision
    BY <1>1, <1>2, <1>4, <2>2 DEF Failed, Before, Begun, MaxTries, Provisions
  <2>3. CASE p = NoProvision /\ p # old
    BY <1>2, <2>3 DEF Failed, NoProvision
  <2> QED  BY <2>1, <2>2, <2>3
<1>8. (/\ Failed(p, dep)
       /\ IF p # NoProvision THEN old \notin {NoProvision, p} ELSE oldDep = "there")
        => IF p # NoProvision THEN failTold[n] < p.try ELSE failTold[n] < f
  <2>1. CASE p # NoProvision
    BY <1>1, <1>2, <2>1 DEF Failed, Before, Begun, MaxTries, Provisions
  <2>2. CASE p = NoProvision
    BY <1>2, <1>3, <2>2 DEF Failed, NoProvision
  <2> QED  BY <2>1, <2>2
<1>9. ViewTold(n, p, dep)
  BY <1>5, <1>6, <1>7 DEF ViewTold, Untold, f
<1> QED  BY <1>8, <1>9 DEF Untold, f

LEMMA ListTold ==
  ASSUME Base, "part" \notin Faults, FailuresTold, listManagedClusters
  PROVE  FailuresTold'
<1> USE DEF Base, Inv
<1> SUFFICES ASSUME NEW n \in Clusters
             PROVE  /\ HubTold(n)'
                    /\ \A p \in Provisions, dep \in Deployments :
                          p = Latest'.provisions[n] /\ dep = Latest'.deployments[n]
                            => ShownTold(n, p, dep)'
  BY DEF FailuresTold
<1>1. UNCHANGED <<failTold, attempts, cache>> /\ [Next]_vars
  BY DEF listManagedClusters, ghosts, Next, MceSync
<1>2. HubTold(n) /\ HubTold(n)' /\ HubStep(n)
  BY <1>1, QuietHubTold DEF FailuresTold
<1>3. /\ sync.pc = "idle" /\ sync'.pc = "notify"
      /\ sync'.seen.deployments[n] \in {"none", deployed[n]}
      /\ sync'.seen.deployments[n] = "none" => sync'.seen.provisions[n] = NoProvision
      /\ sync'.seen.deployments[n] # "none" =>
            sync'.seen.provisions[n] \in {provision[n], cache.provisions[n]}
  BY ListEffect
<1>4. PICK old \in Provisions, oldDep \in Deployments :
        old = cache.provisions[n] /\ oldDep = cache.deployments[n]
  BY <1>3, LatestType DEF Latest
<1>5. ViewTold(n, old, oldDep) /\ (attempts["failure"][n] # 0 => Failed(old, oldDep))
  BY <1>3, <1>4 DEF FailuresTold, ShownTold, Latest
<1>6. ASSUME NEW p \in Provisions, NEW dep \in Deployments,
             p = Latest'.provisions[n], dep = Latest'.deployments[n]
      PROVE  ShownTold(n, p, dep)'
  <2>1. p = sync'.seen.provisions[n] /\ dep = sync'.seen.deployments[n]
    BY <1>3, <1>6 DEF Latest
  <2>2. /\ dep \in {"none", deployed[n]}
        /\ dep = "none" => p = NoProvision
        /\ dep # "none" => p \in {provision[n], old}
    BY <1>3, <1>4, <2>1
  <2>3. /\ ViewTold(n, p, dep)
        /\ (/\ Failed(p, dep)
            /\ IF p # NoProvision THEN old \notin {NoProvision, p} ELSE oldDep = "there")
              => Untold(n, p)
    BY <1>2, <1>5, <2>2, ListedTold
  <2>4. ViewTold(n, p, dep)'
    BY <1>1, <1>2, <2>3, ViewMoves
  <2>5. provisionFailureIsNew(n)' =>
          IF p # NoProvision THEN old \notin {NoProvision, p} ELSE oldDep = "there"
    BY <1>1, <1>4, <2>1 DEF provisionFailureIsNew
  <2>6. Failed(p, dep) /\ Untold(n, p) => Untold(n, p)'
    BY <1>1, <1>2, <2>3, QuietUntold
  <2> QED  BY <1>3, <2>3, <2>4, <2>5, <2>6 DEF ShownTold, Failed
<1> QED  BY <1>2, <1>6

\* The message about a failure goes to a user who was not told of it.
LEMMA FailureTold ==
  ASSUME Base, FailuresTold, NEW n \in Clusters, NotifyCluster(n), notifyMceFailure(n)
  PROVE  FailuresTold'
<1> USE DEF Base, Inv
<1>1. /\ sync.pc = "notify" /\ n \in sync.todo
      /\ UNCHANGED <<managed, deployed, provision, job, imagesets, cache>>
  BY DEF NotifyCluster, hubVars
<1>2. sync'.pc = "notify" /\ sync'.seen = sync.seen /\ sync'.todo = sync.todo \ {n}
  BY <1>1 DEF notifyMceFailure, NextCluster, TypeOK, SyncRecord
<1>3. \A k \in Clusters \ {n} : /\ failTold'[k] = failTold[k]
                                /\ attempts'["failure"][k] = attempts["failure"][k]
  BY DEF notifyMceFailure, forgetAttempts, recordMceNotifyAttempt, CountUpTo, TypeOK
<1>4. \/ failTold'[n] = failTold[n]
      \/ failTold'[n] = failTold[n] + 1 /\ attempts'["failure"][n] = 0
  BY DEF notifyMceFailure, forgetAttempts, CountUpTo, TypeOK
<1>5. ASSUME NEW k \in Clusters \ {n}
      PROVE  /\ HubTold(k)'
             /\ \A p \in Provisions, dep \in Deployments :
                   p = Latest'.provisions[k] /\ dep = Latest'.deployments[k]
                     => ShownTold(k, p, dep)'
  <2>1. HubTold(k)'
    BY <1>1, <1>3 DEF FailuresTold, HubTold, Undeployed, Failures
  <2>2. ASSUME NEW p \in Provisions, NEW dep \in Deployments,
               p = Latest'.provisions[k], dep = Latest'.deployments[k]
        PROVE  ShownTold(k, p, dep)'
    <3>1. ShownTold(k, p, dep)
      BY <1>1, <1>2, <2>2 DEF FailuresTold, Latest
    <3>2. ViewTold(k, p, dep)'
      BY <1>1, <1>3, <3>1 DEF ShownTold, ViewTold, Untold, Failures, Undeployed
    <3>3. provisionFailureIsNew(k)' => provisionFailureIsNew(k)
      BY <1>1, <1>2 DEF provisionFailureIsNew
    <3>4. Untold(k, p) => Untold(k, p)'
      BY <1>1, <1>3 DEF Untold, Failures
    <3> QED  BY <1>1, <1>2, <3>1, <3>2, <3>3, <3>4 DEF ShownTold
  <2> QED  BY <2>1, <2>2
<1>6. /\ HubTold(n)'
      /\ \A p \in Provisions, dep \in Deployments :
            p = Latest'.provisions[n] /\ dep = Latest'.deployments[n]
              => ShownTold(n, p, dep)'
  <2>1. PICK p \in Provisions, dep \in Deployments :
          p = sync.seen.provisions[n] /\ dep = sync.seen.deployments[n]
    BY <1>1, LatestType DEF Latest
  <2>2. ShownTold(n, p, dep) /\ HubTold(n)
    BY <1>1, <2>1 DEF FailuresTold, Latest
  <2>3. Failed(p, dep)
    BY <2>1 DEF notifyMceFailure, ProvisionFailed, Failed
  <2>4. Untold(n, p)
    BY <1>1, <2>2, <2>3 DEF notifyMceFailure, ShownTold, ViewTold
  <2>5. failTold[n] < Failures(n) /\ ~Undeployed(n)
    BY <2>2, <2>3, <2>4, ShownHappened DEF ShownTold
  <2> DEFINE f == Failures(n)
  <2>6. f \in Nat /\ failTold[n] \in Nat /\ f = Failures(n)' /\ failTold[n] < f
    BY <1>1, <2>2, <2>5 DEF TypeOK, HubTold, Failures, FailuresOf, MaxTries, Begun, NoProvision
  <2> HIDE DEF f
  <2>7. failTold'[n] <= f
    BY <1>4, <2>6
  <2>8. HubTold(n)'
    BY <1>1, <2>2, <2>5, <2>6, <2>7 DEF HubTold, Undeployed
  <2>9. ViewTold(n, p, dep)'
    <3>1. dep # "none" => ~Undeployed(n)'
      BY <1>1, <2>5 DEF Undeployed
    <3>2. p # NoProvision => /\ Begun(p) /\ Before(p, provision'[n])
                             /\ failTold'[n] <= p.try
                             /\ p.stage # "failed" => failTold'[n] < p.try
      <4> SUFFICES ASSUME p # NoProvision PROVE Begun(p) /\ Before(p, provision'[n])
                                                /\ failTold'[n] <= p.try /\ p.stage = "failed"
        OBVIOUS
      <4>1. failTold[n] < p.try /\ p.try \in Nat /\ p.stage = "failed"
        BY <2>3, <2>4 DEF Untold, Failed, Provisions, MaxTries
      <4>2. failTold'[n] <= p.try
        BY <1>4, <2>6, <4>1
      <4> QED  BY <1>1, <2>2, <4>1, <4>2 DEF ShownTold, ViewTold
    <3>3. ~(p = NoProvision /\ dep = "there")
      BY <2>3 DEF Failed, NoProvision
    <3>4. attempts'["failure"][n] # 0 => Untold(n, p)'
      BY <1>4, <2>4, <2>6 DEF Untold, f
    <3> QED  BY <3>1, <3>2, <3>3, <3>4 DEF ViewTold
  <2>10. ShownTold(n, p, dep)'
    BY <1>2, <2>9 DEF ShownTold
  <2> QED  BY <1>2, <2>1, <2>8, <2>10 DEF Latest
<1> QED  BY <1>5, <1>6 DEF FailuresTold

\* The rest of the loop of mceSync, its end, and a restart.
LEMMA SyncTold ==
  ASSUME Base, "part" \notin Faults, FailuresTold, [Next]_vars,
         \/ \E n \in Clusters : NotifyCluster(n) /\ (NotifyReady(n) \/ NothingNew(n))
         \/ Annotate \/ DeleteStale \/ Store
  PROVE  FailuresTold'
<1> USE DEF Base, Inv
<1>1. ASSUME NEW n \in Clusters, NotifyCluster(n), NotifyReady(n) \/ NothingNew(n)
      PROVE  FailuresTold'
  <2>1. UNCHANGED <<failTold, cache>>
    BY <1>1 DEF NotifyCluster, NotifyReady, NothingNew
  <2>2. attempts'["failure"] = attempts["failure"]
    BY <1>1 DEF NotifyReady, NothingNew, forgetAttempts, recordMceNotifyAttempt, TypeOK
  <2>3. PICK m : NextCluster(n, m)
    BY <1>1 DEF NotifyReady, NothingNew
  <2>4. /\ sync.pc = "notify" /\ sync'.pc = "notify" /\ sync'.seen = sync.seen
        /\ sync'.todo \subseteq sync.todo
    BY <1>1, <2>3 DEF NotifyCluster, NextCluster, TypeOK, SyncRecord
  <2>5. \A k \in Clusters : provisionFailureIsNew(k)' => provisionFailureIsNew(k)
    BY <2>1, <2>4 DEF provisionFailureIsNew
  <2>6. Latest' = Latest
    BY <2>4 DEF Latest
  <2> QED  BY <2>1, <2>2, <2>4, <2>5, <2>6, QuietTold
<1>2. CASE Annotate
  <2>1. UNCHANGED <<failTold, cache, attempts>>
    BY <1>2 DEF Annotate, ghosts
  <2>2. sync'.pc = sync.pc /\ sync'.seen = sync.seen /\ sync'.todo = sync.todo
    BY <1>2 DEF Annotate, TypeOK, SyncRecord
  <2>3. \A k \in Clusters : provisionFailureIsNew(k)' => provisionFailureIsNew(k)
    BY <2>1, <2>2 DEF provisionFailureIsNew
  <2>4. Latest' = Latest
    BY <2>1, <2>2 DEF Latest
  <2>5. \A k \in Clusters : sync.pc # "notify" /\ attempts["failure"][k] # 0 =>
                               Failed(Latest.provisions[k], Latest.deployments[k])
    BY LatestType DEF FailuresTold, ShownTold
  <2> QED  BY <2>1, <2>2, <2>3, <2>4, <2>5, QuietTold
<1>3. CASE DeleteStale
  <2>1. UNCHANGED <<failTold, cache>>
    BY <1>3 DEF DeleteStale, ghosts
  <2>2. /\ sync.pc = "notify" /\ sync'.pc = "store"
        /\ sync'.seen.provisions = sync.seen.provisions
        /\ sync'.seen.deployments = sync.seen.deployments
    BY <1>3 DEF DeleteStale, TypeOK, SyncRecord, View
  <2>3. \A k \in Clusters :
           /\ attempts'["failure"][k] \in {0, attempts["failure"][k]}
           /\ attempts'["failure"][k] # 0 => ProvisionFailed(sync.seen, k)
    BY <1>3 DEF DeleteStale, TypeOK
  <2>4. Latest = sync.seen /\ Latest' = sync'.seen
    BY <2>2 DEF Latest
  <2>5. \A k \in Clusters : ProvisionFailed(sync.seen, k) =>
                               Failed(Latest.provisions[k], Latest.deployments[k])
    BY <2>4 DEF ProvisionFailed, Failed
  <2> QED  BY <2>1, <2>2, <2>3, <2>4, <2>5, QuietTold
<1>4. CASE Store
  <2>1. UNCHANGED <<failTold, attempts>> /\ sync.pc = "store" /\ sync'.pc = "idle"
        /\ Latest' = Latest
    BY <1>4 DEF Store, ghosts, Idle, Latest
  <2>2. \A k \in Clusters : attempts["failure"][k] # 0 =>
                               Failed(Latest.provisions[k], Latest.deployments[k])
    BY <2>1, LatestType DEF FailuresTold, ShownTold
  <2> QED  BY <2>1, <2>2, QuietTold
<1> QED  BY <1>1, <1>2, <1>3, <1>4

\* A new process has seen nothing and takes nothing for new.
LEMMA RestartTold ==
  ASSUME Base, "part" \notin Faults, FailuresTold, Restart
  PROVE  FailuresTold'
<1> USE DEF Base, Inv
<1>1. UNCHANGED failTold /\ [Next]_vars
  BY DEF Restart, Next
<1>2. \A n \in Clusters : HubTold(n)'
  BY <1>1, QuietHubTold DEF FailuresTold
<1>3. /\ sync'.pc = "idle"
      /\ \A n \in Clusters : /\ Latest'.provisions[n] = NoProvision
                             /\ Latest'.deployments[n] = "none"
                             /\ attempts'["failure"][n] = 0
  BY DEF Restart, Idle, NoView, Latest, TypeOK
<1>4. \A n \in Clusters : ShownTold(n, NoProvision, "none")'
  BY <1>3 DEF ShownTold, ViewTold
<1> QED  BY <1>2, <1>3, <1>4 DEF FailuresTold

\* The other steps change nothing that mceSync knows or tells.
LEMMA OtherTold ==
  ASSUME Base, "part" \notin Faults, FailuresTold, [Next]_vars,
         UNCHANGED <<failTold, attempts, sync, cache>>
  PROVE  FailuresTold'
<1>1. Latest' = Latest
  BY DEF Latest
<1>2. \A k \in Clusters : provisionFailureIsNew(k)' => provisionFailureIsNew(k)
  BY DEF provisionFailureIsNew
<1>3. \A k \in Clusters : sync.pc # "notify" /\ attempts["failure"][k] # 0 =>
                             Failed(Latest.provisions[k], Latest.deployments[k])
  BY LatestType DEF FailuresTold, ShownTold, Base, Inv
<1> QED  BY <1>1, <1>2, <1>3, QuietTold

\* Where the deletion of a cluster does not stop half-way, a failed attempt of
\* Hive is told once, by this process or an earlier one (provisionFailureIsNew,
\* mceFailureNotifyAttempts): whatever is not read, is read late or not
\* delivered, and also for clusters that their owner deletes or that expire.
THEOREM FailuresAreToldOnce == "part" \notin Faults => (Spec => []FailureToldOnce)
<1> SUFFICES ASSUME "part" \notin Faults PROVE Spec => []FailureToldOnce
  OBVIOUS
<1>1. Init => FailuresTold
  <2> SUFFICES ASSUME Init PROVE FailuresTold
    OBVIOUS
  <2>1. \A n \in Clusters : HubTold(n)
    BY DEF Init, HubTold, Undeployed, Failures, FailuresOf, NoProvision
  <2>2. /\ sync.pc = "idle"
        /\ \A n \in Clusters : /\ Latest.provisions[n] = NoProvision
                               /\ Latest.deployments[n] = "none"
                               /\ attempts["failure"][n] = 0
    BY DEF Init, Idle, NoView, Latest
  <2>3. \A n \in Clusters : ShownTold(n, NoProvision, "none")
    BY <2>2 DEF ShownTold, ViewTold
  <2> QED  BY <2>1, <2>2, <2>3 DEF FailuresTold
<1>2. Base /\ FailuresTold /\ [Next]_vars => FailuresTold'
  <2> SUFFICES ASSUME Base, FailuresTold, [Next]_vars PROVE FailuresTold'
    OBVIOUS
  <2>1. CASE listManagedClusters \/ Restart
    BY <2>1, ListTold, RestartTold
  <2>2. CASE Annotate \/ DeleteStale \/ Store \/ \E n \in Clusters : NotifyCluster(n)
    BY <2>2, SyncTold, FailureTold DEF NotifyCluster
  <2>3. CASE UNCHANGED <<failTold, attempts, sync, cache>>
    BY <2>3, OtherTold
  <2> QED
    BY <2>1, <2>2, <2>3
    DEF Next, User, MceSync, CreateMceCluster, DeleteMceCluster, Creation, LaunchBuild,
        createManagedCluster, createClusterDeployment, Hub, JobEnds, Hive, Finalize, Expire,
        syncJobs, SetMceNotifier, vars, hubVars, ghosts
<1>3. Base /\ FailuresTold => FailureToldOnce
  BY DEF Base, Inv, TypeOK, FailuresTold, HubTold, Failures, FailuresOf, FailureToldOnce, MaxTries,
         Provisions, NoProvision, Begun
<1> QED  BY BaseHolds, <1>1, <1>2, <1>3, PTL DEF Spec

=============================================================================
