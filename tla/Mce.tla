--------------------------------- MODULE Mce --------------------------------
(***************************************************************************)
(* MCE managed clusters (mceSync, CreateMceCluster, DeleteMceCluster and   *)
(* the MCE part of sync in pkg/manager/manager.go, pkg/manager/mce.go).    *)
(* A cluster is a namespace with a ManagedCluster and a ClusterDeployment  *)
(* on the hub; Hive installs it with one ClusterProvision per attempt. A   *)
(* release without an imageset of its own is first built by a ProwJob, and *)
(* sync creates the imageset and the deployment when the job is done.      *)
(*                                                                         *)
(* mceSync, one at a time, reads the hub, deletes what has expired or is   *)
(* stale, tells the users what became of their clusters and replaces the   *)
(* cache. Whether a user knows is an annotation of the ManagedCluster; how *)
(* often a message failed is counted in memory.                            *)
(***************************************************************************)
EXTENDS Naturals, FiniteSets

CONSTANTS
    Clusters,     \* requests to create a cluster, one cluster each
    MaxClusters,  \* MaxClusters of the user's configuration
    MaxAttempts,  \* maxMCENotificationAttempts
    Faults,       \* what may go wrong in a run (see below)
    MaxRestarts,  \* bound on the restarts of the bot
    Nil           \* no cluster

(***************************************************************************)
(*   create    creating an object of the cluster fails                     *)
(*   delete    deleting the objects of a cluster fails                     *)
(*   part      deleting some object of a cluster fails                     *)
(*   get       reading a ManagedCluster or a ClusterDeployment fails       *)
(*   provision reading a ClusterProvision fails                            *)
(*   auth      reading the credentials fails                               *)
(*   slack     Slack does not accept a message                             *)
(*   conflict  the annotation is refused, the ManagedCluster has changed   *)
(*   window    mceSync lists a cluster between the creation of the         *)
(*             ManagedCluster and of its ClusterDeployment                 *)
(*   early     mceSync looks for a cluster's job before the first sync     *)
(*   slow      no mceSync ends between two syncs                           *)
(***************************************************************************)
AllFaults == {"create", "delete", "part", "get", "provision", "auth", "slack",
              "conflict", "window", "early", "slow"}

ASSUME MceAssumption ==
    /\ MaxClusters \in Nat
    /\ MaxAttempts \in Nat \ {0}
    /\ Faults \subseteq AllFaults
    /\ MaxRestarts \in Nat
    /\ Nil \notin Clusters

VARIABLES
    \* the hub
    managed,    \* ManagedClusters
    deployed,   \* ClusterDeployments
    provision,  \* the newest ClusterProvision of a cluster
    available,  \* ManagedClusters with the condition Available
    annotated,  \* ManagedClusters with the annotation UserNotifiedTag
    imagesets,  \* imagesets made for clusters
    expired,    \* ManagedClusters whose expiry time has passed
    job,        \* the ProwJob that builds the images of a cluster
    \* the bot
    create,     \* where the CreateMceCluster for a cluster stands
    sync,       \* the mceSync under way
    cache,      \* mceClusters
    creds,      \* clusters whose credentials are cached
    jobs,       \* clusters that a job of m.jobs names
    jobsRead,   \* sync has filled m.jobs since the last restart
    attempts,   \* mceReadyNotifyAttempts and mceFailureNotifyAttempts
    notifier,   \* the Slack bot has registered its notifier
    restarts,   \* restarts of the bot so far
    \* what has happened
    told,       \* messages about the available cluster that were delivered
    failTold,   \* how often a user was told that the installation failed
    givenUp,    \* clusters whose failure this process has given up telling
    tried,      \* readiness messages of a cluster that were not delivered
    asked       \* clusters that their owners have deleted

hubVars == <<managed, deployed, provision, available, annotated, imagesets,
             expired, job>>
ghosts == <<told, failTold, givenUp, tried, asked>>
vars == <<hubVars, create, sync, cache, creds, jobs, jobsRead, attempts,
          notifier, restarts, ghosts>>

\* Hive tries an installation twice (InstallAttemptsLimit).
MaxTries == 2
NoProvision == [try |-> 0, stage |-> "none"]
Provisions == [try: 0..MaxTries, stage: {"none", "running", "failed", "complete"}]
Deployments == {"none", "there", "failed"}

\* What mceSync knows of the hub, and what it leaves in the cache.
View == [clusters: SUBSET Clusters, deployments: [Clusters -> Deployments],
         provisions: [Clusters -> Provisions]]
NoView == [clusters |-> {}, deployments |-> [n \in Clusters |-> "none"],
           provisions |-> [n \in Clusters |-> NoProvision]]

\* seen is the new view, ready the clusters that were available, todo those not
\* yet looked at, mark the one to be annotated.
SyncRecord == [pc: {"idle", "notify", "store"}, seen: View,
               ready: SUBSET Clusters, todo: SUBSET Clusters,
               mark: Clusters \cup {Nil}]
Idle == [pc |-> "idle", seen |-> NoView, ready |-> {}, todo |-> {}, mark |-> Nil]

TypeOK ==
    /\ managed \in [Clusters -> {"none", "there", "deleting", "gone"}]
    /\ deployed \in [Clusters -> Deployments]
    /\ provision \in [Clusters -> Provisions]
    /\ {available, annotated, imagesets, expired} \subseteq SUBSET Clusters
    /\ job \in [Clusters -> {"none", "running", "failed", "done", "old"}]
    /\ create \in [Clusters -> {"none", "checked", "launched", "object", "ended"}]
    /\ sync \in SyncRecord
    /\ cache \in View
    /\ {creds, jobs} \subseteq SUBSET Clusters
    /\ {jobsRead, notifier} \subseteq BOOLEAN
    /\ attempts \in [{"ready", "failure"} -> [Clusters -> 0..MaxAttempts]]
    /\ restarts \in 0..MaxRestarts
    /\ told \in [Clusters -> 0..(MaxRestarts + 2)]
    /\ tried \in [Clusters -> 0..MaxAttempts]
    /\ failTold \in [Clusters -> 0..(MaxTries + 1)]
    /\ {givenUp, asked} \subseteq SUBSET Clusters

\* A ManagedCluster stays on the hub until its finalizers are done.
OnHub(n) == managed[n] \in {"there", "deleting"}

\* deleteManagedCluster: imageset, deployment and ManagedCluster, each of which
\* is tried whatever becomes of the others. Not found is deleted. The clusters
\* in made get an imageset and a deployment instead.
Replace(doomed, made) ==
    LET parts == {"imageset", "deployment", "cluster"}
        outcomes == IF "part" \in Faults THEN SUBSET parts
                    ELSE {parts} \cup IF "delete" \in Faults THEN {{}} ELSE {}
    IN \E done \in [doomed -> outcomes] :
          LET deleted(part) == {n \in doomed : part \in done[n]}
          IN /\ imagesets' = (imagesets \ deleted("imageset")) \cup made
             /\ deployed' = [n \in Clusters |->
                               IF n \in made THEN "there"
                               ELSE IF n \in deleted("deployment") THEN "none"
                               ELSE deployed[n]]
             /\ managed' = [n \in Clusters |->
                              IF n \in deleted("cluster") /\ managed[n] = "there"
                              THEN "deleting" ELSE managed[n]]
deleteManagedCluster(doomed) == Replace(doomed, {})

-----------------------------------------------------------------------------
(* CreateMceCluster, createManagedCluster, DeleteMceCluster *)

\* The limits, counted in the cache. A release without an imageset gets a job.
CreateMceCluster(n) ==
    /\ create[n] = "none"
    /\ create' = [create EXCEPT ![n] = IF Cardinality(cache.clusters) >= MaxClusters
                                       THEN "ended" ELSE "checked"]
    /\ UNCHANGED <<hubVars, sync, cache, creds, jobs, jobsRead, attempts, notifier,
                   restarts, ghosts>>

\* LaunchJobForUser, before any object is made; after a failure nothing is left.
LaunchBuild(n) ==
    /\ create[n] = "checked"
    /\ \/ /\ create' = [create EXCEPT ![n] = "launched"]
          /\ \/ UNCHANGED <<job, jobs>>
             \/ /\ job' = [job EXCEPT ![n] = "running"]
                /\ jobs' = jobs \cup {n}
       \/ /\ "create" \in Faults
          /\ create' = [create EXCEPT ![n] = "ended"]
          /\ UNCHANGED <<job, jobs>>
    /\ UNCHANGED <<managed, deployed, provision, available, annotated, imagesets,
                   expired, sync, cache, creds, jobsRead, attempts, notifier,
                   restarts, ghosts>>

\* The namespace, the secrets and the ManagedCluster. What was made before a
\* failure stays.
createManagedCluster(n) ==
    /\ create[n] = "launched"
    /\ \/ /\ managed' = [managed EXCEPT ![n] = "there"]
          /\ create' = [create EXCEPT ![n] = IF job[n] = "none" THEN "object" ELSE "ended"]
       \/ /\ "create" \in Faults
          /\ create' = [create EXCEPT ![n] = "ended"]
          /\ UNCHANGED managed
    /\ UNCHANGED <<deployed, provision, available, annotated, imagesets, expired,
                   job, sync, cache, creds, jobs, jobsRead, attempts, notifier,
                   restarts, ghosts>>

\* createClusterDeployment for a release that has an imageset. The namespace
\* may be going again.
createClusterDeployment(n) ==
    /\ create[n] = "object"
    /\ create' = [create EXCEPT ![n] = "ended"]
    /\ \/ /\ managed[n] = "there"
          /\ deployed' = [deployed EXCEPT ![n] = "there"]
       \/ /\ managed[n] # "there" \/ "create" \in Faults
          /\ UNCHANGED deployed
    /\ UNCHANGED <<managed, provision, available, annotated, imagesets, expired,
                   job, sync, cache, creds, jobs, jobsRead, attempts, notifier,
                   restarts, ghosts>>

\* The owner deletes a cluster that the cache has.
DeleteMceCluster(n) ==
    /\ n \in cache.clusters
    /\ deleteManagedCluster({n})
    /\ asked' = asked \cup {n}
    /\ UNCHANGED <<provision, available, annotated, expired, job, create, sync,
                   cache, creds, jobs, jobsRead, attempts, notifier, restarts,
                   told, failTold, givenUp, tried>>

-----------------------------------------------------------------------------
(* The MCE part of sync, which holds m.lock *)

\* The cached clusters whose build is done and that have no cached deployment.
Due == {n \in cache.clusters : job[n] = "done" /\ cache.deployments[n] = "none"}

\* The jobs are read again. A failed build deletes its cluster. A finished one
\* makes the imageset, which must not exist, and the deployment; if that fails
\* the cluster is deleted. Neither message is sent again when Slack refuses it.
syncJobs ==
    LET failed == {n \in cache.clusters : job[n] = "failed"}
        able == {n \in Due : n \notin imagesets /\ managed[n] = "there"}
    IN /\ "slow" \in Faults \/ \A n \in Due : deployed[n] = "none"
       /\ jobs' = {n \in Clusters : job[n] \notin {"none", "old"}}
       /\ jobsRead' = TRUE
       /\ \E made \in IF "create" \in Faults THEN SUBSET able ELSE {able} :
             Replace(failed \cup (Due \ made), made)
       /\ UNCHANGED <<provision, available, annotated, expired, job, create, sync,
                      cache, creds, attempts, notifier, restarts, ghosts>>

-----------------------------------------------------------------------------
(* mceSync *)

\* Mutant: the expiry time is not looked at.
OverMutant(clusters) == {}

\* The listed clusters whose time is over.
Over(clusters) == clusters \cap expired

\* syncProvisions: the newest provision of a deployment is read when it has
\* changed, and the cached one kept when it can not be read.
syncProvisions(deployments, kept) ==
    [n \in Clusters |-> IF deployments[n] = "none" THEN NoProvision
                        ELSE IF n \in kept THEN cache.provisions[n]
                        ELSE provision[n]]

\* listManagedClusters, whose deployments may miss one that can not be read, the
\* deletion of expired clusters, and syncProvisions.
listManagedClusters ==
    LET there == {n \in Clusters : OnHub(n)}
        unread(S) == IF "get" \in Faults THEN SUBSET S ELSE {{}}
    IN /\ sync.pc = "idle"
       /\ "window" \in Faults \/ \A n \in Clusters : create[n] # "object"
       /\ \E lost \in unread(there), blind \in unread(Clusters),
             kept \in IF "provision" \in Faults THEN {{}, Clusters} ELSE {{}} :
             LET clusters == there \ lost
                 deployments == [n \in Clusters |-> IF n \in blind THEN "none" ELSE deployed[n]]
             IN /\ sync' = [pc |-> "notify",
                            seen |-> [clusters |-> clusters,
                                      deployments |-> deployments,
                                      provisions |-> syncProvisions(deployments, kept)],
                            ready |-> available \cap clusters,
                            todo |-> clusters,
                            mark |-> Nil]
                /\ IF Over(clusters) # {} THEN deleteManagedCluster(Over(clusters))
                   ELSE UNCHANGED <<managed, deployed, imagesets>>
    /\ UNCHANGED <<provision, available, annotated, expired, job, create, cache,
                   creds, jobs, jobsRead, attempts, notifier, restarts, ghosts>>

\* recordMceNotifyAttempt: one more attempt, none when it was the last one.
LastAttempt(kind, n) == attempts[kind][n] + 1 >= MaxAttempts

\* Mutant: the count of the attempts is not kept.
recordMceNotifyAttemptMutant(kind, n) ==
    attempts' = [attempts EXCEPT ![kind][n] = IF LastAttempt(kind, n) THEN 0 ELSE @]

recordMceNotifyAttempt(kind, n) ==
    attempts' = [attempts EXCEPT ![kind][n] = IF LastAttempt(kind, n) THEN 0 ELSE @ + 1]

forgetAttempts(kind, n) == attempts' = [attempts EXCEPT ![kind][n] = 0]

\* getClusterAuth: from the cache, or from the secrets of an installed cluster.
getClusterAuth(n) ==
    \/ n \in creds
    \/ deployed[n] # "none" /\ provision[n].stage = "complete"

\* notifyMce with the Slack bot's MceResponder, which has nothing to say of an
\* installation under way.
Deliverable(n) ==
    /\ notifier
    /\ \/ sync.seen.deployments[n] = "failed"
       \/ sync.seen.provisions[n].stage \in {"complete", "failed"}

NextCluster(n, mark) == sync' = [sync EXCEPT !.todo = @ \ {n}, !.mark = mark]
CountUpTo(bound, f, n) == [f EXCEPT ![n] = IF @ = bound THEN @ ELSE @ + 1]

\* Mutant: the cluster is annotated whether the owner was told or not.
NotifyReadyMutant(n) ==
    /\ n \in sync.ready \ annotated
    /\ getClusterAuth(n) /\ sync.seen.deployments[n] # "none"
    /\ creds' = creds \cup {n}
    /\ NextCluster(n, n)
    /\ \/ Deliverable(n) /\ told' = CountUpTo(MaxRestarts + 2, told, n)
       \/ UNCHANGED told
    /\ UNCHANGED <<failTold, givenUp, tried, attempts>>

\* A cluster that is available and whose owner does not know: with the
\* credentials the owner is told, and the cluster is to be annotated when that
\* is done or given up. Without them the next mceSync tries again. NotifyMce says
\* that the cluster is ready, unless the view has kept a failed provision.
NotifyReady(n) ==
    /\ n \in sync.ready \ annotated
    /\ \/ /\ getClusterAuth(n) /\ sync.seen.deployments[n] # "none"
          /\ creds' = creds \cup {n}
          /\ \/ /\ Deliverable(n)
                /\ told' = CountUpTo(MaxRestarts + 2, told, n)
                /\ forgetAttempts("ready", n)
                /\ NextCluster(n, n)
                /\ UNCHANGED tried
             \/ /\ ~Deliverable(n) \/ "slack" \in Faults
                /\ tried' = CountUpTo(MaxAttempts, tried, n)
                /\ NextCluster(n, IF LastAttempt("ready", n) THEN n ELSE Nil)
                /\ recordMceNotifyAttempt("ready", n)
                /\ UNCHANGED told
       \/ /\ \/ ~getClusterAuth(n)
             \/ sync.seen.deployments[n] = "none"
             \/ "auth" \in Faults /\ n \notin creds
          /\ NextCluster(n, Nil)
          /\ UNCHANGED <<creds, told, tried, attempts>>
    /\ UNCHANGED <<failTold, givenUp>>

\* The failure of a cluster in a view: the newest provision failed, or the
\* deployment before there was any provision.
ProvisionFailed(view, n) ==
    \/ view.provisions[n].stage = "failed"
    \/ view.provisions[n] = NoProvision /\ view.deployments[n] = "failed"

\* Mutant: with no provision in the cache, as after a restart, a failure is new.
provisionFailureIsNewMutant(n) ==
    ProvisionFailed(sync.seen, n) /\ sync.seen # cache

\* The failure was not in the cache: another stage or another provision, or a
\* deployment that had not failed. What the cache does not have is not new.
provisionFailureIsNew(n) ==
    IF sync.seen.provisions[n] # NoProvision
    THEN cache.provisions[n] \notin {NoProvision, sync.seen.provisions[n]}
    ELSE cache.deployments[n] = "there"

\* Mutant: an undelivered failure is not tried again.
notifyMceFailureMutant(n) ==
    /\ n \notin sync.ready /\ ProvisionFailed(sync.seen, n)
    /\ provisionFailureIsNew(n)
    /\ \/ Deliverable(n) /\ failTold' = CountUpTo(MaxTries + 1, failTold, n)
       \/ UNCHANGED failTold
    /\ NextCluster(n, Nil)
    /\ UNCHANGED <<creds, told, givenUp, tried, attempts>>

\* A provision has its log when it was read by this mceSync.
HasInstallLog(n) == sync.seen.provisions[n] = NoProvision \/ sync.seen.provisions[n] # cache.provisions[n]

\* A failure that is new, or whose message was not delivered, is told. Its log
\* is read again when only the cached provision is at hand.
notifyMceFailure(n) ==
    /\ n \notin sync.ready /\ ProvisionFailed(sync.seen, n)
    /\ provisionFailureIsNew(n) \/ attempts["failure"][n] # 0
    /\ NextCluster(n, Nil)
    /\ \/ /\ Deliverable(n)
          /\ failTold' = CountUpTo(MaxTries + 1, failTold, n)
          /\ forgetAttempts("failure", n)
          /\ UNCHANGED givenUp
       \/ /\ \/ ~Deliverable(n)
             \/ "slack" \in Faults
             \/ "provision" \in Faults /\ ~HasInstallLog(n)
          /\ recordMceNotifyAttempt("failure", n)
          /\ givenUp' = IF LastAttempt("failure", n) THEN givenUp \cup {n} ELSE givenUp
          /\ UNCHANGED failTold
    /\ UNCHANGED <<creds, told, tried>>

\* Nothing to tell of this cluster. Its credentials may be read for the cache.
NothingNew(n) ==
    /\ IF n \in sync.ready THEN n \in annotated
       ELSE ~ProvisionFailed(sync.seen, n)
            \/ (~provisionFailureIsNew(n) /\ attempts["failure"][n] = 0)
    /\ NextCluster(n, Nil)
    /\ creds' = IF getClusterAuth(n) THEN creds \cup {n} ELSE creds
    /\ UNCHANGED <<told, failTold, givenUp, tried, attempts>>

\* The loop of mceSync over the clusters, in the order of a map.
NotifyCluster(n) ==
    /\ sync.pc = "notify" /\ n \in sync.todo /\ sync.mark = Nil
    /\ NotifyReady(n) \/ notifyMceFailure(n) \/ NothingNew(n)
    /\ UNCHANGED <<hubVars, create, cache, jobs, jobsRead, notifier, restarts, asked>>

\* Mutant: only the copy in memory is annotated.
AnnotateMutant ==
    /\ sync.mark # Nil
    /\ sync' = [sync EXCEPT !.mark = Nil]
    /\ UNCHANGED <<hubVars, create, cache, creds, jobs, jobsRead, attempts, notifier,
                   restarts, ghosts>>

\* The annotation, refused when the ManagedCluster has changed since the list
\* or is gone. What was told stays told.
Annotate ==
    /\ sync.mark # Nil
    /\ \/ OnHub(sync.mark) /\ annotated' = annotated \cup {sync.mark}
       \/ /\ ~OnHub(sync.mark) \/ "conflict" \in Faults
          /\ UNCHANGED annotated
    /\ sync' = [sync EXCEPT !.mark = Nil]
    /\ UNCHANGED <<managed, deployed, provision, available, imagesets, expired, job,
                   create, cache, creds, jobs, jobsRead, attempts, notifier, restarts,
                   ghosts>>

\* Mutant: a cluster that waits for its images is stale too.
StaleMutant == {n \in sync.seen.clusters : sync.seen.deployments[n] = "none"}

\* The listed clusters without a deployment that no job of m.jobs names.
Stale == {n \in sync.seen.clusters : sync.seen.deployments[n] = "none" /\ n \notin jobs}

\* Under m.lock the stale clusters are deleted and left out of the cache; then
\* the attempts of what is gone, or has not failed, are forgotten.
DeleteStale ==
    LET kept == sync.seen.clusters \ Stale
    IN /\ sync.pc = "notify" /\ sync.todo = {} /\ sync.mark = Nil
       /\ jobsRead \/ "early" \in Faults
       /\ deleteManagedCluster(Stale)
       /\ sync' = [sync EXCEPT !.pc = "store", !.seen.clusters = kept]
       /\ attempts' = [kind \in DOMAIN attempts |->
                         [n \in Clusters |->
                            IF n \notin kept \/ (kind = "failure" /\ ~ProvisionFailed(sync.seen, n))
                            THEN 0 ELSE attempts[kind][n]]]
    /\ UNCHANGED <<provision, available, annotated, expired, job, create, cache,
                   creds, jobs, jobsRead, notifier, restarts, ghosts>>

\* The cache is replaced.
Store ==
    /\ sync.pc = "store"
    /\ cache' = sync.seen
    /\ creds' = creds \cap sync.seen.clusters
    /\ sync' = Idle
    /\ UNCHANGED <<hubVars, create, jobs, jobsRead, attempts, notifier, restarts, ghosts>>

-----------------------------------------------------------------------------
(* The rest of the bot *)

\* The Slack bot registers its notifier when the loops are running already.
SetMceNotifier ==
    /\ ~notifier /\ notifier' = TRUE
    /\ UNCHANGED <<hubVars, create, sync, cache, creds, jobs, jobsRead, attempts,
                   restarts, ghosts>>

\* A new process: all that is in memory is lost.
Restart ==
    /\ restarts < MaxRestarts
    /\ restarts' = restarts + 1
    /\ create' = [n \in Clusters |-> IF create[n] = "none" THEN "none" ELSE "ended"]
    /\ sync' = Idle
    /\ cache' = NoView
    /\ creds' = {} /\ jobs' = {} /\ jobsRead' = FALSE /\ notifier' = FALSE
    /\ attempts' = [kind \in DOMAIN attempts |-> [n \in Clusters |-> 0]]
    /\ givenUp' = {}
    /\ UNCHANGED <<hubVars, told, failTold, tried, asked>>

-----------------------------------------------------------------------------
(* The hub and the build farm *)

\* The build ends; hours after the cluster is deployed the job is too old for sync.
JobEnds(n) ==
    /\ \/ job[n] = "running" /\ job' \in {[job EXCEPT ![n] = s] : s \in {"done", "failed"}}
       \/ /\ job[n] \in {"done", "failed"} /\ (cache.deployments[n] # "none" \/ managed[n] = "gone")
          /\ job' = [job EXCEPT ![n] = "old"]
    /\ UNCHANGED <<managed, deployed, provision, available, annotated, imagesets,
                   expired, create, sync, cache, creds, jobs, jobsRead, attempts,
                   notifier, restarts, ghosts>>

\* Hive installs a deployment, in MaxTries attempts of which each has a
\* provision. A failure is also a condition of the deployment, and is all there
\* is when it comes before the first provision.
Hive(n) ==
    /\ deployed[n] # "none" /\ managed[n] = "there"
    /\ \/ /\ deployed[n] = "there" /\ provision[n].try = 0
          /\ \/ /\ provision' = [provision EXCEPT ![n] = [try |-> 1, stage |-> "running"]]
                /\ UNCHANGED deployed
             \/ deployed' = [deployed EXCEPT ![n] = "failed"] /\ UNCHANGED provision
          /\ UNCHANGED available
       \/ /\ provision[n].stage = "running"
          /\ \/ /\ provision' = [provision EXCEPT ![n].stage = "failed"]
                /\ deployed' = [deployed EXCEPT ![n] = "failed"]
             \/ /\ provision' = [provision EXCEPT ![n].stage = "complete"]
                /\ UNCHANGED deployed
          /\ UNCHANGED available
       \/ /\ provision[n].stage = "failed" /\ provision[n].try < MaxTries
          /\ provision' = [provision EXCEPT ![n] = [try |-> @.try + 1, stage |-> "running"]]
          /\ deployed' = [deployed EXCEPT ![n] = "there"]
          /\ UNCHANGED available
       \/ /\ provision[n].stage = "complete" /\ n \notin available
          /\ available' = available \cup {n}
          /\ UNCHANGED <<provision, deployed>>
    /\ UNCHANGED <<managed, annotated, imagesets, expired, job, create, sync, cache,
                   creds, jobs, jobsRead, attempts, notifier, restarts, ghosts>>

\* The finalizers of a deleted ManagedCluster are done; its namespace goes.
Finalize(n) ==
    /\ managed[n] = "deleting"
    /\ managed' = [managed EXCEPT ![n] = "gone"]
    /\ deployed' = [deployed EXCEPT ![n] = "none"]
    /\ UNCHANGED <<provision, available, annotated, imagesets, expired, job, create,
                   sync, cache, creds, jobs, jobsRead, attempts, notifier, restarts,
                   ghosts>>

Expire(n) ==
    /\ managed[n] = "there" /\ n \notin expired
    /\ expired' = expired \cup {n}
    /\ UNCHANGED <<managed, deployed, provision, available, annotated, imagesets, job,
                   create, sync, cache, creds, jobs, jobsRead, attempts, notifier,
                   restarts, ghosts>>

-----------------------------------------------------------------------------
Init ==
    /\ managed = [n \in Clusters |-> "none"]
    /\ deployed = [n \in Clusters |-> "none"]
    /\ provision = [n \in Clusters |-> NoProvision]
    /\ available = {} /\ annotated = {} /\ imagesets = {} /\ expired = {}
    /\ job = [n \in Clusters |-> "none"]
    /\ create = [n \in Clusters |-> "none"]
    /\ sync = Idle
    /\ cache = NoView
    /\ creds = {} /\ jobs = {} /\ jobsRead = FALSE /\ notifier = FALSE
    /\ attempts = [kind \in {"ready", "failure"} |-> [n \in Clusters |-> 0]]
    /\ restarts = 0
    /\ told = [n \in Clusters |-> 0]
    /\ failTold = [n \in Clusters |-> 0]
    /\ givenUp = {}
    /\ tried = [n \in Clusters |-> 0]
    /\ asked = {}

User == \E n \in Clusters : CreateMceCluster(n) \/ DeleteMceCluster(n)
Creation(n) == LaunchBuild(n) \/ createManagedCluster(n) \/ createClusterDeployment(n)
MceSync == \/ listManagedClusters \/ Annotate \/ DeleteStale \/ Store
           \/ \E n \in Clusters : NotifyCluster(n)
Hub(n) == JobEnds(n) \/ Hive(n) \/ Finalize(n) \/ Expire(n)

Next == \/ User \/ MceSync \/ syncJobs
        \/ SetMceNotifier \/ Restart
        \/ \E n \in Clusters : Creation(n) \/ Hub(n)

Spec == Init /\ [][Next]_vars

\* The loops run for ever, a request is carried out, the bot registers its notifier. An API that fails
\* now and then works now and then: the deletion of a cluster and the reading
\* of its credentials.
FairSpec ==
    /\ Spec
    /\ WF_vars(MceSync) /\ WF_vars(syncJobs) /\ WF_vars(SetMceNotifier)
    /\ \A n \in Clusters :
          /\ WF_vars(Creation(n))
          /\ SF_vars(MceSync /\ managed[n] = "there" /\ managed'[n] # "there")
          /\ SF_vars(MceSync /\ NotifyCluster(n) /\ n \in creds')

-----------------------------------------------------------------------------
(* Properties *)

\* A cluster that is installed or under way, or waits for the build of its
\* images, is deleted only by its owner or after its time: mceSync takes no
\* live cluster for a stale one, and sync does not deploy a cluster twice.
LiveIsKept ==
    [][\A n \in Clusters :
         (/\ managed[n] = "there"
          /\ \/ managed'[n] # "there"
             \/ deployed[n] # "none" /\ deployed'[n] = "none")
            => \/ n \in asked' \cup expired
               \/ deployed[n] = "none" /\ job[n] # "running" /\ create[n] = "ended"]_vars

\* Whoever starts a mceSync, a process sends a user at most one message about
\* the available cluster (mceSync is serialized, and annotates what it has told).
ReadyToldOnce == \A n \in Clusters : told[n] <= 1 + restarts

\* A failed attempt of Hive is told at most once, and not again by a new
\* process (provisionFailureIsNew).
FailureToldOnce ==
    \A n \in Clusters \ (asked \cup expired) :
       failTold[n] <= IF provision[n].try = 0 THEN 1 ELSE provision[n].try

\* A cluster is marked as notified only when its owner was told, or when that
\* was tried maxMCENotificationAttempts times.
ToldOrTried(n) == told[n] > 0 \/ tried[n] >= MaxAttempts
NotifiedIsTold == \A n \in annotated : ToldOrTried(n)

\* NotifiedIsTold as an inductive invariant: the cluster that mceSync is about
\* to annotate is told or tried as well, and no attempt is counted that was not
\* made, in this process or in an earlier one.
NotifiedInv ==
    /\ TypeOK
    /\ NotifiedIsTold
    /\ sync.mark # Nil => ToldOrTried(sync.mark)
    /\ \A n \in Clusters : attempts["ready"][n] <= tried[n]

\* The owner of a cluster that becomes available is told, or the attempts are
\* used up, unless the cluster is deleted first.
ReadyIsTold ==
    \A n \in Clusters :
       (n \in available) ~> (n \in annotated \/ managed[n] # "there")

\* The last failure of an installation that mceSync has seen running is told,
\* or given up, by this process.
FailureIsTold ==
    \A n \in Clusters, k \in 0..MaxTries, r \in 0..MaxRestarts :
       (/\ sync.pc = "idle" /\ cache.provisions[n].stage = "running"
        /\ provision[n] = [try |-> MaxTries, stage |-> "failed"]
        /\ failTold[n] = k /\ restarts = r)
       ~> (failTold[n] > k \/ n \in givenUp \/ managed[n] # "there" \/ restarts > r)

\* A cluster whose time is over is removed, though its deletion may fail.
ExpiredIsRemoved == \A n \in Clusters : (n \in expired) ~> (managed[n] # "there")

=============================================================================
