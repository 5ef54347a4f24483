-------------------------------- MODULE Rosa --------------------------------
(***************************************************************************)
(* ROSA clusters (rosaSync, CreateRosaCluster and TerminateJobForUser of   *)
(* pkg/manager/manager.go, pkg/manager/rosa.go). The clusters live in OCM, *)
(* their operator roles and OIDC providers in AWS. The bot keeps a cache   *)
(* of both the clusters and their passwords behind one RWMutex, and a      *)
(* secret with one entry per cluster, which names the clusters whose AWS   *)
(* resources have to be removed and is all that survives a restart.        *)
(*                                                                         *)
(* Creating a cluster, rosaSync (once a minute and after every command,    *)
(* so that several run at a time) and the goroutine that gives a ready     *)
(* cluster its administrator interleave at their calls to OCM, AWS and the *)
(* API server and where they wait for the lock.                            *)
(***************************************************************************)
EXTENDS Integers, FiniteSets

CONSTANTS
    Users,        \* Slack users
    Clusters,     \* requests to create a cluster, one cluster each
    OwnerOf,      \* the user who asks for a cluster
    Launchers,    \* users who use the launch command, too
    Syncs,        \* rosaSyncs that may run at the same time
    Workers,      \* goroutines per cluster that may set up its administrator;
                  \* a worker stands for the password it generates, too
    Limit,        \* rosaClusterLimit; 0 is no limit
    Faults,       \* what may go wrong in a run (see below)
    MaxRestarts,  \* bound on the restarts of the bot
    Nil,          \* no entry, no password
    Empty         \* the entry of a cluster that has no password yet

(***************************************************************************)
(*   secret   a read or an update of the secret fails                      *)
(*   idps     GetIdentityProviders fails                                   *)
(*   idp      CreateUser or CreateIdentityProvider fails                   *)
(*   roles    creating the operator roles or the OIDC provider fails       *)
(*   aws      removing them fails                                          *)
(*   delete   OCM refuses to delete a cluster                              *)
(*   expire   the time of a cluster ends                                   *)
(*   error    a cluster fails to install                                   *)
(*   early    a command is served before the first rosaSync has finished   *)
(*   twice    a user does not wait for the answer to the last command      *)
(***************************************************************************)
AllFaults == {"secret", "idps", "idp", "roles", "aws", "delete",
              "expire", "error", "early", "twice"}

ASSUME RosaAssumption ==
    /\ OwnerOf \in [Clusters -> Users]
    /\ Launchers \subseteq Users
    /\ Limit \in Nat
    /\ Faults \subseteq AllFaults
    /\ MaxRestarts \in Nat
    /\ Nil \notin Workers /\ Empty \notin Workers /\ Nil # Empty

VARIABLES
    \* the bot
    cache,     \* rosaClusters.clusters: the state of a cluster, or "none"
    passwords, \* rosaClusters.clusterPasswords
    pending,   \* rosaClusters.pendingClusters
    reported,  \* rosaErrorReported
    create,    \* where the CreateRosaCluster for a cluster stands
    sync,      \* the rosaSyncs under way
    auth,      \* the goroutines that set up a cluster's administrator
    launch,    \* the launch command of a user, and the request it leaves
    synced,    \* a rosaSync has stored its clusters since the last restart
    restarts,  \* restarts of the bot so far
    \* OCM, AWS and the secret
    ocm,       \* the state of a cluster
    idp,       \* the password in a cluster's htpasswd identity provider
    expired,   \* clusters whose time is over
    aws,       \* clusters with operator roles or an OIDC provider
    secret,    \* the secret: cluster -> password
    \* what the users have been told
    told,      \* the password of a cluster told since the last restart
    before,    \* clusters whose password was told before the last restart
    errors,    \* how often a cluster's error was told since the last restart,
               \* as far as two
    lost,      \* clusters whose password a failed call or a crash has lost
    \* the clusters that the bot does not see in time
    overtaken, \* created while a rosaSync worked with a list it got before
    hasty      \* admitted by the limit before the first rosaSync

cacheVars == <<cache, passwords, pending>>
ocmVars == <<ocm, idp, expired>>
unseen == <<overtaken, hasty>>
ghosts == <<told, before, errors, lost, unseen>>
vars == <<cacheVars, reported, create, sync, auth, launch, synced,
          restarts, ocmVars, aws, secret, ghosts>>

States == {"none", "installing", "ready", "error", "uninstalling", "gone"}
Passwords == Workers \cup {Nil, Empty}
CreatePhases == {"none", "checked", "free", "counted", "created", "registered",
                 "return", "ended"}
SyncPhases == {"idle", "listed", "scanned", "stored", "removed"}
AuthPhases == {"idle", "ask", "make", "save", "cache", "tell"}

\* list is clustersByID, dead the entries to delete, found the passwords.
SyncRecord == [pc: SyncPhases, list: [Clusters -> States],
               dead: SUBSET Clusters, found: [Clusters -> Passwords]]

TypeOK ==
    /\ cache \in [Clusters -> States]
    /\ passwords \in [Clusters -> Passwords]
    /\ pending \in Int
    /\ reported \subseteq Clusters
    /\ create \in [Clusters -> CreatePhases]
    /\ sync \in [Syncs -> SyncRecord]
    /\ auth \in [Clusters -> [Workers -> AuthPhases]]
    /\ launch \in [Users -> {"none", "checked", "running"}]
    /\ synced \in BOOLEAN
    /\ restarts \in 0..MaxRestarts
    /\ ocm \in [Clusters -> States]
    /\ idp \in [Clusters -> Workers \cup {Nil}]
    /\ expired \subseteq Clusters
    /\ aws \subseteq Clusters
    /\ secret \in [Clusters -> Passwords]
    /\ told \in [Clusters -> Workers \cup {Nil}]
    /\ before \subseteq Clusters
    /\ errors \in [Clusters -> 0..2]
    /\ lost \subseteq Clusters
    /\ overtaken \subseteq Clusters
    /\ hasty \subseteq Clusters

Idle == [pc |-> "idle", list |-> [c \in Clusters |-> "none"], dead |-> {},
         found |-> [c \in Clusters |-> Nil]]

\* The clusters that OCM has, and those that are not being deleted.
Exists(c) == ocm[c] \notin {"none", "gone"}
Live(c) == ocm[c] \in {"installing", "ready", "error"}

\* rosaSync holds the lock for reading while it scans the clusters (one step
\* here) and while it removes resources; a writer waits until nobody reads.
Reading(s) == sync[s].pc \in {"stored", "removed"}
Unread == \A s \in Syncs : ~Reading(s)

\* getROSAClusterForUser: any cached cluster of the user that is not deleted.
getROSAClusterForUser(u) ==
    {c \in Clusters : OwnerOf[c] = u /\ cache[c] \notin {"none", "uninstalling"}}

\* UpdateSecret, with its retries: the entry is written, or nothing is.
UpdateSecret(entries) ==
    \/ secret' = entries
    \/ "secret" \in Faults /\ UNCHANGED secret

\* A user waits for the answer to a command before the next one, and the bot
\* has its cache, unless the run says otherwise.
Busy(u) ==
    \/ launch[u] = "checked"
    \/ \E c \in Clusters : OwnerOf[c] = u /\ create[c] \notin {"none", "ended"}
MayAsk(u) ==
    /\ "twice" \in Faults \/ ~Busy(u)
    /\ "early" \in Faults \/ synced

-----------------------------------------------------------------------------
(* CreateRosaCluster and createRosaCluster *)

\* The user has no ROSA cluster.
CheckCluster(c) ==
    /\ create[c] = "none"
    /\ MayAsk(OwnerOf[c])
    /\ create' = [create EXCEPT ![c] = IF getROSAClusterForUser(OwnerOf[c]) = {}
                                       THEN "checked" ELSE "ended"]
    /\ UNCHANGED <<cacheVars, reported, sync, auth, launch, synced,
                   restarts, ocmVars, aws, secret, ghosts>>

\* Mutant: the request that the launch command left is not looked up.
CheckRequestMutant(c) ==
    /\ create[c] = "checked"
    /\ create' = [create EXCEPT ![c] = "free"]
    /\ UNCHANGED <<cacheVars, reported, sync, auth, launch, synced,
                   restarts, ocmVars, aws, secret, ghosts>>

\* The user has no cluster from the launch command, either.
CheckRequest(c) ==
    /\ create[c] = "checked"
    /\ create' = [create EXCEPT ![c] = IF launch[OwnerOf[c]] = "running"
                                       THEN "ended" ELSE "free"]
    /\ UNCHANGED <<cacheVars, reported, sync, auth, launch, synced,
                   restarts, ocmVars, aws, secret, ghosts>>

\* Mutant: the clusters being created are not counted.
CountedMutant == Cardinality({c \in Clusters : cache[c] # "none"})

\* The clusters in the cache and those being created.
Counted == Cardinality({c \in Clusters : cache[c] # "none"}) + pending

\* The limit, under the lock.
CountCluster(c) ==
    /\ create[c] = "free"
    /\ Unread
    /\ IF Limit # 0 /\ Counted >= Limit
       THEN /\ create' = [create EXCEPT ![c] = "ended"]
            /\ UNCHANGED <<pending, hasty>>
       ELSE /\ create' = [create EXCEPT ![c] = "counted"]
            /\ pending' = pending + 1
            /\ hasty' = IF synced THEN hasty ELSE hasty \cup {c}
    /\ UNCHANGED <<cache, passwords, reported, sync, auth, launch, synced, restarts,
                   ocmVars, aws, secret, told, before, errors, lost, overtaken>>

\* rosaSync works with a list; what is created now is not on it.
Listing(s) == sync[s].pc \in {"listed", "scanned"}

\* The version, the account roles and the subnets are looked up, and OCM is
\* asked for the cluster; any of this may fail.
CreateCluster(c) ==
    /\ create[c] = "counted"
    /\ \/ /\ ocm' = [ocm EXCEPT ![c] = "installing"]
          /\ create' = [create EXCEPT ![c] = "created"]
          /\ overtaken' = IF \E s \in Syncs : Listing(s) THEN overtaken \cup {c}
                                                        ELSE overtaken
       \/ /\ create' = [create EXCEPT ![c] = "return"]
          /\ UNCHANGED <<ocm, overtaken>>
    /\ UNCHANGED <<cacheVars, reported, sync, auth, launch, synced, restarts, idp,
                   expired, aws, secret, told, before, errors, lost, hasty>>

\* Mutant: the roles are created before the cluster is in the secret.
RegisterMutant(c) ==
    /\ create[c] = "created"
    /\ Unread
    /\ cache' = [cache EXCEPT ![c] = IF @ = "none" THEN "installing" ELSE @]
    /\ UNCHANGED secret
    /\ create' = [create EXCEPT ![c] = "registered"]
    /\ UNCHANGED <<passwords, pending, reported, sync, auth, launch,
                   synced, restarts, ocmVars, aws, ghosts>>

\* The cluster enters the cache, unless a rosaSync was faster, and the secret,
\* under the lock.
Register(c) ==
    /\ create[c] = "created"
    /\ Unread
    /\ cache' = [cache EXCEPT ![c] = IF @ = "none" THEN "installing" ELSE @]
    /\ UpdateSecret([secret EXCEPT ![c] = Empty])
    /\ create' = [create EXCEPT ![c] = IF secret' = secret THEN "return"
                                                           ELSE "registered"]
    /\ UNCHANGED <<passwords, pending, reported, sync, auth, launch,
                   synced, restarts, ocmVars, aws, ghosts>>

\* rosa create operator-roles and oidc-provider: both want the cluster in OCM.
CreateRoles(c) ==
    /\ create[c] = "registered"
    /\ create' = [create EXCEPT ![c] = "return"]
    /\ \/ Exists(c) /\ aws' = aws \cup {c}
       \/ (~Exists(c) \/ "roles" \in Faults) /\ UNCHANGED aws
    /\ UNCHANGED <<cacheVars, reported, sync, auth, launch, synced,
                   restarts, ocmVars, secret, ghosts>>

\* The deferred decrement, under the lock, and the answer.
ReturnCreate(c) ==
    /\ create[c] = "return"
    /\ Unread
    /\ pending' = pending - 1
    /\ create' = [create EXCEPT ![c] = "ended"]
    /\ UNCHANGED <<cache, passwords, reported, sync, auth, launch,
                   synced, restarts, ocmVars, aws, secret, ghosts>>

-----------------------------------------------------------------------------
(* The commands launch and done, as far as ROSA clusters are concerned *)

\* LaunchJobForUser is refused to the owner of a ROSA cluster ...
LaunchJobForUser(u) ==
    /\ launch[u] = "none"
    /\ MayAsk(u)
    /\ getROSAClusterForUser(u) = {}
    /\ launch' = [launch EXCEPT ![u] = "checked"]
    /\ UNCHANGED <<cacheVars, reported, create, sync, auth, synced,
                   restarts, ocmVars, aws, secret, ghosts>>

\* ... and reserves the user's request later, if all goes well.
Reserve(u) ==
    /\ launch[u] = "checked"
    /\ launch' \in {[launch EXCEPT ![u] = x] : x \in {"running", "none"}}
    /\ UNCHANGED <<cacheVars, reported, create, sync, auth, synced,
                   restarts, ocmVars, aws, secret, ghosts>>

\* OCM starts to uninstall a cluster.
Uninstalling(deleted) ==
    [c \in Clusters |-> IF c \in deleted /\ Exists(c) THEN "uninstalling"
                                                      ELSE ocm[c]]

\* TerminateJobForUser: the ROSA cluster first, then the launched cluster.
TerminateJobForUser(u) ==
    /\ MayAsk(u)
    /\ \/ \E c \in getROSAClusterForUser(u) :
             /\ ocm' = Uninstalling({c})
             /\ UNCHANGED launch
       \/ /\ getROSAClusterForUser(u) = {}
          /\ launch[u] = "running"
          /\ launch' = [launch EXCEPT ![u] = "none"]
          /\ UNCHANGED ocm
    /\ UNCHANGED <<cacheVars, reported, create, sync, auth, synced,
                   restarts, idp, expired, aws, secret, ghosts>>

-----------------------------------------------------------------------------
(* rosaSync *)

\* GetAllClusters; nothing else happens when it fails.
ListClusters(s) ==
    /\ sync[s].pc = "idle"
    /\ sync' = [sync EXCEPT ![s] = [Idle EXCEPT !.pc = "listed",
                  !.list = [c \in Clusters |-> IF Exists(c) THEN ocm[c] ELSE "none"]]]
    /\ UNCHANGED <<cacheVars, reported, create, auth, launch, synced,
                   restarts, ocmVars, aws, secret, ghosts>>

\* Mutant: whether the error was reported already is not looked up.
markRosaErrorReportedMutant(failed) == failed

\* markRosaErrorReported, for the clusters of which it returns false.
markRosaErrorReported(failed) == failed \ reported

\* Mutant: a cluster that the cache does not have gets no goroutine.
NewlyReadyMutant(list) ==
    {c \in Clusters : list[c] = "ready" /\ cache[c] \notin {"none", "ready"}}

\* The clusters that are ready and were not, as far as the cache knows.
NewlyReady(list) == {c \in Clusters : list[c] = "ready" /\ cache[c] # "ready"}

\* Mutant: a cluster that OCM is removing is taken for gone.
toDeleteMutant(list) ==
    {c \in Clusters : list[c] \in {"none", "uninstalling"} /\ secret[c] # Nil}

\* The entries of the secret that are of no cluster of the list.
toDelete(list) == {c \in Clusters : list[c] = "none" /\ secret[c] # Nil}

\* With the lock held for reading, the loop over the clusters: a cluster that
\* the cache does not have as ready gets a goroutine, an error that is new to
\* the cache is reported once, an expired cluster is deleted. The reports on
\* clusters that are gone are forgotten. Last the secret is read: the entries
\* of clusters that were not listed are to be deleted.
ScanClusters(s) ==
    LET list == sync[s].list
        ready == NewlyReady(list)
        failed == {c \in Clusters : list[c] = "error" /\ cache[c] # "error"}
        report == markRosaErrorReported(failed)
        over == {c \in expired : list[c] # "none"}
    IN /\ sync[s].pc = "listed"
       /\ \E worker \in [ready -> Workers] :
             /\ \A c \in ready : auth[c][worker[c]] = "idle"
             /\ auth' = [c \in Clusters |->
                           IF c \in ready THEN [auth[c] EXCEPT ![worker[c]] = "ask"]
                                          ELSE auth[c]]
       /\ \E refused \in IF "delete" \in Faults THEN {{}, over} ELSE {{}} :
             ocm' = Uninstalling(over \ refused)
       /\ reported' = {c \in reported \cup report : list[c] # "none"}
       /\ errors' = [c \in Clusters |-> IF c \in report /\ errors[c] < 2
                                        THEN errors[c] + 1 ELSE errors[c]]
       /\ \/ sync' = [sync EXCEPT ![s] =
                        [pc |-> "scanned",
                         list |-> [c \in Clusters |-> IF c \in over /\ Exists(c)
                                                      THEN ocm'[c] ELSE list[c]],
                         dead |-> toDelete(list),
                         found |-> [c \in Clusters |-> IF list[c] = "none" THEN Nil
                                                                         ELSE secret[c]]]]
          \/ "secret" \in Faults /\ sync' = [sync EXCEPT ![s] = Idle]
    /\ UNCHANGED <<cacheVars, create, launch, synced, restarts, idp, expired,
                   aws, secret, told, before, lost, unseen>>

\* The new cache, under the lock.
StoreClusters(s) ==
    /\ sync[s].pc = "scanned"
    /\ Unread
    /\ cache' = sync[s].list
    /\ passwords' = sync[s].found
    /\ synced' = TRUE
    /\ sync' = [sync EXCEPT ![s] = IF sync[s].dead = {} THEN Idle
                                   ELSE [Idle EXCEPT !.pc = "stored",
                                                     !.dead = sync[s].dead]]
    /\ UNCHANGED <<pending, reported, create, auth, launch, restarts,
                   ocmVars, aws, secret, ghosts>>

\* Mutant: the entries are forgotten although their resources are not removed.
RemoveResourcesMutant(s) ==
    /\ sync[s].pc = "stored"
    /\ \E deleted \in IF "aws" \in Faults THEN SUBSET sync[s].dead ELSE {sync[s].dead} :
          /\ aws' = aws \ deleted
          /\ sync' = [sync EXCEPT ![s].pc = "removed"]
    /\ UNCHANGED <<cacheVars, reported, create, auth, launch, synced,
                   restarts, ocmVars, secret, ghosts>>

\* removeAssociatedAWSResources: the entries with which it succeeds are kept
\* as deletedEntries.
RemoveResources(s) ==
    /\ sync[s].pc = "stored"
    /\ \E deleted \in IF "aws" \in Faults THEN SUBSET sync[s].dead ELSE {sync[s].dead} :
          /\ aws' = aws \ deleted
          /\ sync' = [sync EXCEPT ![s] = IF deleted = {} THEN Idle
                                         ELSE [Idle EXCEPT !.pc = "removed",
                                                           !.dead = deleted]]
    /\ UNCHANGED <<cacheVars, reported, create, auth, launch, synced,
                   restarts, ocmVars, secret, ghosts>>

\* The entries leave the secret.
ForgetEntries(s) ==
    /\ sync[s].pc = "removed"
    /\ UpdateSecret([c \in Clusters |-> IF c \in sync[s].dead THEN Nil ELSE secret[c]])
    /\ sync' = [sync EXCEPT ![s] = Idle]
    /\ UNCHANGED <<cacheVars, reported, create, auth, launch, synced,
                   restarts, ocmVars, aws, ghosts>>

-----------------------------------------------------------------------------
(* The goroutine of a ready cluster: addClusterAuthAndWait and the messages *)

Goto(c, w, pc) == auth' = [auth EXCEPT ![c][w] = pc]

\* A failed call costs the user the password, unless it is known already.
Lose(c) == lost' = lost \cup {c}

\* Mutant: the identity providers are not asked for.
AskIdentityProvidersMutant(c, w) ==
    /\ auth[c][w] = "ask"
    /\ Goto(c, w, "make")
    /\ UNCHANGED <<cacheVars, reported, create, sync, launch, synced,
                   restarts, ocmVars, aws, secret, ghosts>>

\* Is there an htpasswd identity provider? Then the user has been told, and
\* the goroutine ends; after an error it goes on to the message.
AskIdentityProviders(c, w) ==
    /\ auth[c][w] = "ask"
    /\ \/ /\ Exists(c)
          /\ Goto(c, w, IF idp[c] = Nil THEN "make" ELSE "idle")
          /\ UNCHANGED lost
       \/ /\ ~Exists(c) \/ "idps" \in Faults
          /\ Goto(c, w, "tell")
          /\ Lose(c)
    /\ UNCHANGED <<cacheVars, reported, create, sync, launch, synced,
                   restarts, ocmVars, aws, secret, told, before, errors, unseen>>

\* Mutant: the password is saved although another one is in use.
CreateIdentityProviderMutant(c, w) ==
    /\ auth[c][w] = "make"
    /\ idp' = [idp EXCEPT ![c] = IF @ = Nil THEN w ELSE @]
    /\ Goto(c, w, "save")
    /\ UNCHANGED <<cacheVars, reported, create, sync, launch, synced, restarts,
                   ocm, expired, aws, secret, ghosts>>

\* CreateIdentityProvider with a new password: OCM has one of a name only.
CreateIdentityProvider(c, w) ==
    /\ auth[c][w] = "make"
    /\ \/ /\ Exists(c) /\ idp[c] = Nil
          /\ idp' = [idp EXCEPT ![c] = w]
          /\ Goto(c, w, "save")
          /\ UNCHANGED lost
       \/ /\ ~Exists(c) \/ idp[c] # Nil
          /\ Goto(c, w, "tell")
          /\ UNCHANGED <<idp, lost>>
       \/ /\ "idp" \in Faults
          /\ Goto(c, w, "tell")
          /\ Lose(c)
          /\ UNCHANGED idp
    /\ UNCHANGED <<cacheVars, reported, create, sync, launch, synced,
                   restarts, ocm, expired, aws, secret, told, before, errors, unseen>>

\* The password enters the secret.
SavePassword(c, w) ==
    /\ auth[c][w] = "save"
    /\ \/ /\ secret' = [secret EXCEPT ![c] = w]
          /\ Goto(c, w, "cache")
          /\ UNCHANGED lost
       \/ /\ "secret" \in Faults
          /\ Goto(c, w, "tell")
          /\ Lose(c)
          /\ UNCHANGED secret
    /\ UNCHANGED <<cacheVars, reported, create, sync, launch, synced,
                   restarts, ocmVars, aws, told, before, errors, unseen>>

\* The password enters the cache, under the lock; then the goroutine waits
\* until the cluster accepts it, and goes on if that never happens.
CachePassword(c, w) ==
    /\ auth[c][w] = "cache"
    /\ Unread
    /\ passwords' = [passwords EXCEPT ![c] = w]
    /\ Goto(c, w, "tell")
    /\ UNCHANGED <<cache, pending, reported, create, sync, launch,
                   synced, restarts, ocmVars, aws, secret, ghosts>>

\* The user is told the password that is in the secret now, and again when
\* the console is there; RosaResponder says nothing without a password.
TellPassword(c, w) ==
    /\ auth[c][w] = "tell"
    /\ Goto(c, w, "idle")
    /\ \/ /\ secret[c] \in Workers
          /\ told' = [told EXCEPT ![c] = secret[c]]
          /\ UNCHANGED lost
       \/ /\ secret[c] \notin Workers
          /\ UNCHANGED <<told, lost>>
       \/ /\ "secret" \in Faults
          /\ Lose(c)
          /\ UNCHANGED told
    /\ UNCHANGED <<cacheVars, reported, create, sync, launch, synced,
                   restarts, ocmVars, aws, secret, before, errors, unseen>>

-----------------------------------------------------------------------------
(* Restarts, and what happens to clusters by themselves *)

\* The bot stops anywhere and starts with nothing but the secret. The requests
\* of the launch command come back from the ProwJobs.
Restart ==
    /\ restarts < MaxRestarts
    /\ restarts' = restarts + 1
    /\ cache' = [c \in Clusters |-> "none"]
    /\ passwords' = [c \in Clusters |-> Nil]
    /\ pending' = 0
    /\ reported' = {}
    /\ create' = [c \in Clusters |-> IF create[c] = "none" THEN "none" ELSE "ended"]
    /\ sync' = [s \in Syncs |-> Idle]
    /\ auth' = [c \in Clusters |-> [w \in Workers |-> "idle"]]
    /\ launch' = [u \in Users |-> IF launch[u] = "running" THEN "running" ELSE "none"]
    /\ synced' = FALSE
    /\ before' = before \cup {c \in Clusters : told[c] # Nil}
    /\ told' = [c \in Clusters |-> Nil]
    /\ errors' = [c \in Clusters |-> 0]
    /\ lost' = lost \cup {c \in Clusters : idp[c] # Nil /\ told[c] = Nil}
    /\ UNCHANGED <<ocmVars, aws, secret, unseen>>

\* A cluster needs its roles to become ready.
Install(c) ==
    /\ ocm[c] = "installing"
    /\ \/ c \in aws /\ ocm' = [ocm EXCEPT ![c] = "ready"]
       \/ "error" \in Faults /\ ocm' = [ocm EXCEPT ![c] = "error"]
    /\ UNCHANGED <<cacheVars, reported, create, sync, auth, launch,
                   synced, restarts, idp, expired, aws, secret, ghosts>>

Uninstall(c) ==
    /\ ocm[c] = "uninstalling"
    /\ ocm' = [ocm EXCEPT ![c] = "gone"]
    /\ UNCHANGED <<cacheVars, reported, create, sync, auth, launch,
                   synced, restarts, idp, expired, aws, secret, ghosts>>

Expire(c) ==
    /\ "expire" \in Faults
    /\ Live(c) /\ c \notin expired
    /\ expired' = expired \cup {c}
    /\ UNCHANGED <<cacheVars, reported, create, sync, auth, launch,
                   synced, restarts, ocm, idp, aws, secret, ghosts>>

-----------------------------------------------------------------------------

Init ==
    /\ cache = [c \in Clusters |-> "none"]
    /\ passwords = [c \in Clusters |-> Nil]
    /\ pending = 0
    /\ reported = {}
    /\ create = [c \in Clusters |-> "none"]
    /\ sync = [s \in Syncs |-> Idle]
    /\ auth = [c \in Clusters |-> [w \in Workers |-> "idle"]]
    /\ launch = [u \in Users |-> "none"]
    /\ synced = FALSE
    /\ restarts = 0
    /\ ocm = [c \in Clusters |-> "none"]
    /\ idp = [c \in Clusters |-> Nil]
    /\ expired = {}
    /\ aws = {}
    /\ secret = [c \in Clusters |-> Nil]
    /\ told = [c \in Clusters |-> Nil]
    /\ before = {}
    /\ errors = [c \in Clusters |-> 0]
    /\ lost = {}
    /\ overtaken = {}
    /\ hasty = {}

CreateStep(c) ==
    \/ CheckCluster(c) \/ CheckRequest(c) \/ CountCluster(c) \/ CreateCluster(c)
    \/ Register(c) \/ CreateRoles(c) \/ ReturnCreate(c)

SyncStep(s) ==
    \/ ListClusters(s) \/ ScanClusters(s) \/ StoreClusters(s)
    \/ RemoveResources(s) \/ ForgetEntries(s)

AuthStep(c, w) ==
    \/ AskIdentityProviders(c, w) \/ CreateIdentityProvider(c, w)
    \/ SavePassword(c, w) \/ CachePassword(c, w) \/ TellPassword(c, w)

Next ==
    \/ \E c \in Clusters : CreateStep(c) \/ Install(c) \/ Uninstall(c) \/ Expire(c)
    \/ \E u \in Launchers : LaunchJobForUser(u) \/ Reserve(u)
    \/ \E u \in Users : TerminateJobForUser(u)
    \/ \E s \in Syncs : SyncStep(s)
    \/ \E c \in Clusters, w \in Workers : AuthStep(c, w)
    \/ Restart

Spec == Init /\ [][Next]_vars

(***************************************************************************)
(* The periodic rosaSync always comes again, and a step of a goroutine is  *)
(* taken in the end. A waiting writer stops new readers of a Go RWMutex,   *)
(* so that the steps under the lock are not overtaken forever. A call that *)
(* may fail succeeds some time if it is tried again and again.             *)
(***************************************************************************)
Fairness ==
    /\ \A c \in Clusters :
          /\ WF_vars(Uninstall(c))
          /\ \A w \in Workers : SF_vars(AuthStep(c, w))
    /\ \A s \in Syncs :
          /\ SF_vars(SyncStep(s))
          /\ SF_vars(ScanClusters(s) /\ sync'[s].pc = "scanned")
          /\ SF_vars(RemoveResources(s) /\ sync'[s].dead = sync[s].dead)

FairSpec == Spec /\ Fairness

-----------------------------------------------------------------------------
(* Properties *)

(***************************************************************************)
(* The password that is told, cached, or saved is the one the cluster      *)
(* accepts, although two goroutines may set up the same cluster and only   *)
(* one of them gets its identity provider (addClusterAuth).                *)
(***************************************************************************)
PasswordFits ==
    \A c \in Clusters : {told[c], passwords[c], secret[c]} \cap Workers \subseteq {idp[c]}

\* What rosaSync and the goroutines carry fits, too: the inductive form.
PasswordInv ==
    /\ TypeOK
    /\ PasswordFits
    /\ \A c \in Clusters :
          /\ \A s \in Syncs : {sync[s].found[c]} \cap Workers \subseteq {idp[c]}
          /\ \A w \in Workers : auth[c][w] \in {"save", "cache"} => idp[c] = w

(***************************************************************************)
(* The AWS resources of a cluster have an entry in the secret, which a     *)
(* crash leaves: createRosaCluster writes it before it makes them ("add    *)
(* new cluster to configmap before creating operator-roles"). Of a cluster *)
(* that overtook a list rosaSync may delete the entry and not the roles.   *)
(***************************************************************************)
ResourcesAreRecorded == \A c \in aws \ overtaken : secret[c] # Nil

(***************************************************************************)
(* rosaSync removes AWS resources of no cluster that OCM has, not even of  *)
(* one that it is uninstalling, however old list and entries are by then.  *)
(* rosaSync gives up without a list, because an empty one "would [...]     *)
(* make the secret cleanup below delete the AWS resources of live          *)
(* clusters". An older list does so to a cluster that overtook it.         *)
(***************************************************************************)
LiveKeepsResources ==
    [][\A c \in Clusters \ overtaken : c \in aws /\ c \notin aws' => ~Exists(c)]_vars

(***************************************************************************)
(* Besides the clusters that no list could show and those admitted to an   *)
(* empty cache, rosaClusterLimit bounds the clusters that OCM has, with    *)
(* several creations under way, caches replaced and restarts. The others   *)
(* exceed the "Maximum number of ROSA clusters that can exist at the same  *)
(* time": an older list takes a new cluster from the cache that is counted.*)
(***************************************************************************)
SeenWithinLimit ==
    Limit # 0 =>
       Cardinality({c \in Clusters : Exists(c)} \ (overtaken \cup hasty)) <= Limit

(***************************************************************************)
(* A user has one cluster, from launch or from rosa create, besides those  *)
(* that no list could show.                                                *)
(***************************************************************************)
OnePerUser ==
    \A u \in Users :
       Cardinality({c \in Clusters \ overtaken : OwnerOf[c] = u /\ Live(c)})
         + (IF launch[u] = "running" THEN 1 ELSE 0) <= 1

(***************************************************************************)
(* The restarted bot does not tell the password of a cluster again that it *)
(* told before ("don't renotify users on chat-bot restart").               *)
(***************************************************************************)
NotRenotified == \A c \in before : told[c] # Nil => ~Exists(c)

(***************************************************************************)
(* The error of a cluster that is there is told once, although a rosaSync  *)
(* with an older list may put the cluster back to installing in the cache  *)
(* after it was told. A list that lacks the cluster makes the bot forget   *)
(* that it told the error.                                                 *)
(***************************************************************************)
ErrorToldOnce ==
    [][\A c \in Clusters \ overtaken :
          errors[c] = 1 /\ errors'[c] = 2 => ~Exists(c)]_vars

(***************************************************************************)
(* The owner of a ready cluster is told its password, unless the cluster   *)
(* goes or expires first, a call for the password failed, or a rosaSync    *)
(* whose list lacks the cluster deleted the password from the secret.      *)
(***************************************************************************)
ReadyIsTold ==
    \A c \in Clusters :
       ocm[c] = "ready" ~> \/ told[c] # Nil
                           \/ c \in before \cup lost \cup expired \cup overtaken
                           \/ ocm[c] # "ready"

(***************************************************************************)
(* The AWS resources of a cluster that is gone are removed, whatever fails *)
(* on the way, as long as they are recorded.                               *)
(***************************************************************************)
ResourcesAreRemoved ==
    \A c \in Clusters : ocm[c] = "gone" ~> c \notin aws \ overtaken

=============================================================================
