# Verification of ci-chat-bot

The cluster bot (`ci-chat-bot`) is a Slack app that launches OpenShift clusters
and builds for its users, follows them, hands out their credentials and cleans
them up. It is one Go process; what it must remember lives in maps behind locks,
is changed by goroutines, tickers and commands, and is rebuilt after a restart
from what other systems know (ProwJobs, managed clusters, OCM and a secret, the
IAM policy of a GCP project, the private metadata of a Slack view). This
directory holds TLA+ models of that process, the TLC configurations that check
them on small instances, and TLAPS proofs of the properties that matter most for
instances of any size.

## 1. Inventory

| Component | Source | State | Operations | Module |
|---|---|---|---|---|
| Job manager | `pkg/manager/manager.go`, `prow.go`, `types.go` | `requests`, `jobs`, `muJob.running`, the ProwJobs and the informer's cache of them | launch, build/test, done, refresh, sync every 5 minutes, the goroutine that follows a job | `JobManager`, `ClusterSlots` |
| ROSA clusters | `rosa.go`, `rosaSync` in `manager.go` | `rosaClusters`, `pendingClusters`, `rosaErrorReported`; the secret with cluster IDs and passwords; OCM and AWS | rosa create, done, rosaSync, the goroutine that makes the administrator | `Rosa` |
| MCE clusters | `mce.go`, `mceSync` … in `manager.go` | `mceClusters`, notification attempts; ManagedClusters, ClusterDeployments, provisions, imagesets on the hub | mce create/delete, mceSync, the MCE part of sync | `Mce`, `MceLocks` |
| GCP access | `gcp_access.go`, end of `manager.go` | `grantsCache`; service accounts and IAM policy | grant, revoke, status, hourly cleanup | `GcpAccess` |
| Slack events and commands | `pkg/slack/slack.go`, `actions.go`, `parser`, `events/messages` | none | find the command and its parameters, check them, call a manager, answer | `Commands` |
| Slack dialogs | `pkg/slack/modals`, `interactions/router` | the private metadata of the view; overwrites under way | one form after the other, back button, submission | `ModalFlow` |
| Organization membership | `pkg/slack/membership.go` | none | lookup by Slack ID, then by email | in `Commands` |
| Home view, mentions | `events/apphome`, `mention` | none | fixed answers | – |
| Resolution of releases and jobs | `lookupInputs`, `ResolveImageOrVersion`, `resolveToJob`; `pkg/prow` | none | a search in release tags and job configuration | – |
| ProwJob configuration | `newJob` in `prow.go`, `pkg/prow` | none | editing of the ci-operator configuration | its effect is `CreateProwJob` |
| Operator catalogs | `pkg/catalog` | files | bundle validation, catalog builds | – |
| Wiring and metrics | `cmd/`, `pkg/metrics`, `pkg/utils` | flags, counters | start-up, HTTP server | – |

**How they interact.** Slack delivers a message or an interaction by HTTP. A
message is answered with 200 at once; a goroutine finds the command, runs its
handler, which calls one method of the manager, and posts the answer. A submission of
a dialog is answered with a "Processing" view, and a goroutine overwrites the
view when the next form is ready or the manager has answered. The manager keeps `requests`
(user → the cluster asked for) and `jobs` (name → what is known of a job) behind
`m.lock`, and starts `handleJobStartup` in a goroutine for each job. That goroutine
holds a *copy* of the `Job`, waits in `waitForJob` for the ProwJob, its pod and
the cluster, and writes its copy back in `finishedJob`. In parallel `sync` lists
the ProwJobs from an informer, replaces the entries of `jobs`, claims
requests for their users, starts further goroutines, expires old entries, and
creates the imageset and the deployment of an MCE cluster whose images are
built. `rosaSync` and `mceSync` run on tickers and after commands; they replace
the caches of the ROSA and MCE clusters, delete what has expired and tell users
what became of their clusters. `launch`, `done` and `rosa create` look at one
another's state so that a user has one cluster. The GCP manager is separate: its
own mutex, and two IAM APIs as its only durable memory.

**What is hard.** Copies and lists that are older than what they overwrite; checks
and actions under different acquisitions of a lock; two locks taken in different
orders; calls that fail between two steps; a message that is sent before, or after, it
is recorded as sent; a restart, after which memory is empty; views that are
overwritten while the user acts on them. `PROJECT.json` has the hazards line by line.

**What makes the parts correct.**

* Job manager: one cluster per user; no more than `maxClusters`; a job that memory
  calls over is over; the bot knows every cluster that runs; what becomes ready or
  ends is reported to its user; nothing is remembered for ever.
* ROSA: the password that is told opens the cluster; AWS resources are recorded
  before they exist, kept while their cluster lives and removed when it is gone; the
  limit; one cluster per user over `launch` and `rosa create`; users are told, once.
* MCE: a cluster marked as notified was told or tried often enough; nobody is told
  twice; failures are told; no live or waiting cluster is deleted as stale; expired
  ones are; no deadlock between `m.lock` and `mceClusters.lock`.
* GCP access: a revoked user has no working key; a granted one has; expired
  bindings go away; no binding names an account that does not exist.
* Commands: the command that runs is the one that was typed, with its words as
  parameters; what is launched fits together; GCP access is for members.
* Dialogs: the cluster that is asked for is the one the forms describe, whatever way
  the user took; the back button leads out; nobody is left with "Processing".

## 2. Modules

```
ClusterSlots            what the job manager promises about clusters
JobManager              the job manager; refines ClusterSlots
  MCJobManager            its instances for TLC
  JobManagerProofs        type correctness
  JobManagerSlotProofs    SlotInv is inductive and what follows from it; the limit;
                          JobManager implements ClusterSlots
Rosa                    ROSA clusters
  MCRosa                  its instances for TLC
  RosaProofs              PasswordInv is inductive
  RosaClusterProofs       resources, errors, renotification, the limit, one per user
Mce                     MCE managed clusters
  MCMce                   its instances for TLC
  MceProofs               NotifiedInv is inductive; messages once; live clusters are kept
MceLocks                the lock operations of sync, mceSync, mce list, the image set job
GcpAccess               grants of access to the GCP project
  MCGcpAccess             its instances for TLC
  GcpAccessProofs         AccessInv is inductive; bindings; usable grants; revokes
ModalFlow               the dialogs
  MCModalFlow             values of its constants for TLC
  ModalFlowProofs         its four invariants
Commands                direct messages and the handlers of the commands
  CommandsProofs          its three invariants, for every message
MCSlack                 ModalFlow and Commands in one instance
```

Operators named `…Mutant` (or, for `FromProwJob`, by what they get wrong) are
variants of the definition that follows them, with a mistake that such code might have;
nothing uses them. For every property of a passing run one of them makes TLC
find a violation: `PROJECT.json` lists which.

All modules share one convention: `Faults` says what the environment may do in a run
beyond the ordinary, and each module lists the faults it knows. A run is therefore a
statement about an explicit environment, and a proof names the faults it excludes.

### JobManager

A member of `Jobs` is one request: the name `resolveToJob` gives it, its user and
its mode, which never change. The variables are those of the process
(`requests`, `jobs`, `worker` = the goroutine in `muJob.running` with its copy of
the job and its program counter, `spawned` = goroutines before `tryJob`,
`finishing` = `go finishedJob` started by sync, `term` = a `done` between its two
halves), of Prow (`prow`, `lister`, `pod`) and the clock (`passed`, the deadlines of
a job that lie in the past: `age` = the maximal age, `completed`, `terminated`,
`request`). `sent` and `released` are ghosts: the kinds of message a user has been sent
about a job (`NotifyJob`: ready with credentials, succeeded, failed, running) and the
clusters reported as released.

| Code | Actions |
|---|---|
| `LaunchJobForUser` | `LaunchCluster`, `LaunchOther` (the locked part with its refusals), `CreateProwJob`, `LaunchCleanup`/`NewJobFails` (newJob failed), `NewJobReturns`, `NewJobTimesOut` |
| `handleJobStartup`, `waitForJob` | `StartWorker`, `PollProwJob`, `AwaitResults`, `AwaitPod`, `NeverAvailable`, `AwaitSetup`, `AwaitReachable`, `clearNotificationAnnotations`, `FinishWorker` |
| `finishedJob` called by sync | `FinishFromSync` |
| `sync` | `Sync`: one step, as it runs under `m.lock` |
| `TerminateJobForUser` | `TerminateStop` (stopJob), `TerminateMark` |
| `SyncJobForUser` (refresh) | `SyncJobForUser` |
| `Start` | `Restart`: memory is lost, Prow goes on |
| Prow, the informer, the clock (external) | `ProwStep`, `Deliver`, `TimePasses` |

Every wait of the code is a program counter, so that everything another goroutine
can do meanwhile happens in the model. Strings such as `Credentials` or `Failure`
are reduced to whether they are empty, because that is what the control flow
reads. A cluster that does not answer for the half hour of `waitForClusterReachable` is the
fault `unreachable`, and the command refresh is enabled by `refresh`: both make a
difference to who is sent the credentials (section 6).

### ClusterSlots

An abstract specification: a cluster takes one of a limited number of slots, an
owner holds at most one, and a cluster that has given back its slot never gets it
again. The refinement mapping makes a slot of every cluster that is `Active`: its
ProwJob is about to be created, or its cluster is live. That `sync`, a restart, a
late goroutine or a refresh maps to a stutter or a release is the content.

### Rosa

A member of `Clusters` is one `rosa create`. `create`, `sync` and `auth` are the program
counters of the command, of the concurrent `rosaSync`s (with the list each works with)
and of the goroutines that set up an administrator (a member of `Workers` is also the
password it generates). `ocm`, `idp`, `aws` and `secret` are what survives a restart.
The RWMutex is modelled by `Unread`: a writer runs when no `rosaSync` is between its
reads; single reads are single steps.

Nothing keeps a creation and a rosaSync apart: OCM may create a cluster while a rosaSync
works with a list it got before. The ghost `overtaken` collects these clusters, and `hasty`
those that the limit admitted before the first rosaSync filled the cache. What the code
does to these clusters is wrong and is told in section 6; the properties say what holds
all the same of the clusters that every list could show, and set only these apart.

| Code | Actions |
|---|---|
| `CreateRosaCluster`, `createRosaCluster` | `CheckCluster`, `CheckRequest`, `CountCluster`, `CreateCluster`, `Register`, `CreateRoles`, `ReturnCreate` |
| `LaunchJobForUser`, `TerminateJobForUser` | `LaunchJobForUser` and `Reserve` (the two halves that matter here), `TerminateJobForUser` |
| `rosaSync` | `ListClusters`, `ScanClusters`, `StoreClusters`, `RemoveResources`, `ForgetEntries` |
| `addClusterAuthAndWait`, `addClusterAuth`, `RosaResponder` | `AskIdentityProviders`, `CreateIdentityProvider`, `SavePassword`, `CachePassword`, `TellPassword` |
| `Start` | `Restart` |
| OCM (external) | `Install`, `Uninstall`, `Expire` |

### Mce

A member of `Clusters` is one `mce create`. On the hub a cluster has a ManagedCluster
(`managed`, with `available` and `annotated`), a ClusterDeployment (`deployed`, with
the condition ProvisionFailed), its newest ClusterProvision (`provision`) and, if its
release is built, an imageset. `job` is the ProwJob of the build and `jobs` the clusters
that some job of `m.jobs` names. mceSync is serialized by `mceSyncLock`, so there is
one, with a program counter at each place where other goroutines may come between;
`told` and `failTold` count messages that Slack accepted, `tried` those it did not.

| Code | Actions |
|---|---|
| `CreateMceCluster`, `createManagedCluster`, `createClusterDeployment` | `CreateMceCluster`, `LaunchBuild`, `createManagedCluster`, `createClusterDeployment` |
| `DeleteMceCluster`, `deleteManagedCluster` | `DeleteMceCluster`; `deleteManagedCluster` as part of the actions that call it |
| the MCE part of `sync` | `syncJobs` |
| `mceSync` | `listManagedClusters`, `NotifyCluster` (`NotifyReady`, `notifyMceFailure`, `NothingNew`), `Annotate`, `DeleteStale`, `Store` |
| `SetMceNotifier`, `Start` | `SetMceNotifier`, `Restart` |
| Prow, Hive, the hub (external) | `JobEnds`, `Hive`, `Finalize`, `Expire` |

`MceLocks` has the lock operations alone, each function as the sequence of what it
locks and unlocks, with Go's rule that a waiting writer keeps new readers out. `Optional`
says which part a function may skip: sync reads the cache only for a ProwJob that has
ended, and `mce list` takes `m.lock` only for a cluster that lacks the annotation
`RequestedReleaseDisplayTag` (`manager.go:2936`).

### GcpAccess

Each call to IAM is a step; `mutex` records who holds the mutex of
`GCPAccessManager`. `GrantAccess` and `CleanupExpiredAccess` hold it to the end;
`RevokeGCPAccess` takes it in `GetUserGrant` twice and in `RevokeAccess` once or
twice, and asks IAM in between without it.

| Code | Actions |
|---|---|
| `GrantAccess` | `GrantAccess`, then `createServiceAccountKey` (active grant in the cache) or `createServiceAccount`, `GrantKey`, `GrantBind`, `GrantAnswer`, with rollback |
| `RevokeGCPAccess` → `GetUserGrant` | `RevokeGCPAccess`, `GetUserGrantQuery`, `GetUserGrantRemember` |
| `RevokeAccess` | `RevokeAccess`, `RevokeAccessQuery`, `RevokeAccessRelock`, `RevokeAccessUnbind`, `RevokeAccessDelete` |
| `CleanupExpiredAccess` | `CleanupExpiredAccess`, `CleanupDelete` |
| `NewGCPAccessManager` | `Restart` |

An account's owner, which the code reads off the account's name, is the constant
`OwnerOf`. The read of the policy, its change and its write are one step: the
manager does them under its mutex and the API refuses a write after a
concurrent change (etag), which is the fault `iam`.

### ModalFlow

`view` is what the user sees: the form, the step its back button leads to and the
metadata; `pending` the overwrites under way, which land in any order, because
`OverwriteView` passes no hash. `seen` in a view is a ghost: what the user entered on the
forms that led to it. Each handler of a form is an action; a submission that
fails validation changes nothing and is no step. The release controller is a
constant (streams, tags), its failure the fault `fetch`; Slack's refusal of a view
and a lost answer are `slack` and `network`. The launch and the MCE dialog share their
handlers in the code and here; the dialogs of one form (list, auth, done, refresh,
mce auth/list/delete/lookup) are one flow, `simple`.

### Commands

A message is a sequence of words of comma-separated parts, a type just fine enough for what
the parser's expressions and `ParseImageInput`, `ParseOptions`, `BuildJobParams` tell
apart. `Matches`, `Taken` and `Properties` say what the lazily quantified
expressions of a command match; `Match` is the loop over the table. A handler is an
operator from properties to the call of the manager or `None`. `Join` and
`ParseImageInput` are recursive functions, so that they can be reasoned about. Every command is
registered with `isPrivate` false, so the check for private commands never excludes one
and is left out. Newlines, blanks around a message and the case of letters are left out, too:
that a message which is not understood has too many words (`RunsWhatWasTyped`) is said of
words alone.

## 3. Runs

| Run | Instance and environment | Shows |
|---|---|---|
| `slots` | 1 user, 2 clusters; 1 restart or the age limit; refresh | `TypeOK`, the inductive `SlotInv`, `OneClusterPerUser`, `OverMeansOver`, `LiveIsKnown`, the refinement `ImplementsClusterSlots` |
| `reported` | 1 cluster; every fault but unreachable, refresh, impatient | `ReadyIsReported`, `OutcomeIsReported` |
| `reported_build` | 1 build; every fault | `OutcomeIsReported` |
| `forgotten` | 1 cluster, all deadlines, 1 restart; create, slow, delay, scheduler, abort, refresh | `AllForgotten` |
| `gcp_grants` | 1 user, 2 accounts, 2 concurrent revokes, 1 restart; iam, edge, twice, lapsed | `AccessInv`, `BoundExists`, `GrantIsUsable`, `ExpiredIsRemoved` |
| `gcp_revokes` | 2 users, 4 accounts (3 of one), 2 revokes; failing deletions | `RevokedHasNone` |
| `rosa` | 1 cluster and 2 overlapping rosaSyncs, or 2 requests of an impatient user with limit 1; 1 restart; early, twice, error, expire, delete, secret, roles, aws | `ResourcesAreRecorded`, `LiveKeepsResources`, `ErrorToldOnce`, `SeenWithinLimit` |
| `ready` | 1 cluster and a launch command, 1 rosaSync, 2 goroutines, 1 restart; roles, secret, idp, aws | the inductive `PasswordInv`, `NotRenotified`, `OnePerUser`, `ReadyIsTold`, `ResourcesAreRemoved` |
| `mce` | 2 requests, limit 1, 2 attempts, 1 restart; create, delete, provision, auth, slack | the inductive `NotifiedInv`, `ReadyToldOnce`, `FailureToldOnce`, `LiveIsKept` |
| `told` | 1 cluster, 2 attempts; create, delete, auth, slack | `ReadyIsTold`, `FailureIsTold`, `ExpiredIsRemoved` |
| `slack` | dialogs: 2 platforms, 2 architectures, 2 streams, 2 overwrites under way; every fault but clear. Messages: 24 commands with up to 3 of 10 argument words, 3 senders | `RequestIsChosen`, `RequestFits`, `BackLeadsOut`, `ProcessingGoesOn`; `RunsWhatWasTyped`, `LaunchFits`, `GrantedToMembers` |

One run expects a violation:

| Run | Property | What TLC finds |
|---|---|---|
| `mce_locks` | `MceSyncEnds` | `mce list` holds `mceClusters.lock` for reading and, in `GetMceCustomVersion`, wants `m.lock`; sync holds `m.lock` and wants to read the cache; a writer of the cache (mceSync or the image set job) waits for `mce list` and keeps sync out. All three wait for ever, and with `m.lock` every command does. It takes a listed cluster of own images without the annotation `RequestedReleaseDisplayTag` (`manager.go:2936`), as `createManagedCluster` makes one when the inputs cannot be resolved (`mce.go:284`). `types.go:351` separates another lock "so that mceSync never blocks on lock", and `CreateMceCluster` avoids the very pattern (comment at `manager.go:2867`). |

**Bounds.** Jobs are independent except through the maps keyed by user and the
count of clusters. Two clusters of one user are enough to get a stale copy of the
first while the second is launched; the limit of `slots` is never reached by two clusters of
one user, and that nothing exceeds it is the content of the proofs. Liveness runs have one job: the progress of a job
depends on the others only through `m.lock`, which every critical section gives back
(`MceLocks` excepted). `MaxWaiting` bounds the goroutines of one job that wait to run at
once to one, `MaxRestarts` the restarts to one; without the fault `delay` a goroutine
runs before the next command. In `GcpAccess` two accounts of one user suffice
for a stale and a current grant, two revokes for one that overtakes the other;
`gcp_revokes` has three of one user, so that a grant follows one that was revoked and one
that expired. In `Rosa`
two syncs are enough for one with an older list, two workers for two passwords, two
requests for a limit of one. The constraint `OneOrYoung` of `rosa` follows two requests
while their clusters install and one rosaSync works at a time, which is what the limit
depends on, and one request with two rosaSyncs to the end. In `Mce` two installation attempts (Hive's
`InstallAttemptsLimit`) and two delivery attempts give every path of the counters; the
constraint `OneIsMade` of `mce` follows a second request no further than its check,
because clusters meet only in the limit. In `ModalFlow` two overwrites under way are one
that overtakes another; `MaxOptions` is 1, so that the form for major.minor, which the
code shows for more than 100 versions, is reached. The proofs of section 5 have none of
these bounds.

**View, symmetry and constraint.** `slots` leaves the ghosts, which no action reads,
out of the view, exchanges the two clusters of the user, and its constraint
`RestartOrAge` excludes behaviours with both a restart and an expiry (`forgotten` has
both). `rosa` exchanges clusters and syncs, `mce`
clusters.

**Deadlock** is checked in every run of `JobManager`, `GcpAccess` and `Rosa`: the clock,
the loops and the commands leave no state without a step. It is not checked where a
behaviour may end: a dialog that is closed, a message that is answered, and the MCE
cluster of an instance when it is gone.

## 4. Fairness

* `SF(Sync)`: the ticker of `Start` runs sync again and again; strong because in
  the model a bounded queue of goroutines may switch it off meanwhile.
* `WF` on every step of a goroutine that has started, and on the informer.
* `RetriesSucceed`: `SF` for the success of each wait of a goroutine (the pod, its setup, the
  cluster that answers). A failure of the API servers does not last; a goroutine that asks
  again and again about a cluster that stays ready is answered. Without it "eventually
  reported" is false of any program.
* The runs with liveness have the fault `delay`: without it commands and sync wait for a
  goroutine that was started, which would weaken `WF`.
* `TimedSpec` adds `WF(TimePasses)`: deadlines pass.
* `GcpAccess`: `SF` on a cleanup whose policy write succeeds, `WF` on the
  goroutines and on the deletions of a cleanup.
* `Rosa`: `SF` on rosaSync and on the goroutines, because a step under the lock may be
  disabled by readers, and a waiting writer of a Go RWMutex stops new ones; `SF` on a
  read of the secret and on a removal of resources that succeed; OCM uninstalls.
* `Mce`: `WF` on mceSync, sync and the creation of a cluster; `SF` on deletions and reads
  of credentials that succeed. Slack need not ever accept a message: giving up after
  `maxMCENotificationAttempts` is part of the promise.
* `MceLocks`: `SF` on every process, so that its violation is a deadlock and not
  starvation.
* Prow, Hive's progress, OCM's installation and users are not fair.

Restarts are left out of `reported` and `told`: the annotation of the channel is
cleared before the message is posted (`prow.go`, comment at
`clearNotificationAnnotations`), and a failure that was found before a restart is not
new to the next process (`provisionFailureIsNew`), so that a crash in between
loses a notification by design.

## 5. Proofs

`JobManagerProofs!TypeCorrect`: `Spec => []TypeOK`, under every fault. Not only types:
a goroutine past `tryJob` has a copy of its job.

`JobManagerSlotProofs!OneCluster`, `SlotsAgree`, `EndedIsOver`, `UpIsKnown`,
`ClusterLimit` and `Refinement`: for any finite set of jobs, any users and any
number of restarts, one live cluster per user, nothing that memory calls over still
running, every running cluster known after the first sync, at most `maxClusters` live
clusters (`ClustersWithinLimit`, proved only), and the refinement of `ClusterSlots`. They
hold in an *orderly* environment:

* none of `create`, `url`, `impatient` (section 6), `early` (a command before the first
  sync sees empty maps);
* none of `api`, `slow`, `unreachable`: a goroutine that gives up marks a cluster failed that
  runs on, which lets its owner launch again, as the code intends;
* no `scheduler`: a ProwJob in state scheduling is one `sync` does not claim;
* no `lag` together with restarts: a ProwJob whose pod has ended and that still says
  pending is claimed by a new process, and the user's newer one is not.

`stale`, `delay`, `patch`, `abort`, `refresh` and (without restarts) `lag` are allowed. The
invariant needed is `SlotInv`. `OneClusterPerUser` is not inductive: `LaunchCluster`
reads `requests` and `jobs`, so the proof needs that an active cluster is in both
(`ActiveIsKnown`); that survives `Sync` only if what the informer shows as
over is over (`ListerLags`); it survives a late goroutine only if no copy in flight
calls an active cluster failed, complete or expiring (`CopiesAgree`); `done`
marks only what is stopped (`StoppedIsOver`); a new process knows nothing and the
informer everything, and no two ProwJobs could claim the same user (`BlankStart`).
`FreshNames`, `PodsFollow` and `Progress` are the facts about names, Prow and
deadlines these rest on. For the refinement each action is shown to take one slot
for a fresh name, to refuse one, or to keep the set of active clusters from growing.

`RosaProofs!PasswordsFit`: `Spec => []PasswordInv`, under every fault, for any number
of clusters, concurrent syncs, goroutines and restarts. That the password in the
cache, in the secret and in the message is the one in the identity provider is not
inductive: `StoreClusters` writes passwords that a sync read earlier, and
`SavePassword` one that a goroutine made earlier. `PasswordInv` adds that what a sync
carries fits, and that a goroutine about to save is the one whose provider was
accepted; both hold because an identity provider never changes once it is there.

`RosaClusterProofs` takes the other properties of `Rosa` one by one; where a theorem excludes
faults it names them (section 6); all other failures, syncs, goroutines and
restarts are arbitrary, and a creation may overlap any rosaSync. The lemmas `Born` (whatever
is known or kept of a cluster is of one that OCM has or had) and `Age` (only `CreateCluster`
brings a cluster into being) are common to them.

| Theorem | Excludes | Beyond the property, the invariant says |
|---|---|---|
| `Resources`: `ResourcesAreRecorded` | nothing | `Listed`: a list about to be stored has every cluster of OCM that is not `overtaken`, and so has the cache with those about to enter it; `Recorded`: the entry of such a cluster is there before the roles are made, and an entry to be deleted is of a cluster that is gone and has no resources any more |
| `LiveResources`: `LiveKeepsResources` | nothing | the same: what a rosaSync is about to remove was found missing from a list long ago, and is of a cluster that is gone for good |
| `ErrorsToldOnce`: `ErrorToldOnce` | nothing | `Reports`: a cluster of OCM whose error was told is in `reported`; with `Listed`, no list lacks it, and so no scan takes it out |
| `NoRenotification`: `NotRenotified` | idps | `Silent`: a cluster whose password an earlier process told has its identity provider, and no goroutine gets beyond asking for it |
| `ClusterLimit`: `SeenWithinLimit` | nothing | `Counts`: `pendingClusters` is the number of creations that passed the limit, and these together with the clusters of OCM, the `overtaken` and `hasty` ones aside, are within it; `Listed` makes the cache that is counted large enough |
| `OneCluster`: `OnePerUser` | early, twice | `Alone`: while a creation is under way its user has no other cluster and no other command, and a user with a cluster has no launched one, `overtaken` clusters aside |

That `overtaken` clusters are set apart is necessary: of such a cluster the rosaSync with the
older list may remove the resources, delete the entry while its roles are being made, drop it
from the cache, and forget that its error was told (section 6).

`MceProofs!NotifiedWereTold`: `Spec => []NotifiedInv`, under every fault, for any
number of clusters, restarts and any limit of attempts. The annotation follows the
message by a step, so the invariant speaks about the cluster about to be annotated,
too; and giving up rests on the count of attempts in memory, which must never exceed
the attempts really made, over resets and restarts.

Three more theorems of `MceProofs` share the invariant `Stages` (a ManagedCluster is made
once and never comes back, a deployment is made at the end of a creation or of a build):

* `ReadyIsToldOnce`: without `conflict`, `Spec => []ReadyToldOnce`. `TellsOnce` accounts for
  the message that was sent and not yet annotated: the cluster is the one to be marked, and
  not one still to be told.
* `LiveClustersAreKept`: without `get`, `window`, `early`, `slow`, `Spec => LiveIsKept`. The
  decision is made on a list that is old when it is used; `Sightings` says what an old
  sighting of a cluster without a deployment still means: its creation has ended, and a
  deployment that has come meanwhile belongs to a job that `m.jobs` names.
* `FailuresAreToldOnce`: without `part`, `Spec => []FailureToldOnce`. `FailuresTold` compares
  three stages of Hive's attempts: the hub's, the cache's or the list's older one, and the
  number told. A failure counts as new only if it is untold in the view mceSync has,
  and a counter of retries stands only for an untold one.

`GcpAccessProofs`: `Access` (`AccessInv`, every fault) and from it
`BindingsNameAccounts`; `GrantsAreUsable` for environments in which deletions of
service accounts do not fail, by the stronger invariant `Remembered`: an account
that the cache, a revoke or a grant remembers is bound, gone or about to go, however
stale the memory. With failing deletions the property is false: two concurrent revokes, a
failed deletion and a restart make the cache remember an unbound account.
`RevokesAreComplete` (`RevokedHasNone`) needs the agreement of cache and policy in both
directions (`CacheKnows`), that a grant under way is for a user without one (`GrantsOne`),
and that the revokes of a user come one after the other and find none expired
(`RevokesOne`). It holds without restarts and with no fault but `delete`: each of `iam`,
`edge`, `twice`, `lapsed` and a restart makes the cache forget a grant that is bound
(section 6). `lapsed` was found by this proof: the invariant did not survive
`GetUserGrantRemember`, and an instance with four accounts of one user shows why.

`ModalFlowProofs`: the dialogs, for every catalog of releases, every `MaxOptions` and
any number of overwrites under way. Because overwrites land in any order, the invariant
`ViewsAreGood` is about each single view, seen or under way: whichever lands last is
sound by itself. `FormOK` says what a form carries at its step: nothing of later forms,
the choices of earlier ones, and which forms may come before it. Two facts are less
obvious and without them the invariant is not inductive: going back to the form for
versions never ends at the one for major.minor, because the versions fitted the menu
before (`MenuFits`), so no version stays behind it; and a form for pull requests is
shown only where they were wanted, also backwards. From it follow, under every
fault, `RequestsFit` (`RequestFits`) and `BackAlwaysLeadsOut` (`BackLeadsOut`);
`ProcessingIsAnswered` (`ProcessingGoesOn`) is inductive by itself. `MeantOK` relates the
metadata to what was entered on the forms before and gives `RequestsAreChosen`
(`RequestIsChosen`), without the fault `clear`, which falsifies it.

`CommandsProofs`: `RunsTheCommandTyped` (`RunsWhatWasTyped`), `LaunchesFit` (`LaunchFits`)
and `AccessIsForMembers` (`GrantedToMembers`), for every message of any number of words, any
users, any data about employees and any platforms, parameters, tests and workflows that
are known. The temporal part is short: the three properties are about the record of one
message and, with the order of the stages (`Progress`), they form the inductive
`CommandInv`. What takes work is what the operators compute:

* *Which command.* `FirstMatch` says that `Match` is the first entry of the table that
  matches, and `LongestMatch` that no entry the message begins with has more words. Only
  `test upgrade` begins with another command; it comes before `test` and matches whatever
  begins with it. The table is read off entry by entry (`Entries`, `EntriesFit`), so a
  command that is added in the wrong place breaks the proof.
* *Which parameters.* `ParametersMakeUpRest`: the values, joined, are the rest of the
  message joined. The last parameter swallows several words, so this needs that `Glue`
  is associative (`GlueAssociative`) and that a joined tail can be joined to what comes
  before it (`JoinTail`), for any number of words.
* *Which call.* One lemma for each handler (`LaunchClusterFits`, …, `WorkflowsFit`), over
  `ParseOptionsFits`: at most one known platform is among the options, and it is the one
  used; `ParseImageInputType`: no part that is left is empty. `HandlerOutcome` puts
  them together along the table. `MemberIsMember` compares the two lookups of the
  membership: an email decides only when the Slack ID is unknown.

`Join` and `ParseImageInput` are recursive functions on the length of a sequence. The
library's induction theorems take the statement as an operator, which the provers cannot
instantiate; the existence of minimal elements (`WFMin`) takes a set. `LeastNatural` and
`Induction` draw from it that a set of numbers that has 0 and, with each number, the
next one has them all; that a recursive function is what its equation says
(`KeepsExists`, `JoinsExists`) and what it computes is then shown with the set of
the lengths for which it holds.

The constants' assumptions (`JobManagerAssumption`, `GcpAccessAssumption`,
`RosaAssumption`, `MceAssumption`, `ModalAssumption`, `CommandsAssumption`) say what kinds of
values they are; TLC evaluates them in every run. `CommandsAssumption` also says that no
name of a platform has a "=" in it, as those of `SupportedPlatforms` have none.

**Only model-checked:** all liveness properties (fairness and ENABLED are beyond the
prover), the deadlock of `mce_locks` among them, and everything outside the environments
that the theorems name. Every safety property of a passing run is stated by a theorem.

## 6. Observations without a run

Where a fault is named, adding it to the `Faults` of the run makes TLC show the
behaviour.

Job manager

* When `newJob` fails, `LaunchJobForUser` deletes `m.requests[user]` for every mode
  (`manager.go:2571`). A failed build clears the request of the user's cluster that is
  coming up, and a second cluster is admitted, against the comment at 1052 ("to ensure
  that the user can't start a second cluster"). (`slots` with `create` and a third job
  that is not in `LaunchJobs`: `OneClusterPerUser`.)
* `done` while `newJob` runs: `stopJob` treats a missing ProwJob as success
  (`prow.go:295`) and the cluster is created afterwards, against `prow.go:290` ("If this
  method returns nil, it is safe to consider the cluster released"). (`slots` with
  `impatient`: `OverMeansOver`.)
* A build that somebody aborts while no goroutine follows it (the bot restarts, or the
  wait for its URL timed out) is never reported: `sync` has no case for aborted jobs
  (`manager.go:954`), although before a restart the user was told "you will be notified
  on completion" (2618).
* When `waitForClusterReachable` gives up, `waitForJob` drops the credentials and keeps the
  error, and all the same calls `clearNotificationAnnotations` (`prow.go:1455`). The user is
  told that the cluster failed; when it answers later, the workers of sync read a ProwJob
  without a channel and nobody is sent what `manager.go:2611` promises: "I'll send you the
  credentials when the cluster is ready." (`reported` with `unreachable`: `ReadyIsReported`.)
* `finishedJob` clears the channel of a job whose worker failed (2790). A refresh copies that
  job (2706), and its worker reads the credentials, clears the annotation and tells nobody;
  without the refresh a worker of sync would have sent them. `slack.go:157` offers refresh to
  "retry fetching its credentials in case of an error". (`reported` with `refresh`:
  `ReadyIsReported`.)
* `manager.go:2567` recognises only the five-minute timeout of the wait for the ProwJob's
  URL. Any other failure of reading the ProwJob back (`prow.go:978`) makes
  `LaunchJobForUser` delete request and job of a ProwJob that exists, which the comment
  at 2566 means to exclude; the next `sync` restores both. (`url`.)
* `manager.go:2552` refuses a build when `running > maxJobsPerUser` and counts before
  the new job is added: one more than the message at 2553 says is admitted.
* `sync` replaces the entry of a running cluster by one built from the ProwJob, which
  has no credentials (1101): until the goroutine it starts has read them again, `auth`
  says the cluster is still starting (`docs/FAQ.md:27` says auth shows them).
* `finishedJob` clears the channel of its own copy to "ensure we send no further
  notifications" (2789); the annotation of the ProwJob survives a worker that failed, and
  `sync` reports the failure again.

GCP access

* `GrantAccess` looks for an active grant only in `grantsCache` (`gcp_access.go:318`),
  which is empty after a restart; a user with a grant gets a second account, and revoke,
  which answers "has been revoked successfully", removes one of them. (`gcp_revokes`
  with `MaxRestarts = 1`: `RevokedHasNone`.)
* Between the expiry of a grant and the hourly cleanup its binding is still there.
  A user who asks again gets a second account; after its revoke a second `revoke` finds
  the expired binding and `GetUserGrant` writes it into the cache (774), over the grant
  that the user may have asked for meanwhile. That grant is forgotten: the next one gets another
  account, and "has been revoked successfully" leaves the forgotten one bound until it
  expires. (`gcp_revokes` with `lapsed` and one user, who then has all four accounts:
  `RevokedHasNone`.)
* The owner of an account is decoded from its name (799): the encoding of '.' and '-' is
  not reversible for names with "dot" or "dash" between separators, and long names are cut.

ROSA

* A cluster that is created after the list of a rosaSync and registered before that rosaSync
  reads the secret has an entry there and is not in the list: its operator roles and its
  provider are removed while it installs (`manager.go:835`). The comment at 696 names this very
  damage as what an empty list must not do. When the roles are made after the removal, they
  stay without an entry. (`LiveKeepsResources`, `ResourcesAreRecorded` without `\ overtaken`.)
* The same list replaces the cache (829) in which the next creation counts the clusters (3112):
  one more is admitted than `rosaClusterLimit`, the "Maximum number of ROSA clusters that can
  exist at the same time" (`main.go:145`). A creation that waits for the lock gets it when
  rosaSync gives up its read lock to take the write lock (827), so that the order is not a
  rare one. Likewise its owner may get a second cluster, and its error may be told twice.
  (`SeenWithinLimit`, `OnePerUser`, `ErrorToldOnce` without `\ overtaken`.)
* Commands before the first rosaSync of a process find an empty cache and go beyond the
  limit, and beyond one cluster per user. (`early`: `SeenWithinLimit` without `hasty`,
  `OnePerUser`.)
* When `GetIdentityProviders` fails once, the goroutine sends what the secret has, or
  nothing; the cache then says ready and no further goroutine is started: the user is
  never told, or after a restart told again, against "don't renotify users" (729).
  (`idps`.) The same holds for an expired cluster whose deletion fails.
* A crash between the identity provider and the secret loses the password; the next
  goroutine finds the provider and takes the user for told (the ghost `lost`).
* Two `rosa create` of one user at once both pass the checks. (`twice`: `OnePerUser`.)

MCE

* A `Get` of a ClusterDeployment that fails makes mceSync take the cluster for stale and
  delete it, although per-cluster failures are meant to be harmless. (`get`:
  `LiveIsKept`.)
* `createManagedCluster` makes the ManagedCluster first and the ClusterDeployment with later
  calls. A mceSync in between, from its ticker or started by another command, lists the one
  without the other, finds no job that names the cluster and deletes it as stale
  (`manager.go:520`), although the answer says "Cluster will be alive for %d minutes" (2911).
  This takes no failure, only a mceSync at that time; the runs let a mceSync list clusters when
  no creation is half done. (`window`: `LiveIsKept`.)
* After a restart mceSync may look for jobs before the first sync has read them and
  deletes clusters that wait for their images. (`early`.)
* When a sync comes again before a mceSync has seen the deployment it made, the imageset
  exists already and the cluster is deleted. (`slow`.)
* A refused annotation repeats the readiness message. (`conflict`.) A partial deletion
  may be followed by a new deployment. (`part`.)
* When reads of the provision fail from the first, failed, attempt until the second is
  complete, the cached one is kept, and what is sent of the available cluster is the old
  failure; the cluster then counts as notified. (`provision`.)
* An installation that fails before mceSync has seen it run is not new to it and is never
  told. A failed image build is told again by every sync until its cluster is gone, and
  not again when Slack refuses the message.
* The limits count the cache of the last mceSync, and the limit of a platform is checked
  before an empty platform becomes aws.

Slack

* `recover.go:9` promises that "a bug in a single modal interaction can never crash the
  whole bot process"; `OverwriteView` reads the response of a failed `UpdateView`
  (`handlers.go:117`), which is nil after a network error, and two handlers run it in a
  plain `go` statement (`step_handlers.go:127`, `:198`). (`network`: the variable `crashed`.)
* A field that the user empties after going back keeps its old value, because an absent
  key does not overwrite the metadata. (`clear`: `RequestIsChosen`.) The comment of
  `clearForwardSelections` says that it removes the keys of the target step, too; it
  keeps them.
* When an overwrite lands before Slack has shown "Processing", the user stays with that
  view. (`race`.)
* `MceCreate` checks the wrong variable for more than one platform, and several count as
  none. The help of `mce` mentions `mce describe` and an order of arguments that do not exist.
* `auth` and `mce auth` answer with an empty text, which Slack refuses; `postResponse`
  retries it for 20 seconds.
* The help on launch says "Options can be omitted (defaults: `hypershift-hosted`,`amd64`)"
  (`message_handler.go:268`) and "`launch 4.19` - Default: latest 4.19 on `hypershift-hosted`
  `amd64`" (306), and the dialog "Architecture (Default - amd64)" (`launch/views.go:69`). In
  both places the default with `hypershift-hosted` is `multi` (`slack.go:737`,
  `step_handlers.go:233`), and `amd64` is refused there; `LaunchFits` and `RequestFits` state
  what the code does.
* The example of `workflow-launch` (`slack.go:181`) ends in `4.19 gcp`; `BuildJobParams` takes
  only KEY=VALUE for parameters and refuses it.
* A message that Slack delivers twice is run twice; a repeated launch is refused by the
  job manager, a repeated build is not.

## 7. Not modelled, and what could follow

Resolution of releases and jobs, the editing of ci-operator configurations and operator
catalogs transform data without state and reach the rest only by failing or not; start-up,
metrics, the home view and mentions have no behaviour to check. `list`, `lookup`,
`describe` and `auth` only read.

Not proved, and perhaps within reach of the prover: bounds on what the excluded faults
can do (for instance how many clusters above the limit a command before the first sync admits).
