----------------------------- MODULE JobManager -----------------------------
(***************************************************************************)
(* The job manager of the bot (pkg/manager/manager.go, prow.go): the maps  *)
(* `requests` and `jobs` behind m.lock, the goroutines that follow a job,  *)
(* the five-minute sync loop that rebuilds the maps from the ProwJobs, and *)
(* the user commands launch, done and refresh.                             *)
(*                                                                         *)
(* A member of Jobs stands for one request: the name resolveToJob gives it *)
(* (a timestamp), with the user (RequestedBy) and mode it never changes.   *)
(* Durations become deadlines: ExpiresAt names a deadline and `passed`     *)
(* holds the deadlines of a job that lie before time.Now().                *)
(***************************************************************************)
EXTENDS Naturals, FiniteSets

CONSTANTS
    Users,          \* Slack users
    Jobs,           \* names of jobs, each used by at most one request
    LaunchJobs,     \* the jobs of mode launch or workflow-launch
    RequestedBy,    \* the user who asks for a job
    Channels,       \* the jobs whose request names a channel to notify
    MaxClusters,    \* m.maxClusters
    MaxJobsPerUser, \* maxJobsPerUser
    Faults,         \* what the environment may do in a run (see below)
    Clock,          \* the deadlines that may pass in a run
    MaxWaiting,     \* bound on the goroutines of a job waiting to run
    MaxRestarts,    \* bound on the restarts of the bot
    Nil             \* a missing map entry

(***************************************************************************)
(* What the environment may do beyond the ordinary:                        *)
(*   create     newJob fails before or while creating the ProwJob          *)
(*   url        reading the ProwJob back after its creation fails          *)
(*   api        a call of a worker to the API servers fails                *)
(*   slow       a wait of a worker or of newJob reaches its time limit     *)
(*   unreachable  a ready cluster does not answer for half an hour         *)
(*   patch      clearing the channel annotation fails                      *)
(*   delay      a goroutine that was started runs only later               *)
(*   stale      the informer lags behind the API server                    *)
(*   scheduler  Prow's scheduler is enabled: a ProwJob starts "scheduling" *)
(*   abort      somebody aborts a ProwJob without the bot                  *)
(*   refresh    a user says refresh                                        *)
(*   impatient  a user says done before launch has been answered           *)
(*   lag        the pod has ended and the ProwJob does not say so yet      *)
(*   early      commands are served before the first sync of a new process *)
(***************************************************************************)
AllFaults == {"create", "url", "api", "slow", "unreachable", "patch", "delay",
              "stale", "scheduler", "abort", "refresh", "impatient", "lag", "early"}

JobStates == {"pending", "success", "failure", "aborted"}
ProwStates == JobStates \cup {"scheduling", "triggered"}
Unfinished == {"scheduling", "triggered", "pending"}
Deadlines == {"age", "completed", "terminated", "request"}
PodStates == {"none", "running", "ready", "ended", "gone"}
Messages == {"ready", "succeeded", "failed", "running"}

\* The fields of type Job that the control flow reads; a string field is
\* TRUE when it is not empty.
JobRecord == [State: JobStates, Credentials: BOOLEAN, Failure: BOOLEAN,
              Complete: BOOLEAN, RequestedChannel: BOOLEAN,
              ExpiresAt: Deadlines \ {"request"}]

\* A ProwJob: its status, and whether the channel annotation is still set.
ProwRecord == [state: ProwStates, channel: BOOLEAN]

Phases == {"idle", "create", "url", "poll", "results", "pod", "setup",
           "reach", "clear", "finish"}
WorkerRecord == [pc: Phases, job: JobRecord \cup {Nil}, shared: BOOLEAN]

ASSUME JobManagerAssumption ==
    /\ IsFiniteSet(Jobs)
    /\ LaunchJobs \subseteq Jobs
    /\ Channels \subseteq Jobs
    /\ RequestedBy \in [Jobs -> Users]
    /\ MaxClusters \in Nat \ {0}
    /\ MaxJobsPerUser \in Nat
    /\ Faults \subseteq AllFaults
    /\ Clock \subseteq Deadlines
    /\ MaxWaiting \in Nat \ {0}
    /\ MaxRestarts \in Nat
    /\ Nil \notin Jobs \cup JobRecord \cup ProwRecord

VARIABLES
    requests,   \* m.requests: user -> name of the requested cluster
    jobs,       \* m.jobs: name -> Job
    worker,     \* the goroutine in m.muJob.running for a name, and its copy
    spawned,    \* go handleJobStartup(copy), before tryJob
    finishing,  \* go finishedJob(copy) started by sync
    term,       \* done: the name read by clusterDetailsForUser, once stopped
    booted,     \* the first sync of this process has run
    restarts,   \* restarts of the bot so far
    used,       \* names given to a request
    prow,       \* the ProwJobs on the API server
    lister,     \* the informer's copy of them
    pod,        \* the pod of a ProwJob and the cluster it installs
    passed,     \* the deadlines of a job that have passed
    sent,       \* what the requester of a job has been told of it
    released    \* jobs of which done said they are flagged for shutdown

botVars == <<requests, jobs, worker, spawned, finishing, term, booted>>
prowVars == <<prow, lister, pod, passed>>
ghosts == <<sent, released>>
vars == <<botVars, restarts, used, prowVars, ghosts>>

TypeOK ==
    /\ requests \in [Users -> Jobs \cup {Nil}]
    /\ jobs \in [Jobs -> JobRecord \cup {Nil}]
    /\ worker \in [Jobs -> WorkerRecord]
    /\ spawned \in [Jobs -> SUBSET JobRecord]
    /\ finishing \in [Jobs -> SUBSET JobRecord]
    /\ term \in [Users -> Jobs \cup {Nil}]
    /\ booted \in BOOLEAN
    /\ restarts \in 0..MaxRestarts
    /\ used \subseteq Jobs
    /\ prow \in [Jobs -> ProwRecord \cup {Nil}]
    /\ lister \in [Jobs -> ProwRecord \cup {Nil}]
    /\ pod \in [Jobs -> PodStates]
    /\ passed \in [Jobs -> SUBSET Deadlines]
    /\ sent \in [Jobs -> SUBSET Messages]
    /\ released \subseteq Jobs

-----------------------------------------------------------------------------
(* Helpers *)

IsComplete(job) == job.Complete \/ job.Credentials \/ job.State # "pending"

\* The Job object resolveToJob builds for a request.
resolveToJob(j) == [State |-> "pending", Credentials |-> FALSE,
                    Failure |-> FALSE, Complete |-> FALSE,
                    RequestedChannel |-> j \in Channels, ExpiresAt |-> "age"]

IdleWorker == [pc |-> "idle", job |-> Nil, shared |-> FALSE]
WorkerAt(pc, job) == [pc |-> pc, job |-> job, shared |-> FALSE]

\* A job counts against maxClusters while it is neither complete nor failed.
LaunchedClusters(js) ==
    {j \in LaunchJobs : js[j] # Nil /\ ~js[j].Complete /\ ~js[j].Failure}

RunningJobs(u) ==
    {j \in Jobs \ LaunchJobs : jobs[j] # Nil /\ RequestedBy[j] = u}

\* jobIsComplete: the in-memory entry says the job is over.
jobIsComplete(j) == jobs[j] # Nil /\ IsComplete(jobs[j])

\* jobIsComplete also copies what sync or done recorded into the worker's job.
AdoptCompletion(j, job) ==
    [job EXCEPT !.State = jobs[j].State, !.Complete = jobs[j].Complete]

HasURL(j) == prow[j].state \notin {"scheduling", "triggered"}

\* Goroutines run as soon as they are started, unless delays are allowed.
Prompt == "delay" \in Faults \/ \A j \in Jobs : spawned[j] = {} /\ finishing[j] = {}

\* Commands are served once the process has synced, or before if allowed.
Serving == Prompt /\ (booted \/ "early" \in Faults)

-----------------------------------------------------------------------------
(* LaunchJobForUser *)

\* Mutant: only a cluster that is up stands in the way.
RefusesSecondMutant(u) == /\ requests[u] # Nil
                          /\ jobs[requests[u]] # Nil
                          /\ jobs[requests[u]].Credentials

\* The user's previous request stands in the way of a new cluster.
RefusesSecond(u) ==
    /\ requests[u] # Nil
    /\ jobs[requests[u]] # Nil
    /\ jobs[requests[u]].Credentials \/ ~jobs[requests[u]].Failure

\* A failed cluster is forgotten before its owner asks for another.
ForgetFailed(u) ==
    IF requests[u] # Nil THEN [jobs EXCEPT ![requests[u]] = Nil] ELSE jobs

Admit(j, js) ==
    /\ jobs' = [js EXCEPT ![j] = resolveToJob(j)]
    /\ worker' = [worker EXCEPT ![j] =
                     [pc |-> "create", job |-> resolveToJob(j), shared |-> TRUE]]

\* The critical section for a cluster; it records the request before it
\* counts, and keeps it when no cluster is available.
LaunchCluster(j) ==
    LET u == RequestedBy[j]
        js == ForgetFailed(u)
    IN /\ Serving
       /\ j \in LaunchJobs \ used
       /\ ~RefusesSecond(u)
       /\ used' = used \cup {j}
       /\ requests' = [requests EXCEPT ![u] = j]
       /\ IF Cardinality(LaunchedClusters(js)) >= MaxClusters
          THEN jobs' = js /\ UNCHANGED worker
          ELSE Admit(j, js)
       /\ UNCHANGED <<spawned, finishing, term, booted, restarts, prowVars, ghosts>>

\* The critical section for a build, test, upgrade or catalog job.
LaunchOther(j) ==
    /\ Serving
    /\ j \in Jobs \ (LaunchJobs \cup used)
    /\ ~(Cardinality(RunningJobs(RequestedBy[j])) > MaxJobsPerUser)
    /\ used' = used \cup {j}
    /\ Admit(j, jobs)
    /\ UNCHANGED <<requests, spawned, finishing, term, booted, restarts,
                   prowVars, ghosts>>

\* newJob creates the ProwJob while it holds the worker slot of the name.
CreateProwJob(j) ==
    /\ Prompt
    /\ worker[j].pc = "create"
    /\ \E state \in {"triggered"} \cup
                    (IF "scheduler" \in Faults THEN {"scheduling"} ELSE {}) :
          prow' = [prow EXCEPT ![j] =
                      [state |-> state, channel |-> worker[j].job.RequestedChannel]]
    /\ worker' = [worker EXCEPT ![j].pc = "url"]
    /\ UNCHANGED <<requests, jobs, spawned, finishing, term, booted, restarts,
                   used, lister, pod, passed, ghosts>>

\* newJob returned an error: forget the request of the user and the job.
LaunchCleanup(j) ==
    /\ Prompt
    /\ requests' = [requests EXCEPT ![RequestedBy[j]] = Nil]
    /\ jobs' = [jobs EXCEPT ![j] = Nil]
    /\ worker' = [worker EXCEPT ![j] = IdleWorker]
    /\ UNCHANGED <<spawned, finishing, term, booted, restarts, used, prowVars, ghosts>>

NewJobFails(j) ==
    \/ "create" \in Faults /\ worker[j].pc = "create" /\ LaunchCleanup(j)
    \/ "url" \in Faults /\ worker[j].pc = "url" /\ LaunchCleanup(j)

\* The URL is there: newJob returns and handleJobStartup gets a copy.
NewJobReturns(j) ==
    /\ Prompt
    /\ worker[j].pc = "url"
    /\ HasURL(j)
    /\ worker' = [worker EXCEPT ![j] = IdleWorker]
    /\ spawned' = [spawned EXCEPT ![j] = @ \cup {worker[j].job}]
    /\ UNCHANGED <<requests, jobs, finishing, term, booted, restarts, used,
                   prowVars, ghosts>>

\* Five minutes without a URL: nothing is deleted and nobody follows the job.
NewJobTimesOut(j) ==
    /\ Prompt
    /\ "slow" \in Faults
    /\ worker[j].pc = "url"
    /\ ~HasURL(j)
    /\ worker' = [worker EXCEPT ![j] = IdleWorker]
    /\ UNCHANGED <<requests, jobs, spawned, finishing, term, booted, restarts,
                   used, prowVars, ghosts>>

-----------------------------------------------------------------------------
(* handleJobStartup: tryJob, waitForJob, finishedJob, finishJob *)

\* Only the worker of j moves, to phase pc with the copy job.
Step(j, pc, job) ==
    /\ Prompt
    /\ worker' = [worker EXCEPT ![j] = WorkerAt(pc, job)]
    /\ UNCHANGED <<requests, jobs, spawned, finishing, term, booted, restarts,
                   used, prowVars, ghosts>>

\* waitForJob gives up with an error that becomes job.Failure.
Fail(j) == Step(j, "finish", [worker[j].job EXCEPT !.Failure = TRUE])

\* A poll found the job complete: errJobCompleted, which is no failure.
Completed(j) ==
    /\ jobIsComplete(j)
    /\ Step(j, "finish", AdoptCompletion(j, worker[j].job))

\* A goroutine gets the slot of its name, or returns when there is a worker.
\* A job that is complete with its credentials needs no waiting.
StartWorker(j) ==
    \E job \in spawned[j] :
       /\ spawned' = [spawned EXCEPT ![j] = @ \ {job}]
       /\ worker' = IF worker[j].pc # "idle" THEN worker
                    ELSE [worker EXCEPT ![j] =
                            WorkerAt(IF job.Credentials THEN "finish" ELSE "poll", job)]
       /\ UNCHANGED <<requests, jobs, finishing, term, booted, restarts, used,
                      prowVars, ghosts>>

\* The job with the outcome of a ProwJob that has ended.
Outcome(j, job) == [job EXCEPT !.State = prow[j].state,
                               !.Failure = prow[j].state # "success"]

\* The first loop of waitForJob: until the ProwJob has ended or has a URL.
PollProwJob(j) ==
    /\ worker[j].pc = "poll"
    /\ \/ Completed(j)
       \/ /\ ~jobIsComplete(j)
          /\ \/ /\ prow[j].state \notin Unfinished
                /\ Step(j, IF prow[j].channel THEN "clear" ELSE "finish",
                        Outcome(j, worker[j].job))
             \/ /\ prow[j].state = "pending"
                /\ IF IsComplete(worker[j].job)
                   THEN Step(j, IF prow[j].channel THEN "clear" ELSE "finish",
                             worker[j].job)
                   ELSE Step(j, IF j \in LaunchJobs THEN "pod" ELSE "results",
                             worker[j].job)
             \/ "slow" \in Faults /\ ~HasURL(j) /\ Step(j, "finish", worker[j].job)
             \/ "api" \in Faults /\ Fail(j)

\* The loop of a job that is no cluster: until the ProwJob has ended.
AwaitResults(j) ==
    /\ worker[j].pc = "results"
    /\ \/ Completed(j)
       \/ /\ ~jobIsComplete(j)
          /\ \/ /\ prow[j].state \notin Unfinished
                /\ Step(j, "clear", Outcome(j, worker[j].job))
             \/ "slow" \in Faults /\ prow[j].state \in Unfinished /\ Fail(j)
             \/ "api" \in Faults /\ Fail(j)

\* A cluster: until its pod exists.
AwaitPod(j) ==
    /\ worker[j].pc = "pod"
    /\ \/ Completed(j)
       \/ /\ ~jobIsComplete(j)
          /\ \/ pod[j] \in {"running", "ready"} /\ Step(j, "setup", worker[j].job)
             \/ pod[j] \in {"ended", "gone"} /\ Fail(j)
             \/ "api" \in Faults /\ Fail(j)

\* "cluster never became available": give up quietly while the ProwJob runs
\* (the sync loop will start another worker), fail otherwise.
NeverAvailable(j) ==
    \/ prow[j].state \in Unfinished /\ Step(j, "idle", Nil)
    \/ (prow[j].state \notin Unfinished \/ "api" \in Faults) /\ Fail(j)

\* Until the installer has published console.url in the step secret.
AwaitSetup(j) ==
    /\ worker[j].pc = "setup"
    /\ \/ Completed(j)
       \/ /\ ~jobIsComplete(j)
          /\ \/ pod[j] = "ready" /\ Step(j, "reach", worker[j].job)
             \/ pod[j] = "ended" /\ Step(j, "finish", worker[j].job)
             \/ pod[j] = "gone" /\ NeverAvailable(j)
             \/ "slow" \in Faults /\ pod[j] = "running" /\ NeverAvailable(j)
             \/ "api" \in Faults /\ NeverAvailable(j)

\* Read the kubeconfig, then wait for the cluster to answer.
AwaitReachable(j) ==
    /\ worker[j].pc = "reach"
    /\ \/ /\ jobIsComplete(j)
          /\ Step(j, "clear", AdoptCompletion(j, worker[j].job))
       \/ /\ ~jobIsComplete(j) /\ pod[j] = "ready"
          /\ Step(j, "clear", [worker[j].job EXCEPT !.Credentials = TRUE])
       \/ /\ ~jobIsComplete(j) /\ ("unreachable" \in Faults \/ pod[j] # "ready")
          /\ Step(j, "clear", [worker[j].job EXCEPT !.Failure = TRUE])
       \/ ("api" \in Faults \/ pod[j] # "ready") /\ Fail(j)

clearNotificationAnnotations(j) ==
    /\ Prompt
    /\ worker[j].pc = "clear"
    /\ worker' = [worker EXCEPT ![j].pc = "finish"]
    /\ \/ prow' = [prow EXCEPT ![j].channel = FALSE]
       \/ "patch" \in Faults /\ UNCHANGED prow
    /\ UNCHANGED <<requests, jobs, spawned, finishing, term, booted, restarts,
                   used, lister, pod, passed, ghosts>>

\* Mutant: only a cluster with credentials and a failure are worth a message.
JobResponderMutant(j, job) == job.Credentials \/ job.Failure

\* JobResponder stays silent about a job with no outcome. (A job that is no
\* cluster reaches finishedJob without a URL only when the wait for its URL
\* timed out, and then its state is still pending.)
JobResponder(j, job) == IF j \in LaunchJobs THEN job.Credentials \/ job.Failure
                        ELSE job.Failure \/ job.State # "pending"

\* NotifyJob: a cluster is ready or failed to launch, another job succeeded,
\* failed (or was aborted), or is running still when its worker gave up.
NotifyJob(j, job) ==
    CASE j \in LaunchJobs    -> IF job.Failure THEN "failed" ELSE "ready"
      [] j \notin LaunchJobs -> CASE job.State = "success" -> "succeeded"
                                  [] job.State = "pending" -> "running"
                                  [] OTHER                 -> "failed"

finishedJob(j, job) ==
    /\ sent' = IF job.RequestedChannel /\ JobResponder(j, job)
               THEN [sent EXCEPT ![j] = @ \cup {NotifyJob(j, job)}] ELSE sent
    /\ jobs' = [jobs EXCEPT ![j] = [job EXCEPT !.RequestedChannel = FALSE]]
    /\ UNCHANGED <<requests, spawned, term, booted, restarts, used, prowVars, released>>

\* The worker reports and gives its slot back (finishedJob, then finishJob).
FinishWorker(j) ==
    /\ Prompt
    /\ worker[j].pc = "finish"
    /\ finishedJob(j, worker[j].job)
    /\ worker' = [worker EXCEPT ![j] = IdleWorker]
    /\ UNCHANGED finishing

\* The goroutine that sync starts for a ProwJob that has just ended.
FinishFromSync(j) ==
    \E job \in finishing[j] :
       /\ finishing' = [finishing EXCEPT ![j] = @ \ {job}]
       /\ finishedJob(j, job)
       /\ worker' = [worker EXCEPT ![j].shared = FALSE]

-----------------------------------------------------------------------------
(* sync *)

\* What the informer's lister returns for a name.
Listed(j) == IF "stale" \in Faults THEN lister[j] ELSE prow[j]

\* Mutant: the state of the ProwJob is copied as it is.
FromProwJobRawState(j) ==
    [State |-> Listed(j).state, Credentials |-> FALSE,
     Failure |-> Listed(j).state = "failure",
     Complete |-> Listed(j).state \in {"success", "failure"},
     RequestedChannel |-> Listed(j).channel, ExpiresAt |-> "age"]

\* Mutant: a ProwJob that has only been triggered falls into the other case.
FromProwJobTriggered(j) ==
    [State |-> "pending", Credentials |-> FALSE,
     Failure |-> Listed(j).state = "failure", Complete |-> Listed(j).state # "pending",
     RequestedChannel |-> Listed(j).channel, ExpiresAt |-> "age"]

\* The Job object sync builds from the informer's ProwJob.
FromProwJob(j) ==
    LET s == Listed(j).state
        over == s \in {"success", "failure"}
    IN [State |-> IF s \in Unfinished THEN "pending" ELSE s,
        Credentials |-> FALSE, Failure |-> s = "failure", Complete |-> over,
        RequestedChannel |-> Listed(j).channel,
        ExpiresAt |-> IF over THEN "completed" ELSE "age"]

\* The ProwJobs sync reflects into memory: aborted ones match no case.
Reflected == {j \in Jobs : /\ Listed(j) # Nil
                           /\ Listed(j).state # "aborted"
                           /\ FromProwJob(j).ExpiresAt \notin passed[j]}

Pending == {j \in Reflected : Listed(j).state \in Unfinished}

\* Mutant: sync restores no request.
UnclaimedMutant(u) == {}

\* The clusters for which sync may restore a missing request of user u.
Unclaimed(u) == {j \in Pending \cap LaunchJobs :
                    RequestedBy[j] = u /\ (jobs[j] = Nil \/ ~jobs[j].Complete)}

\* The request of u after the loop over the ProwJobs, in any order.
Claims(u) == IF requests[u] # Nil THEN {requests[u]}
             ELSE IF Unclaimed(u) = {} THEN {Nil} ELSE Unclaimed(u)

\* Mutant: sync starts a worker only for a job it did not know.
NeedsWorkerMutant(j) == j \in Pending /\ jobs[j] = Nil

\* handleJobStartup is started for a job that is new or not complete.
NeedsWorker(j) == /\ j \in Pending
                  /\ \/ jobs[j] = Nil
                     \/ jobs[j].State # "pending"
                     \/ ~IsComplete(jobs[j])

\* Mutant: sync reports only a job it did not know.
NeedsFinishMutant(j) == j \in Reflected \ Pending /\ jobs[j] = Nil

\* finishedJob is started for a job whose outcome is new.
NeedsFinish(j) == /\ j \in Reflected \ Pending
                  /\ jobs[j] = Nil \/ jobs[j].State # Listed(j).state

\* Forget everything that is too old.
Unexpired(j, job) == IF job # Nil /\ job.ExpiresAt \in passed[j] THEN Nil ELSE job

\* Mutant: requests never expire.
UnexpiredRequestMutant(r) == r

UnexpiredRequest(r) == IF r # Nil /\ "request" \in passed[r] THEN Nil ELSE r

SyncJobs == [j \in Jobs |->
                Unexpired(j, IF j \in Reflected THEN FromProwJob(j) ELSE jobs[j])]

\* Five minutes between two passes: the goroutines of the last one have run.
FewWaiting == \A j \in Jobs : Cardinality(spawned[j] \cup finishing[j]) < MaxWaiting

Sync ==
    /\ Prompt
    /\ FewWaiting
    /\ jobs' = SyncJobs
    /\ \E claim \in [Users -> Jobs \cup {Nil}] :
          /\ \A u \in Users : claim[u] \in Claims(u)
          /\ requests' = [u \in Users |-> UnexpiredRequest(claim[u])]
    /\ spawned' = [j \in Jobs |-> IF NeedsWorker(j)
                                  THEN spawned[j] \cup {FromProwJob(j)}
                                  ELSE spawned[j]]
    /\ finishing' = [j \in Jobs |-> IF NeedsFinish(j)
                                    THEN finishing[j] \cup {FromProwJob(j)}
                                    ELSE finishing[j]]
    /\ worker' = [j \in Jobs |-> IF j \in Reflected
                                 THEN [worker[j] EXCEPT !.shared = FALSE]
                                 ELSE worker[j]]
    /\ booted' = TRUE
    /\ UNCHANGED <<term, restarts, used, prowVars, ghosts>>

-----------------------------------------------------------------------------
(* TerminateJobForUser (done) and SyncJobForUser (refresh) *)

MarkAborted(j) == prow' = [prow EXCEPT ![j].state = "aborted"]

\* Mutant: the ProwJob is not marked aborted.
stopJobMutant(j) == UNCHANGED prow

\* stopJob without an error: no ProwJob, no pod to stop, or the ProwJob aborted.
stopJob(j) ==
    \/ prow[j] = Nil /\ UNCHANGED prow
    \/ /\ prow[j] # Nil
       /\ pod[j] \in {"none", "gone"} /\ prow[j].state # "triggered"
       /\ UNCHANGED prow
    \/ prow[j] # Nil /\ pod[j] \notin {"none", "gone"} /\ MarkAborted(j)

\* clusterDetailsForUser, then stopJob; an error of stopJob ends the command.
TerminateStop(u) ==
    LET j == requests[u]
    IN /\ Serving
       /\ term[u] = Nil
       /\ j # Nil
       /\ jobs[j] # Nil
       /\ worker[j].pc \in {"create", "url"} => "impatient" \in Faults
       /\ stopJob(j)
       /\ term' = [term EXCEPT ![u] = j]
       /\ UNCHANGED <<requests, jobs, worker, spawned, finishing, booted, restarts,
                      used, lister, pod, passed, ghosts>>

Terminated(job) ==
    [job EXCEPT !.Failure = TRUE, !.Complete = TRUE, !.ExpiresAt = "terminated"]

\* Mutant: the request is cleared whatever it is by now.
TerminateMarkMutant(u) ==
    /\ Prompt
    /\ term[u] # Nil
    /\ term' = [term EXCEPT ![u] = Nil]
    /\ jobs' = IF jobs[term[u]] = Nil THEN jobs
               ELSE [jobs EXCEPT ![term[u]] = Terminated(@)]
    /\ requests' = [requests EXCEPT ![u] = Nil]
    /\ UNCHANGED <<worker, spawned, finishing, booted, restarts, used, prowVars, ghosts>>

\* The second critical section: mark the job, clear the request if it is
\* still the one that was stopped. LaunchJobForUser may hold the same object.
TerminateMark(u) ==
    LET j == term[u]
    IN /\ Prompt
       /\ j # Nil
       /\ term' = [term EXCEPT ![u] = Nil]
       /\ jobs' = IF jobs[j] = Nil THEN jobs ELSE [jobs EXCEPT ![j] = Terminated(@)]
       /\ worker' = IF jobs[j] # Nil /\ worker[j].shared
                    THEN [worker EXCEPT ![j].job = Terminated(@)] ELSE worker
       /\ IF requests[u] = j
          THEN /\ requests' = [requests EXCEPT ![u] = Nil]
               /\ released' = released \cup {j}
          ELSE UNCHANGED <<requests, released>>
       /\ UNCHANGED <<spawned, finishing, booted, restarts, used, prowVars, sent>>

SyncJobForUser(u) ==
    LET j == requests[u]
    IN /\ Serving
       /\ "refresh" \in Faults
       /\ j # Nil
       /\ jobs[j] # Nil
       /\ jobs[j].Failure \/ jobs[j].Credentials
       /\ Cardinality(spawned[j]) < MaxWaiting
       /\ spawned' = [spawned EXCEPT ![j] = @ \cup {[jobs[j] EXCEPT !.Failure = FALSE]}]
       /\ UNCHANGED <<requests, jobs, worker, finishing, term, booted, restarts,
                      used, prowVars, ghosts>>

-----------------------------------------------------------------------------
(* The environment: Prow, the informer, the clock and the process itself *)

Prow(j, state, p) ==
    /\ Prompt
    /\ prow' = [prow EXCEPT ![j].state = state]
    /\ pod' = [pod EXCEPT ![j] = p]
    /\ UNCHANGED <<botVars, restarts, used, lister, passed, ghosts>>

\* Prow schedules a job, starts its pod, installs a cluster, ends the pod
\* and then the ProwJob, and removes the pod of an aborted job.
ProwStep(j) ==
    /\ prow[j] # Nil
    /\ \/ prow[j].state = "scheduling" /\ Prow(j, "triggered", "none")
       \/ prow[j].state = "triggered" /\ Prow(j, "pending", "running")
       \/ /\ prow[j].state = "pending" /\ pod[j] = "running" /\ j \in LaunchJobs
          /\ Prow(j, "pending", "ready")
       \/ /\ prow[j].state = "pending" /\ pod[j] \in {"running", "ready"}
          /\ "lag" \in Faults /\ Prow(j, "pending", "ended")
       \/ /\ prow[j].state = "pending"
          /\ \E s \in {"success", "failure"} : Prow(j, s, "ended")
       \/ /\ prow[j].state = "aborted" /\ pod[j] \in {"running", "ready", "ended"}
          /\ \E p \in {"ended", "gone"} : p # pod[j] /\ Prow(j, "aborted", p)
       \/ /\ "abort" \in Faults /\ prow[j].state \in {"triggered", "pending"}
          /\ Prow(j, "aborted", pod[j])

\* The informer delivers the current version of a ProwJob.
Deliver(j) ==
    /\ Prompt
    /\ "stale" \in Faults
    /\ lister[j] # prow[j]
    /\ lister' = [lister EXCEPT ![j] = prow[j]]
    /\ UNCHANGED <<botVars, restarts, used, prow, pod, passed, ghosts>>

\* Which deadlines of a job are set and can be the next to pass.
Due(j) == {d \in Clock \ passed[j] :
             CASE d = "age"        -> j \in used /\ worker[j].pc \notin {"create", "url"}
               [] d = "request"    -> "age" \in passed[j]
               [] d = "completed"  -> prow[j] # Nil /\ prow[j].state \notin Unfinished
               [] d = "terminated" -> jobs[j] # Nil /\ jobs[j].ExpiresAt = d}

TimePasses(j) ==
    /\ Prompt
    /\ \E d \in Due(j) : passed' = [passed EXCEPT ![j] = @ \cup {d}]
    /\ UNCHANGED <<botVars, restarts, used, prow, lister, pod, ghosts>>

\* The bot dies; the new process waits for the informer and knows nothing.
Restart ==
    /\ Prompt
    /\ restarts < MaxRestarts
    /\ restarts' = restarts + 1
    /\ requests' = [u \in Users |-> Nil]
    /\ jobs' = [j \in Jobs |-> Nil]
    /\ worker' = [j \in Jobs |-> IdleWorker]
    /\ spawned' = [j \in Jobs |-> {}]
    /\ finishing' = [j \in Jobs |-> {}]
    /\ term' = [u \in Users |-> Nil]
    /\ booted' = FALSE
    /\ lister' = IF "stale" \in Faults THEN prow ELSE lister
    /\ UNCHANGED <<used, prow, pod, passed, ghosts>>

-----------------------------------------------------------------------------
Init ==
    /\ requests = [u \in Users |-> Nil]
    /\ jobs = [j \in Jobs |-> Nil]
    /\ worker = [j \in Jobs |-> IdleWorker]
    /\ spawned = [j \in Jobs |-> {}]
    /\ finishing = [j \in Jobs |-> {}]
    /\ term = [u \in Users |-> Nil]
    /\ booted = FALSE
    /\ restarts = 0
    /\ used = {}
    /\ prow = [j \in Jobs |-> Nil]
    /\ lister = [j \in Jobs |-> Nil]
    /\ pod = [j \in Jobs |-> "none"]
    /\ passed = [j \in Jobs |-> {}]
    /\ sent = [j \in Jobs |-> {}]
    /\ released = {}

NewJob(j) == \/ CreateProwJob(j) \/ NewJobFails(j)
             \/ NewJobReturns(j) \/ NewJobTimesOut(j)

waitForJob(j) == \/ PollProwJob(j) \/ AwaitResults(j) \/ AwaitPod(j)
                 \/ AwaitSetup(j) \/ AwaitReachable(j)
                 \/ clearNotificationAnnotations(j)

Goroutine(j) == StartWorker(j) \/ FinishFromSync(j)

Next ==
    \/ \E j \in Jobs : \/ LaunchCluster(j) \/ LaunchOther(j) \/ NewJob(j)
                       \/ Goroutine(j) \/ waitForJob(j) \/ FinishWorker(j)
                       \/ ProwStep(j) \/ Deliver(j) \/ TimePasses(j)
    \/ \E u \in Users : TerminateStop(u) \/ TerminateMark(u) \/ SyncJobForUser(u)
    \/ Sync
    \/ Restart

Spec == Init /\ [][Next]_vars

-----------------------------------------------------------------------------
(* Properties *)

\* A cluster the bot launched is up or coming up, within its lifetime.
Live(j) == /\ j \in LaunchJobs
           /\ prow[j] # Nil
           /\ prow[j].state \in Unfinished
           /\ pod[j] \notin {"ended", "gone"}
           /\ "age" \notin passed[j]

\* No user has two clusters at a time: the request map, the sync loop that
\* restores it and the checks of LaunchJobForUser together keep it so.
OneClusterPerUser ==
    \A j, k \in Jobs : Live(j) /\ Live(k) /\ RequestedBy[j] = RequestedBy[k] => j = k

\* There are never more clusters than maxClusters: every cluster that runs is
\* among those LaunchJobForUser counts.
ClustersWithinLimit == Cardinality({j \in Jobs : Live(j)}) <= MaxClusters

\* A job that memory calls failed or complete, whose slot is free and whose
\* owner may launch again, is really over.
OverMeansOver ==
    \A j \in Jobs : jobs[j] # Nil /\ (jobs[j].Failure \/ jobs[j].Complete) => ~Live(j)

\* After the first sync the bot knows every live cluster: it is its owner's
\* request, so that done finds it, and it is a job, so that it counts.
LiveIsKnown ==
    booted => \A j \in Jobs : Live(j) => requests[RequestedBy[j]] = j /\ jobs[j] # Nil

-----------------------------------------------------------------------------
(***************************************************************************)
(* Why there is one cluster per user. In an orderly environment newJob and *)
(* the calls of a worker do not fail or time out, done and the commands of *)
(* a new process wait their turn, and after a restart the state of every   *)
(* ProwJob tells whether its pod has ended. SlotInv relates what the bot   *)
(* remembers of a cluster to what runs.                                    *)
(***************************************************************************)

Orderly ==
    /\ Faults \cap {"create", "url", "api", "slow", "unreachable",
                  "scheduler", "impatient", "early"} = {}
    /\ "lag" \in Faults => MaxRestarts = 0

\* A cluster is live, or LaunchJobForUser is about to create its ProwJob.
Active(j) == j \in LaunchJobs /\ (worker[j].pc = "create" \/ Live(j))

\* A name no request has used is unknown everywhere.
FreshNames ==
    \A j \in Jobs \ used :
       /\ jobs[j] = Nil /\ worker[j] = IdleWorker
       /\ spawned[j] = {} /\ finishing[j] = {}
       /\ prow[j] = Nil /\ lister[j] = Nil /\ passed[j] = {}
       /\ \A u \in Users : requests[u] # j /\ term[u] # j

\* What Prow guarantees of the pod of a ProwJob.
PodsFollow ==
    \A j \in Jobs :
       /\ prow[j] = Nil => pod[j] = "none"
       /\ prow[j] # Nil =>
             /\ prow[j].state # "scheduling"
             /\ prow[j].state = "triggered" => pod[j] = "none"
             /\ prow[j].state = "pending" => pod[j] \in {"running", "ready", "ended"}
             /\ prow[j].state = "pending" /\ pod[j] = "ended" => "lag" \in Faults

\* The informer may be late, but a job it shows as over is over.
ListerLags ==
    \A j \in Jobs : lister[j] # Nil /\ lister[j].state \notin Unfinished
                       => prow[j].state \notin Unfinished

\* A job whose ProwJob does not exist yet is young; requests outlive jobs; a
\* worker reads credentials of a cluster that has been ready.
Progress ==
    \A j \in Jobs :
       /\ worker[j].pc = "create" => prow[j] = Nil /\ "age" \notin passed[j]
       /\ "request" \in passed[j] => "age" \in passed[j]
       /\ worker[j].pc = "reach" => pod[j] \in {"ready", "ended", "gone"}

\* The copies of a job: the map entry and what goroutines carry.
Copies(j) == ({jobs[j], worker[j].job} \ {Nil}) \cup spawned[j] \cup finishing[j]

Unended(job) == ~job.Failure /\ ~job.Complete /\ job.ExpiresAt = "age"

\* No copy calls a cluster that is active failed, complete or about to expire.
CopiesAgree == \A j \in Jobs : Active(j) => \A c \in Copies(j) : Unended(c)

\* done has stopped the cluster it is about to mark.
StoppedIsOver == \A u \in Users : term[u] # Nil => ~Active(term[u])

\* After the first sync an active cluster is in both maps.
ActiveIsKnown ==
    booted => \A j \in Jobs : Active(j) => requests[RequestedBy[j]] = j /\ jobs[j] # Nil

\* The informer shows a cluster of a user that sync would claim.
Claimable(j) == /\ j \in LaunchJobs
                /\ Listed(j) # Nil
                /\ Listed(j).state \in Unfinished
                /\ "age" \notin passed[j]

\* Before the first sync the bot knows nothing and the informer everything.
BlankStart ==
    ~booted =>
       /\ requests = [u \in Users |-> Nil] /\ term = [u \in Users |-> Nil]
       /\ \A j \in Jobs : /\ jobs[j] = Nil /\ worker[j] = IdleWorker
                          /\ spawned[j] = {} /\ finishing[j] = {}
                          /\ prow[j] # Nil => Listed(j) # Nil
       /\ \A j, k \in {i \in Jobs : Active(i) \/ Claimable(i)} :
             RequestedBy[j] = RequestedBy[k] => j = k

SlotInv == /\ FreshNames /\ PodsFollow /\ ListerLags /\ Progress /\ CopiesAgree
           /\ StoppedIsOver /\ ActiveIsKnown /\ BlankStart

\* The manager implements ClusterSlots: a cluster holds a slot while it is
\* active. LaunchJobForUser alone gives slots, to a fresh name, within the
\* limits; no sync, restart, late worker or refresh brings a cluster back.
Slots == INSTANCE ClusterSlots WITH
            Clusters <- LaunchJobs, OwnedBy <- RequestedBy, Limit <- MaxClusters,
            held <- {j \in LaunchJobs : Active(j)}, taken <- used \cap LaunchJobs

ImplementsClusterSlots == Slots!Spec

-----------------------------------------------------------------------------
(* Liveness: the goroutines of the bot run and the informer delivers. The   *)
(* ticker of Start runs sync again and again; FewWaiting only delays it.    *)

Fairness ==
    /\ SF_vars(Sync)
    /\ \A j \in Jobs : /\ WF_vars(StartWorker(j))
                       /\ WF_vars(FinishFromSync(j))
                       /\ WF_vars(NewJob(j))
                       /\ WF_vars(waitForJob(j))
                       /\ WF_vars(FinishWorker(j))
                       /\ WF_vars(Deliver(j))
    /\ \A u \in Users : WF_vars(TerminateMark(u))

\* A failure of the API servers does not last: each wait of a worker for a
\* cluster that is ready succeeds if it is tried again and again.
RetriesSucceed ==
    \A j \in Jobs :
       /\ \A pc \in {"pod", "setup", "reach"} :
             SF_vars(waitForJob(j) /\ worker'[j].pc = pc)
       /\ SF_vars(AwaitReachable(j) /\ worker'[j].job.Credentials)

FairSpec == Spec /\ Fairness /\ RetriesSucceed

\* Time passes as well.
TimedSpec == Spec /\ Fairness /\ \A j \in Jobs : WF_vars(TimePasses(j))

\* The owner of a cluster that is ready is sent its credentials, unless the
\* cluster ends or is given up first ("I'll send you the credentials when the
\* cluster is ready"): whatever fails on the way, some later worker sends them.
ReadyIsReported ==
    \A j \in Channels \cap LaunchJobs :
       Live(j) /\ pod[j] = "ready" ~> "ready" \in sent[j] \/ ~Live(j) \/ j \in released

\* The outcome of a job is reported: that a build or test passed or failed, a
\* cluster that failed unless it was up before or its owner gave it up with done.
OutcomeIsReported ==
    /\ \A j \in Channels \ LaunchJobs, s \in {"success", "failure"} :
          prow[j] # Nil /\ prow[j].state = s
          ~> (IF s = "success" THEN "succeeded" ELSE "failed") \in sent[j]
    /\ \A j \in Channels \cap LaunchJobs :
          prow[j] # Nil /\ prow[j].state = "failure" ~> sent[j] # {} \/ j \in released

\* Everything about a job is forgotten in the end, whatever became of it.
AllForgotten ==
    \A j \in Jobs : j \in used ~> [](jobs[j] = Nil /\ requests[RequestedBy[j]] # j)
=============================================================================
