------------------------ MODULE JobManagerSlotProofs ------------------------
(***************************************************************************)
(* In an orderly environment a user has one cluster and all users together *)
(* have at most maxClusters: SlotInv is inductive. Every lemma of the form *)
(* <action>SlotInv says that the action keeps it. The last part shows that *)
(* the job manager then implements ClusterSlots.                           *)
(***************************************************************************)
EXTENDS JobManagerProofs

-----------------------------------------------------------------------------
(* One cluster per user, in an orderly environment *)

\* No step but a launch makes a cluster active.
NoNewCluster == \A j \in Jobs : Active(j)' => Active(j)

\* A cluster runs that the informer will show as running.
ListerCatchesUp(j) == /\ j \in LaunchJobs /\ prow[j] # Nil
                      /\ prow[j].state \in Unfinished /\ "age" \notin passed[j]

\* CopiesAgree, one kind of copy at a time.
LEMMA CopiesAgreeParts ==
    ASSUME TypeInv
    PROVE  CopiesAgree <=>
             \A j \in Jobs : Active(j) =>
                /\ jobs[j] # Nil => Unended(jobs[j])
                /\ worker[j].job # Nil => Unended(worker[j].job)
                /\ \A c \in spawned[j] : Unended(c)
                /\ \A c \in finishing[j] : Unended(c)
  BY DEF CopiesAgree, Copies

\* The same of the next state.
LEMMA CopiesAgreePartsPrime ==
    ASSUME TypeInv'
    PROVE  CopiesAgree' <=>
             \A j \in Jobs : Active(j)' =>
                /\ jobs'[j] # Nil => Unended(jobs'[j])
                /\ worker'[j].job # Nil => Unended(worker'[j].job)
                /\ \A c \in spawned'[j] : Unended(c)
                /\ \A c \in finishing'[j] : Unended(c)
  BY DEF CopiesAgree, Copies

\* A worker moves and nothing else: a cluster that is active is still told
\* from one that is over.
LEMMA StepSlotInv ==
    ASSUME TypeInv, TypeInv', SlotInv, NEW j \in Jobs, NEW pc \in Phases, NEW job,
           worker[j].pc \notin {"idle", "create"}, pc # "create",
           pc = "reach" => pod[j] \in {"ready", "ended", "gone"},
           Active(j) /\ job # Nil => Unended(job),
           Step(j, pc, job)
    PROVE  SlotInv' /\ NoNewCluster
<1>1. /\ worker' = [worker EXCEPT ![j] = WorkerAt(pc, job)]
      /\ WorkerAt(pc, job).pc = pc /\ WorkerAt(pc, job).job = job
      /\ UNCHANGED <<requests, jobs, spawned, finishing, term, booted, restarts,
                     used, prow, lister, pod, passed>>
  BY DEF Step, WorkerAt, prowVars
<1>2. \A k \in Jobs : /\ worker'[k].pc = "create" <=> worker[k].pc = "create"
                      /\ Live(k)' <=> Live(k)
  BY <1>1 DEF TypeInv, TypeOK, Live
<1>3. \A k \in Jobs : Active(k)' <=> Active(k)
  BY <1>2 DEF Active
<1>4. booted /\ booted'
  BY <1>1, IdleWorkerType DEF SlotInv, BlankStart
<1>5. FreshNames' /\ BlankStart'
  BY <1>4 DEF TypeInv, BlankStart
<1>6. PodsFollow' /\ ListerLags'
  BY <1>1 DEF SlotInv, PodsFollow, ListerLags
<1>7. Progress'
  BY <1>1 DEF SlotInv, Progress, TypeInv, TypeOK
<1>8. CopiesAgree'
  <2>1. \A k \in Jobs : Active(k) =>
           /\ jobs[k] # Nil => Unended(jobs[k])
           /\ worker[k].job # Nil => Unended(worker[k].job)
           /\ \A c \in spawned[k] : Unended(c)
           /\ \A c \in finishing[k] : Unended(c)
    BY CopiesAgreeParts DEF SlotInv
  <2>2. \A k \in Jobs : Active(k) /\ worker'[k].job # Nil => Unended(worker'[k].job)
    BY <1>1, <2>1 DEF TypeInv, TypeOK
  <2> QED
    BY <1>1, <1>3, <2>1, <2>2, CopiesAgreePartsPrime
<1>9. StoppedIsOver' /\ ActiveIsKnown'
  BY <1>1, <1>3, <1>4 DEF SlotInv, StoppedIsOver, ActiveIsKnown, TypeInv, TypeOK
<1> QED
  BY <1>3, <1>5, <1>6, <1>7, <1>8, <1>9 DEF SlotInv, NoNewCluster

\* The copies of an active cluster, as StepSlotInv and its like need them.
LEMMA ActiveCopies ==
    ASSUME TypeInv, SlotInv, NEW j \in Jobs, Active(j)
    PROVE  /\ jobs[j] # Nil => Unended(jobs[j])
           /\ worker[j].job # Nil => Unended(worker[j].job)
           /\ \A c \in spawned[j] : Unended(c)
           /\ \A c \in finishing[j] : Unended(c)
  BY CopiesAgreeParts DEF SlotInv

\* An active cluster whose worker is past newJob has a ProwJob that runs.
LEMMA ActiveRuns ==
    ASSUME TypeInv, NEW j \in Jobs, Active(j), worker[j].pc # "create"
    PROVE  /\ prow[j] # Nil /\ prow[j].state \in Unfinished
           /\ pod[j] \notin {"ended", "gone"} /\ "age" \notin passed[j]
  BY DEF Active, Live

\* Setting fields that do not say that a job is over.
LEMMA StillUnended ==
    ASSUME NEW job \in JobRecord, Unended(job)
    PROVE  /\ Unended([job EXCEPT !.Credentials = TRUE])
           /\ Unended([job EXCEPT !.RequestedChannel = FALSE])
           /\ Unended([job EXCEPT !.Failure = FALSE])
  BY DEF Unended, JobRecord

\* No poll of waitForJob, ending in an outcome or an error, calls a live cluster over.
LEMMA WaitSlotInv ==
    ASSUME Orderly, TypeInv, TypeInv', SlotInv, NEW j \in Jobs,
           \/ PollProwJob(j) \/ AwaitResults(j) \/ AwaitPod(j)
           \/ AwaitSetup(j) \/ AwaitReachable(j)
    PROVE  SlotInv' /\ NoNewCluster
<1> DEFINE job == worker[j].job
<1>1. job \in JobRecord /\ prow[j] # Nil /\ worker[j].pc \notin {"idle", "create"}
  BY Following DEF PollProwJob, AwaitResults, AwaitPod, AwaitSetup, AwaitReachable
<1>2. "slow" \notin Faults /\ "api" \notin Faults /\ "unreachable" \notin Faults
  BY DEF Orderly
<1>3. Active(j) => /\ Unended(job) /\ prow[j].state \in Unfinished
                   /\ pod[j] \notin {"ended", "gone"}
                   /\ Unended([job EXCEPT !.Credentials = TRUE])
  BY <1>1, ActiveCopies, ActiveRuns, StillUnended, NilIsNothing
<1>4. Active(j) /\ jobIsComplete(j) => Unended(AdoptCompletion(j, job))
  <2> SUFFICES ASSUME Active(j), jobIsComplete(j) PROVE Unended(AdoptCompletion(j, job))
    OBVIOUS
  <2>1. Unended(job) /\ Unended(jobs[j]) /\ jobs[j] \in JobRecord
    BY <1>3, ActiveCopies DEF jobIsComplete, TypeInv, TypeOK
  <2> QED
    BY <1>1, <2>1 DEF AdoptCompletion, Unended, JobRecord
<1>5. worker[j].pc = "reach" => pod[j] \in {"ready", "ended", "gone"}
  BY DEF SlotInv, Progress
<1>6. \E pc \in Phases \ {"create"}, copy \in JobRecord \cup {Nil} :
         /\ Step(j, pc, copy)
         /\ pc = "reach" => pod[j] \in {"ready", "ended", "gone"}
         /\ Active(j) /\ copy # Nil => Unended(copy)
  <2> HIDE DEF job
  <2>0. job = worker[j].job
    BY DEF job
  <2>1. /\ jobIsComplete(j) => AdoptCompletion(j, job) \in JobRecord
        /\ [job EXCEPT !.Failure = TRUE] \in JobRecord
        /\ [job EXCEPT !.Credentials = TRUE] \in JobRecord
        /\ prow[j].state \notin Unfinished => Outcome(j, job) \in JobRecord
    BY <1>1, WorkerCopies
  <2>3. {"idle", "finish", "clear", "pod", "results", "setup", "reach"} \subseteq Phases \ {"create"}
    BY DEF Phases
  <2>4. CASE PollProwJob(j)
    BY <2>0, <2>1, <2>3, <2>4, <1>1, <1>2, <1>3, <1>4 DEF PollProwJob, Completed, Fail
  <2>5. CASE AwaitResults(j)
    BY <2>0, <2>1, <2>3, <2>5, <1>1, <1>2, <1>3, <1>4 DEF AwaitResults, Completed, Fail
  <2>6. CASE AwaitPod(j)
    BY <2>0, <2>1, <2>3, <2>6, <1>1, <1>2, <1>3, <1>4 DEF AwaitPod, Completed, Fail
  <2>7. CASE AwaitSetup(j)
    BY <2>0, <2>1, <2>3, <2>7, <1>1, <1>2, <1>3, <1>4
    DEF AwaitSetup, Completed, Fail, NeverAvailable
  <2>8. CASE AwaitReachable(j)
    BY <2>0, <2>1, <2>3, <2>8, <1>1, <1>2, <1>3, <1>4, <1>5 DEF AwaitReachable, Fail
  <2> QED
    BY <2>4, <2>5, <2>6, <2>7, <2>8
<1> QED
  BY <1>1, <1>6, StepSlotInv

\* Launching a cluster is refused while the user's cluster is active.
LEMMA LaunchClusterSlotInv ==
    ASSUME Orderly, TypeInv, TypeInv', SlotInv, NEW j \in Jobs, LaunchCluster(j)
    PROVE  /\ SlotInv'
           /\ \A k \in Jobs : Active(k)' => Active(k) \/ k = j
           /\ Active(j)' => Cardinality(LaunchedClusters(ForgetFailed(RequestedBy[j]))) < MaxClusters
           /\ \A k \in Jobs : Active(k) => ForgetFailed(RequestedBy[j])[k] = jobs[k]
           /\ \A k \in Jobs : Active(k) => Active(k)' /\ RequestedBy[k] # RequestedBy[j]
           /\ booted
<1> DEFINE u == RequestedBy[j]
           js == ForgetFailed(u)
           wc == [pc |-> "create", job |-> resolveToJob(j), shared |-> TRUE]
<1>1. /\ u \in Users /\ j \notin used /\ ~RefusesSecond(u) /\ booted /\ j \in LaunchJobs
      /\ requests' = [requests EXCEPT ![u] = j]
      /\ UNCHANGED <<spawned, finishing, term, booted, restarts, prow, lister, pod, passed>>
  BY JobManagerAssumption DEF LaunchCluster, Serving, Orderly, prowVars
<1>2. /\ wc.pc = "create" /\ wc.job = resolveToJob(j) /\ Unended(resolveToJob(j))
      /\ resolveToJob(j) # Nil
  BY ResolveType, NilIsNothing DEF Unended, resolveToJob
<1>3. \/ jobs' = js /\ worker' = worker
      \/ /\ jobs' = [js EXCEPT ![j] = resolveToJob(j)]
         /\ worker' = [worker EXCEPT ![j] = wc]
         /\ ~(Cardinality(LaunchedClusters(js)) >= MaxClusters)
  BY DEF LaunchCluster, Admit
<1>4. /\ jobs[j] = Nil /\ worker[j].pc = "idle" /\ spawned[j] = {} /\ finishing[j] = {}
      /\ prow[j] = Nil /\ passed[j] = {} /\ \A v \in Users : term[v] # j
  BY <1>1, IdleWorkerType DEF TypeInv, FreshNames
<1>5. ~Active(j)
  BY <1>4 DEF Active, Live
<1>6. \A k \in Jobs : Active(k) => /\ requests[RequestedBy[k]] = k /\ jobs[k] # Nil
                                   /\ Unended(jobs[k]) /\ RequestedBy[k] # u
  <2> TAKE k \in Jobs
  <2> HAVE Active(k)
  <2>1. requests[RequestedBy[k]] = k /\ jobs[k] # Nil /\ Unended(jobs[k])
    BY <1>1, ActiveCopies DEF SlotInv, ActiveIsKnown
  <2> QED
    BY <1>1, <2>1, NilIsNothing DEF RefusesSecond, Unended
<1>7. \A k \in Jobs : Active(k) => js[k] = jobs[k]
  BY <1>1, <1>6, NilIsNothing DEF ForgetFailed, TypeInv, TypeOK, OwnRequest
<1>8. js \in [Jobs -> JobRecord \cup {Nil}]
  BY <1>1, ForgetFailedType
<1> HIDE DEF js, wc
<1>9. \A k \in Jobs : Active(k)' => Active(k) \/ (k = j /\ worker' # worker)
  BY <1>1, <1>3 DEF Active, Live, TypeInv, TypeOK
<1>10. FreshNames' /\ BlankStart'
  BY <1>1 DEF TypeInv, BlankStart
<1>11. PodsFollow' /\ ListerLags'
  BY <1>1 DEF SlotInv, PodsFollow, ListerLags
<1>12. Progress'
  BY <1>1, <1>2, <1>3, <1>4 DEF SlotInv, Progress, TypeInv, TypeOK
<1>13. CopiesAgree'
  <2> SUFFICES ASSUME NEW k \in Jobs, Active(k)'
               PROVE  /\ jobs'[k] # Nil => Unended(jobs'[k])
                      /\ worker'[k].job # Nil => Unended(worker'[k].job)
                      /\ \A c \in spawned'[k] : Unended(c)
                      /\ \A c \in finishing'[k] : Unended(c)
    BY CopiesAgreePartsPrime
  <2>1. CASE k = j
    BY <1>1, <1>2, <1>3, <1>4, <1>5, <1>8, <1>9, <2>1 DEF TypeInv, TypeOK
  <2>2. CASE k # j
    BY <1>1, <1>3, <1>6, <1>7, <1>8, <1>9, <2>2, ActiveCopies DEF TypeInv, TypeOK
  <2> QED
    BY <2>1, <2>2
<1>14. StoppedIsOver'
  BY <1>1, <1>4, <1>9 DEF SlotInv, StoppedIsOver, TypeInv, TypeOK
<1>15. ActiveIsKnown'
  <2> SUFFICES ASSUME NEW k \in Jobs, Active(k)'
               PROVE  requests'[RequestedBy[k]] = k /\ jobs'[k] # Nil
    BY DEF ActiveIsKnown
  <2>1. CASE k = j
    BY <1>1, <1>2, <1>3, <1>5, <1>8, <1>9, <2>1 DEF TypeInv, TypeOK, u
  <2>2. CASE k # j
    BY <1>1, <1>3, <1>6, <1>7, <1>8, <1>9, <2>2, JobManagerAssumption DEF TypeInv, TypeOK
  <2> QED
    BY <2>1, <2>2
<1>16. Active(j)' => Cardinality(LaunchedClusters(js)) < MaxClusters
  <2> SUFFICES ASSUME Active(j)' PROVE Cardinality(LaunchedClusters(js)) < MaxClusters
    OBVIOUS
  <2>1. ~(Cardinality(LaunchedClusters(js)) >= MaxClusters)
    BY <1>3, <1>5, <1>9
  <2>2. LaunchedClusters(js) \subseteq Jobs
    BY JobManagerAssumption DEF LaunchedClusters
  <2>3. Cardinality(LaunchedClusters(js)) \in Nat
    BY <2>2, JobManagerAssumption, FS_Subset, FS_CardinalityType
  <2> QED
    BY <2>1, <2>3, JobManagerAssumption
<1>17. \A k \in Jobs : Active(k) => Active(k)' /\ RequestedBy[k] # u
  BY <1>1, <1>3, <1>5, <1>6 DEF Active, Live, TypeInv, TypeOK
<1> QED
  BY <1>1, <1>7, <1>9, <1>10, <1>11, <1>12, <1>13, <1>14, <1>15, <1>16, <1>17
  DEF SlotInv, js

\* A job that is no cluster does not count.
LEMMA LaunchOtherSlotInv ==
    ASSUME Orderly, TypeInv, TypeInv', SlotInv, NEW j \in Jobs, LaunchOther(j)
    PROVE  SlotInv' /\ NoNewCluster
<1> DEFINE wc == [pc |-> "create", job |-> resolveToJob(j), shared |-> TRUE]
<1>1. /\ j \notin used /\ j \notin LaunchJobs /\ booted
      /\ UNCHANGED <<requests, spawned, finishing, term, booted, restarts,
                     prow, lister, pod, passed>>
      /\ jobs' = [jobs EXCEPT ![j] = resolveToJob(j)]
      /\ worker' = [worker EXCEPT ![j] = wc]
      /\ wc.pc = "create"
  BY DEF LaunchOther, Admit, Serving, Orderly, prowVars
<1> HIDE DEF wc
<1>2. prow[j] = Nil /\ passed[j] = {}
  BY <1>1 DEF TypeInv, FreshNames
<1>3. \A k \in Jobs : Active(k)' <=> Active(k)
  BY <1>1 DEF Active, Live, TypeInv, TypeOK
<1>4. \A k \in Jobs : Active(k) => k # j /\ jobs'[k] = jobs[k] /\ worker'[k] = worker[k]
  BY <1>1 DEF Active, TypeInv, TypeOK
<1>5. FreshNames' /\ BlankStart'
  BY <1>1 DEF TypeInv, BlankStart
<1>6. PodsFollow' /\ ListerLags'
  BY <1>1 DEF SlotInv, PodsFollow, ListerLags
<1>7. Progress'
  BY <1>1, <1>2 DEF SlotInv, Progress, TypeInv, TypeOK
<1>8. CopiesAgree'
  BY <1>1, <1>3, <1>4, ActiveCopies, CopiesAgreePartsPrime
<1>9. StoppedIsOver' /\ ActiveIsKnown'
  BY <1>1, <1>3, <1>4 DEF SlotInv, StoppedIsOver, ActiveIsKnown, TypeInv, TypeOK
<1> QED
  BY <1>3, <1>5, <1>6, <1>7, <1>8, <1>9 DEF SlotInv, NoNewCluster

\* The ProwJob comes into being for a cluster that was already active.
LEMMA CreateProwJobSlotInv ==
    ASSUME Orderly, TypeInv, TypeInv', SlotInv, NEW j \in Jobs, CreateProwJob(j)
    PROVE  SlotInv' /\ NoNewCluster
<1> DEFINE pj == [state |-> "triggered", channel |-> worker[j].job.RequestedChannel]
<1>1. /\ worker[j].pc = "create"
      /\ prow' = [prow EXCEPT ![j] = pj] /\ pj.state = "triggered"
      /\ UNCHANGED <<requests, jobs, spawned, finishing, term, booted, restarts,
                     used, lister, pod, passed>>
  BY DEF CreateProwJob, Orderly
<1>2. \A k \in Jobs : /\ worker'[k].pc = IF k = j THEN "url" ELSE worker[k].pc
                      /\ worker'[k].job = worker[k].job
  BY DEF CreateProwJob, TypeInv, TypeOK, WorkerRecord
<1>3. prow[j] = Nil /\ pod[j] = "none" /\ lister[j] = Nil /\ "age" \notin passed[j]
  BY <1>1 DEF SlotInv, Progress, PodsFollow, TypeInv, ProwJobExists
<1> HIDE DEF pj
<1>4. booted
  BY <1>1, IdleWorkerType DEF SlotInv, BlankStart
<1>5. \A k \in Jobs : Active(k)' => Active(k)
  BY <1>1, <1>2 DEF Active, Live, TypeInv, TypeOK
<1>6. FreshNames' /\ BlankStart'
  BY <1>1, <1>4 DEF TypeInv, BlankStart
<1>7. PodsFollow'
  BY <1>1, <1>3 DEF SlotInv, PodsFollow, TypeInv, TypeOK
<1>8. ListerLags'
  BY <1>1, <1>3 DEF SlotInv, ListerLags, TypeInv, TypeOK
<1>9. Progress'
  BY <1>1, <1>2 DEF SlotInv, Progress, TypeInv, TypeOK
<1>10. CopiesAgree'
  BY <1>1, <1>2, <1>5, ActiveCopies, CopiesAgreePartsPrime
<1>11. StoppedIsOver' /\ ActiveIsKnown'
  BY <1>1, <1>5 DEF SlotInv, StoppedIsOver, ActiveIsKnown, TypeInv, TypeOK
<1> QED
  BY <1>5, <1>6, <1>7, <1>8, <1>9, <1>10, <1>11 DEF SlotInv, NoNewCluster

\* The steps that touch only copies of a job: the lemma for those that start
\* or end a goroutine.
LEMMA CopiesSlotInv ==
    ASSUME TypeInv, TypeInv', SlotInv, booted,
           UNCHANGED <<booted, prow, lister, pod, passed>>,
           \A v \in Users : term'[v] \in {term[v], Nil},
           \A k \in Jobs : /\ worker'[k].pc = "create" => worker[k].pc = "create"
                           /\ worker'[k].pc = "reach" => worker[k].pc = "reach",
           \A k \in Jobs : Active(k) =>
              /\ requests'[RequestedBy[k]] = requests[RequestedBy[k]]
              /\ jobs'[k] # Nil /\ Unended(jobs'[k])
              /\ worker'[k].job # Nil => Unended(worker'[k].job)
              /\ \A c \in spawned'[k] : Unended(c)
              /\ \A c \in finishing'[k] : Unended(c)
    PROVE  SlotInv' /\ NoNewCluster
<1>1. \A k \in Jobs : Active(k)' => Active(k)
  BY DEF Active, Live
<1>2. FreshNames' /\ BlankStart'
  BY DEF TypeInv, BlankStart
<1>3. PodsFollow' /\ ListerLags' /\ Progress'
  BY DEF SlotInv, PodsFollow, ListerLags, Progress
<1>4. CopiesAgree'
  BY <1>1, CopiesAgreePartsPrime
<1>5. StoppedIsOver' /\ ActiveIsKnown'
  BY <1>1 DEF SlotInv, StoppedIsOver, ActiveIsKnown, TypeInv, TypeOK
<1> QED
  BY <1>1, <1>2, <1>3, <1>4, <1>5 DEF SlotInv, NoNewCluster

\* What an active cluster looks like in memory after the first sync.
LEMMA ActiveInMemory ==
    ASSUME TypeInv, SlotInv, booted, NEW k \in Jobs, Active(k)
    PROVE  /\ jobs[k] # Nil /\ Unended(jobs[k]) /\ requests[RequestedBy[k]] = k
           /\ worker[k].job # Nil => Unended(worker[k].job)
           /\ \A c \in spawned[k] : Unended(c)
           /\ \A c \in finishing[k] : Unended(c)
  BY ActiveCopies DEF SlotInv, ActiveIsKnown

\* newJob hands a copy to handleJobStartup.
LEMMA NewJobReturnsSlotInv ==
    ASSUME Orderly, TypeInv, TypeInv', SlotInv, NEW j \in Jobs,
           NewJobReturns(j) \/ NewJobFails(j) \/ NewJobTimesOut(j)
    PROVE  SlotInv' /\ NoNewCluster
<1>1. /\ worker' = [worker EXCEPT ![j] = IdleWorker] /\ worker[j].pc = "url"
      /\ spawned' = [spawned EXCEPT ![j] = @ \cup {worker[j].job}]
      /\ UNCHANGED <<requests, jobs, finishing, term, booted, prow, lister, pod, passed>>
  BY DEF Orderly, NewJobReturns, NewJobFails, NewJobTimesOut, prowVars
<1>2. booted /\ worker[j].job # Nil
  BY <1>1, IdleWorkerType, Following, NilIsNothing DEF SlotInv, BlankStart
<1> QED
  BY <1>1, <1>2, IdleWorkerType, ActiveInMemory, CopiesSlotInv DEF TypeInv, TypeOK

\* A goroutine becomes the worker of its name or returns.
LEMMA StartWorkerSlotInv ==
    ASSUME TypeInv, TypeInv', SlotInv, NEW j \in Jobs, StartWorker(j)
    PROVE  SlotInv' /\ NoNewCluster
<1>1. PICK job \in spawned[j] :
         /\ spawned' = [spawned EXCEPT ![j] = @ \ {job}]
         /\ worker' = IF worker[j].pc # "idle" THEN worker
                      ELSE [worker EXCEPT ![j] =
                              WorkerAt(IF job.Credentials THEN "finish" ELSE "poll", job)]
         /\ UNCHANGED <<requests, jobs, finishing, term, booted, prow, lister, pod, passed>>
  BY DEF StartWorker, prowVars
<1> DEFINE wa == WorkerAt(IF job.Credentials THEN "finish" ELSE "poll", job)
<1>2. wa.pc \notin {"create", "reach"} /\ wa.job = job
  BY DEF WorkerAt
<1> HIDE DEF wa
<1>3. worker' = worker \/ worker' = [worker EXCEPT ![j] = wa]
  BY <1>1 DEF wa
<1>4. booted
  BY DEF SlotInv, BlankStart
<1> QED
  BY <1>1, <1>2, <1>3, <1>4, ActiveInMemory, CopiesSlotInv DEF TypeInv, TypeOK

\* Memory takes over the copy of a goroutine, which does not call an active
\* cluster over.
LEMMA FinishSlotInv ==
    ASSUME TypeInv, TypeInv', SlotInv, NEW j \in Jobs,
           FinishWorker(j) \/ FinishFromSync(j)
    PROVE  SlotInv' /\ NoNewCluster
<1>1. PICK job \in JobRecord :
         /\ finishedJob(j, job)
         /\ job \in finishing[j] \/ job = worker[j].job
         /\ \A k \in Jobs : finishing'[k] \subseteq finishing[k]
         /\ \A k \in Jobs : /\ worker'[k].pc \in {worker[k].pc, "idle"}
                            /\ worker'[k].job \in {worker[k].job, Nil}
  <2>1. CASE FinishWorker(j)
    BY <2>1, Following, IdleWorkerType DEF FinishWorker, TypeInv, TypeOK
  <2>2. CASE FinishFromSync(j)
    <3>1. /\ finishing \in [Jobs -> SUBSET JobRecord]
          /\ worker \in [Jobs -> [pc: Phases, job: JobRecord \cup {Nil}, shared: BOOLEAN]]
      BY DEF TypeInv, TypeOK, WorkerRecord
    <3>2. PICK job \in finishing[j] :
             /\ finishing' = [finishing EXCEPT ![j] = @ \ {job}]
             /\ finishedJob(j, job)
             /\ worker' = [worker EXCEPT ![j].shared = FALSE]
      BY <2>2 DEF FinishFromSync
    <3>3. job \in JobRecord /\ \A k \in Jobs : finishing'[k] \subseteq finishing[k]
      BY <3>1, <3>2
    <3>4. \A k \in Jobs : worker'[k].pc = worker[k].pc /\ worker'[k].job = worker[k].job
      BY <3>1, <3>2
    <3> QED
      BY <3>2, <3>3, <3>4
  <2> QED
    BY <2>1, <2>2
<1> DEFINE told == [job EXCEPT !.RequestedChannel = FALSE]
<1>2. /\ jobs' = [jobs EXCEPT ![j] = told]
      /\ UNCHANGED <<requests, spawned, term, booted, prow, lister, pod, passed>>
  BY <1>1 DEF finishedJob, prowVars
<1>3. booted
  BY IdleWorkerType DEF SlotInv, BlankStart, FinishWorker, FinishFromSync
<1>4. told # Nil /\ (Active(j) => Unended(told))
  <2>1. told \in JobRecord /\ told # Nil
    BY WorkerCopies, NilIsNothing
  <2>2. Active(j) => Unended(job)
    BY <1>1, <1>3, ActiveInMemory, NilIsNothing
  <2> QED
    BY <2>1, <2>2, StillUnended
<1> HIDE DEF told
<1> QED
  BY <1>1, <1>2, <1>3, <1>4, ActiveInMemory, CopiesSlotInv DEF TypeInv, TypeOK

\* refresh hands out a copy whose failure is cleared.
LEMMA RefreshSlotInv ==
    ASSUME Orderly, TypeInv, TypeInv', SlotInv, NEW u \in Users, SyncJobForUser(u)
    PROVE  SlotInv' /\ NoNewCluster
<1> DEFINE j == requests[u]
           copy == [jobs[j] EXCEPT !.Failure = FALSE]
<1>1. /\ j \in Jobs /\ jobs[j] \in JobRecord /\ booted
      /\ spawned' = [spawned EXCEPT ![j] = @ \cup {copy}]
      /\ UNCHANGED <<requests, jobs, worker, finishing, term, booted,
                     prow, lister, pod, passed>>
  BY DEF SyncJobForUser, Serving, Orderly, TypeInv, TypeOK, prowVars
<1>2. Active(j) => Unended(copy)
  BY <1>1, ActiveInMemory, StillUnended
<1> HIDE DEF j, copy
<1> QED
  BY <1>1, <1>2, ActiveInMemory, CopiesSlotInv DEF TypeInv, TypeOK

\* done stops a cluster before it marks it.
LEMMA TerminateStopSlotInv ==
    ASSUME Orderly, TypeInv, TypeInv', SlotInv, NEW u \in Users, TerminateStop(u)
    PROVE  SlotInv' /\ NoNewCluster
<1>0. PICK j \in Jobs : j = requests[u]
  BY DEF TerminateStop, TypeInv, TypeOK
<1>1. /\ booted /\ worker[j].pc \notin {"create", "url"}
      /\ term' = [term EXCEPT ![u] = j] /\ stopJob(j)
      /\ UNCHANGED <<requests, jobs, worker, spawned, finishing, booted,
                     used, lister, pod, passed>>
  BY <1>0 DEF TerminateStop, Serving, Orderly
<1>2. prow' = prow \/ (prow[j] # Nil /\ prow' = [prow EXCEPT ![j].state = "aborted"])
  BY <1>1 DEF stopJob, MarkAborted
<1>3. \A k \in Jobs : /\ prow[k] = Nil <=> prow'[k] = Nil
                      /\ prow[k] # Nil => prow'[k].state \in {prow[k].state, "aborted"}
  <2> DEFINE pj == [prow[j] EXCEPT !.state = "aborted"]
  <2>1. prow[j] # Nil => pj # Nil /\ pj.state = "aborted"
    BY NilIsNothing DEF TypeInv, TypeOK, ProwRecord, ProwStates, JobStates
  <2>2. prow' = prow \/ (prow[j] # Nil /\ prow' = [prow EXCEPT ![j] = pj])
    BY <1>2
  <2> HIDE DEF pj
  <2> QED
    BY <2>1, <2>2 DEF TypeInv, TypeOK
<1>4. \A k \in Jobs : Active(k)' => Active(k)
  BY <1>1, <1>3 DEF Active, Live, Unfinished
<1>5. ~Active(j)'
  <2>1. CASE prow[j] = Nil
    BY <1>1, <1>3, <2>1 DEF Active, Live
  <2>2. CASE prow[j] # Nil /\ pod[j] \in {"none", "gone"} /\ prow[j].state # "triggered" /\ prow' = prow
    <3>1. prow[j].state \notin Unfinished
      BY <1>1, <2>2 DEF SlotInv, PodsFollow, Unfinished
    <3> QED
      BY <1>1, <2>2, <3>1 DEF Active, Live
  <2>3. CASE prow[j] # Nil /\ prow' = [prow EXCEPT ![j].state = "aborted"]
    <3>1. prow'[j].state = "aborted"
      BY <1>1, <2>3 DEF TypeInv, TypeOK, ProwRecord
    <3> QED
      BY <1>1, <3>1 DEF Active, Live, Unfinished
  <2> QED
    BY <1>1, <2>1, <2>2, <2>3 DEF stopJob, MarkAborted
<1>6. FreshNames' /\ BlankStart'
  BY <1>1 DEF TypeInv, BlankStart
<1>7. PodsFollow' /\ ListerLags' /\ Progress'
  <2>1. PodsFollow'
    BY <1>1, <1>3 DEF SlotInv, PodsFollow
  <2>2. ListerLags'
    BY <1>1, <1>3 DEF SlotInv, ListerLags, TypeInv, ProwJobExists, Unfinished
  <2>3. Progress'
    BY <1>1, <1>3 DEF SlotInv, Progress
  <2> QED
    BY <2>1, <2>2, <2>3
<1>8. CopiesAgree'
  BY <1>1, <1>4, ActiveCopies, CopiesAgreePartsPrime
<1>9. StoppedIsOver' /\ ActiveIsKnown'
  BY <1>1, <1>4, <1>5 DEF SlotInv, StoppedIsOver, ActiveIsKnown, TypeInv, TypeOK
<1> QED
  BY <1>4, <1>6, <1>7, <1>8, <1>9 DEF SlotInv, NoNewCluster

\* done marks a cluster that has been stopped.
LEMMA TerminateMarkSlotInv ==
    ASSUME TypeInv, TypeInv', SlotInv, NEW u \in Users, TerminateMark(u)
    PROVE  SlotInv' /\ NoNewCluster
<1>1. PICK j \in Jobs : j = term[u]
  BY DEF TerminateMark, TypeInv, TypeOK
<1>2. /\ term' = [term EXCEPT ![u] = Nil]
      /\ jobs' = IF jobs[j] = Nil THEN jobs ELSE [jobs EXCEPT ![j] = Terminated(@)]
      /\ worker' = IF jobs[j] # Nil /\ worker[j].shared
                   THEN [worker EXCEPT ![j].job = Terminated(@)] ELSE worker
      /\ requests' = IF requests[u] = j THEN [requests EXCEPT ![u] = Nil] ELSE requests
      /\ UNCHANGED <<spawned, finishing, booted, prow, lister, pod, passed>>
  BY <1>1 DEF TerminateMark, prowVars
<1>3. booted /\ ~Active(j)
  BY <1>1, NilIsNothing DEF SlotInv, BlankStart, StoppedIsOver
<1>4. \A k \in Jobs : /\ worker'[k].pc = worker[k].pc
                      /\ k # j => worker'[k] = worker[k] /\ jobs'[k] = jobs[k]
  BY <1>2 DEF TypeInv, TypeOK, WorkerRecord
<1>5. \A k \in Jobs : Active(k) => requests'[RequestedBy[k]] = requests[RequestedBy[k]]
  BY <1>2, <1>3, ActiveInMemory, JobManagerAssumption DEF TypeInv, TypeOK
<1> QED
  BY <1>2, <1>3, <1>4, <1>5, ActiveInMemory, CopiesSlotInv DEF TypeInv, TypeOK

\* Only the annotation of a ProwJob changes.
LEMMA ClearSlotInv ==
    ASSUME TypeInv, TypeInv', SlotInv, NEW j \in Jobs, clearNotificationAnnotations(j)
    PROVE  SlotInv' /\ NoNewCluster
<1>1. /\ worker[j].pc = "clear" /\ prow[j] # Nil
      /\ prow' = prow \/ prow' = [prow EXCEPT ![j].channel = FALSE]
      /\ UNCHANGED <<requests, jobs, spawned, finishing, term, booted, lister, pod, passed>>
  BY Following DEF clearNotificationAnnotations
<1>2. \A k \in Jobs : /\ worker'[k].pc = IF k = j THEN "finish" ELSE worker[k].pc
                      /\ worker'[k].job = worker[k].job
  BY DEF clearNotificationAnnotations, TypeInv, TypeOK, WorkerRecord
<1>3. \A k \in Jobs : /\ prow[k] = Nil <=> prow'[k] = Nil
                      /\ prow[k] # Nil => prow'[k].state = prow[k].state
  <2> DEFINE pj == [prow[j] EXCEPT !.channel = FALSE]
  <2>0. prow[j] \in ProwRecord
    BY <1>1 DEF TypeInv, TypeOK
  <2>1. pj \in ProwRecord /\ pj # Nil /\ pj.state = prow[j].state
    BY <2>0, NilIsNothing DEF ProwRecord
  <2>2. prow' = prow \/ prow' = [prow EXCEPT ![j] = pj]
    BY <1>1
  <2> HIDE DEF pj
  <2> QED
    BY <1>1, <2>1, <2>2 DEF TypeInv, TypeOK
<1>4. booted
  BY <1>1, IdleWorkerType DEF SlotInv, BlankStart
<1>5. \A k \in Jobs : Active(k)' => Active(k)
  BY <1>1, <1>2, <1>3 DEF Active, Live
<1>6. FreshNames' /\ BlankStart'
  BY <1>1, <1>4 DEF TypeInv, BlankStart
<1>7. PodsFollow'
  BY <1>1, <1>3 DEF SlotInv, PodsFollow
<1>8. ListerLags'
  BY <1>1, <1>3 DEF SlotInv, ListerLags, TypeInv, ProwJobExists
<1>9. Progress'
  BY <1>1, <1>2, <1>3 DEF SlotInv, Progress
<1>10. CopiesAgree'
  BY <1>1, <1>2, <1>5, ActiveCopies, CopiesAgreePartsPrime
<1>11. StoppedIsOver' /\ ActiveIsKnown'
  BY <1>1, <1>5 DEF SlotInv, StoppedIsOver, ActiveIsKnown, TypeInv, TypeOK
<1> QED
  BY <1>5, <1>6, <1>7, <1>8, <1>9, <1>10, <1>11 DEF SlotInv, NoNewCluster

\* What sync reads of a cluster that is active.
LEMMA ActiveListed ==
    ASSUME TypeInv, SlotInv, NEW k \in Jobs, Active(k)
    PROVE  /\ "age" \notin passed[k] /\ "request" \notin passed[k]
           /\ Listed(k) # Nil => /\ Listed(k).state \in Unfinished
                                 /\ Unended(FromProwJob(k))
<1>1. "age" \notin passed[k] /\ "request" \notin passed[k]
  BY DEF SlotInv, Progress, Active, Live
<1>2. ASSUME Listed(k) # Nil PROVE Listed(k).state \in Unfinished
  <2>1. prow[k] # Nil
    BY <1>2, FromProwJobType
  <2>2. prow[k].state \in Unfinished
    BY <2>1 DEF Active, Live, SlotInv, Progress
  <2> QED
    BY <1>2, <2>2 DEF Listed, SlotInv, ListerLags
<1>3. ASSUME Listed(k) # Nil PROVE Unended(FromProwJob(k))
  <2> DEFINE s == Listed(k).state
  <2>1. s \notin {"success", "failure"}
    BY <1>2, <1>3 DEF Unfinished
  <2>2. ~FromProwJob(k).Failure
    BY <2>1 DEF FromProwJob
  <2>3. ~FromProwJob(k).Complete
    BY <2>1 DEF FromProwJob
  <2>4. FromProwJob(k).ExpiresAt = "age"
    BY <2>1 DEF FromProwJob
  <2> QED
    BY <2>2, <2>3, <2>4 DEF Unended
<1> QED
  BY <1>1, <1>2, <1>3

\* The facts about one pass of sync that do not depend on the environment.
LEMMA SyncActive ==
    ASSUME TypeInv, SlotInv, Sync, NEW k \in Jobs, Active(k)
    PROVE  /\ jobs[k] # Nil \/ k \in Reflected => jobs'[k] # Nil /\ Unended(jobs'[k])
           /\ worker'[k].pc = worker[k].pc /\ worker'[k].job = worker[k].job
           /\ \A c \in spawned'[k] : Unended(c)
           /\ \A c \in finishing'[k] : Unended(c)
<1>1. k \in Reflected => Unended(FromProwJob(k)) /\ FromProwJob(k) # Nil
  BY ActiveListed, FromProwJobType, NilIsNothing DEF Reflected
<1>2. "age" \notin passed[k] /\ (jobs[k] # Nil => Unended(jobs[k]))
  BY ActiveListed, ActiveCopies
<1>3. jobs[k] # Nil \/ k \in Reflected => jobs'[k] # Nil /\ Unended(jobs'[k])
  BY <1>1, <1>2 DEF Sync, SyncJobs, Unexpired, Unended
<1>4. worker'[k].pc = worker[k].pc /\ worker'[k].job = worker[k].job
  BY DEF Sync, TypeInv, TypeOK, WorkerRecord
<1>5. \A c \in spawned'[k] : Unended(c)
  BY <1>1, ActiveCopies DEF Sync, NeedsWorker, Pending
<1>6. \A c \in finishing'[k] : Unended(c)
  BY <1>1, ActiveCopies DEF Sync, NeedsFinish
<1> QED
  BY <1>3, <1>4, <1>5, <1>6

\* sync restores what the bot forgot: a pass, the first one included, leaves
\* every active cluster in both maps.
LEMMA SyncSlotInv ==
    ASSUME TypeInv, TypeInv', SlotInv, Sync
    PROVE  SlotInv' /\ NoNewCluster
<1>1. booted' /\ UNCHANGED <<term, restarts, used, prow, lister, pod, passed>>
  BY DEF Sync, prowVars
<1>2. \A k \in Jobs : worker'[k].pc = worker[k].pc
  BY DEF Sync, TypeInv, TypeOK, WorkerRecord
<1>3. \A k \in Jobs : Active(k)' => Active(k)
  BY <1>1, <1>2 DEF Active, Live
<1>4. FreshNames' /\ BlankStart'
  BY <1>1 DEF TypeInv, BlankStart
<1>5. PodsFollow' /\ ListerLags' /\ Progress'
  BY <1>1, <1>2 DEF SlotInv, PodsFollow, ListerLags, Progress
<1>6. \A k \in Jobs : Active(k) => requests'[RequestedBy[k]] = k
                                   /\ (jobs[k] # Nil \/ k \in Reflected)
  <2> TAKE k \in Jobs
  <2> HAVE Active(k)
  <2> DEFINE u == RequestedBy[k]
  <2>1. u \in Users
    BY JobManagerAssumption
  <2>2. PICK claim \in [Users -> Jobs \cup {Nil}] :
           /\ \A v \in Users : claim[v] \in Claims(v)
           /\ requests' = [v \in Users |-> UnexpiredRequest(claim[v])]
    BY DEF Sync
  <2>3. "request" \notin passed[k] /\ "age" \notin passed[k]
    BY ActiveListed
  <2>4. CASE booted
    <3>1. requests[u] = k /\ jobs[k] # Nil
      BY <2>4 DEF SlotInv, ActiveIsKnown
    <3>2. claim[u] = k
      BY <2>1, <2>2, <3>1, NilIsNothing DEF Claims
    <3> QED
      BY <2>1, <2>2, <2>3, <3>1, <3>2 DEF UnexpiredRequest
  <2>5. CASE ~booted
    <3>1. requests[u] = Nil /\ jobs[k] = Nil /\ worker[k].pc = "idle"
      BY <2>1, <2>5, IdleWorkerType DEF SlotInv, BlankStart
    <3>2. k \in LaunchJobs /\ prow[k] # Nil
      BY <3>1 DEF Active, Live
    <3>3. Listed(k) # Nil /\ Listed(k).state \in Unfinished
      BY <2>5, <3>2, ActiveListed DEF SlotInv, BlankStart
    <3>4. k \in Pending
      BY <2>3, <3>3 DEF Pending, Reflected, FromProwJob, Unfinished
    <3>5. k \in Unclaimed(u)
      BY <3>1, <3>2, <3>4 DEF Unclaimed
    <3>6. \A i \in Unclaimed(u) : i = k
      <4> TAKE i \in Unclaimed(u)
      <4>1. i \in Jobs /\ i \in LaunchJobs /\ RequestedBy[i] = u /\ Listed(i) # Nil
            /\ Listed(i).state \in Unfinished /\ FromProwJob(i).ExpiresAt \notin passed[i]
        BY DEF Unclaimed, Pending, Reflected
      <4>2. FromProwJob(i).ExpiresAt = "age"
        BY <4>1 DEF FromProwJob, Unfinished
      <4>3. Claimable(i)
        BY <4>1, <4>2 DEF Claimable
      <4> QED
        BY <2>5, <4>1, <4>3 DEF SlotInv, BlankStart
    <3>7. claim[u] = k
      BY <2>1, <2>2, <3>1, <3>5, <3>6 DEF Claims
    <3> QED
      BY <2>1, <2>2, <2>3, <3>4, <3>7 DEF UnexpiredRequest, Pending
  <2> QED
    BY <2>4, <2>5
<1>7. CopiesAgree'
  <2> SUFFICES ASSUME NEW k \in Jobs, Active(k)'
               PROVE  /\ jobs'[k] # Nil => Unended(jobs'[k])
                      /\ worker'[k].job # Nil => Unended(worker'[k].job)
                      /\ \A c \in spawned'[k] : Unended(c)
                      /\ \A c \in finishing'[k] : Unended(c)
    BY CopiesAgreePartsPrime
  <2> QED
    BY <1>3, <1>6, SyncActive, ActiveCopies
<1>8. StoppedIsOver' /\ ActiveIsKnown'
  <2>1. StoppedIsOver'
    BY <1>1, <1>3 DEF SlotInv, StoppedIsOver, TypeInv, TypeOK
  <2>2. ActiveIsKnown'
    BY <1>3, <1>6, SyncActive DEF ActiveIsKnown
  <2> QED
    BY <2>1, <2>2
<1> QED
  BY <1>3, <1>4, <1>5, <1>7, <1>8 DEF SlotInv, NoNewCluster

\* Prow ends clusters and never revives one.
LEMMA ProwStepSlotInv ==
    ASSUME Orderly, TypeInv, TypeInv', SlotInv, NEW j \in Jobs, ProwStep(j)
    PROVE  SlotInv' /\ NoNewCluster
<1>1. prow[j] # Nil /\ prow[j] \in ProwRecord /\ pod[j] \in PodStates
  BY DEF ProwStep, TypeInv, TypeOK
<1>2. /\ prow[j].state # "scheduling"
      /\ prow[j].state = "triggered" => pod[j] = "none"
      /\ prow[j].state = "pending" => pod[j] \in {"running", "ready", "ended"}
      /\ prow[j].state = "pending" /\ pod[j] = "ended" => "lag" \in Faults
  BY <1>1 DEF SlotInv, PodsFollow
<1>3. \E state \in ProwStates, p \in PodStates :
         /\ Prow(j, state, p)
         /\ prow[j].state \notin Unfinished => state \notin Unfinished
         /\ state \in Unfinished /\ p \notin {"ended", "gone"} => pod[j] \notin {"ended", "gone"}
         /\ state \notin {"scheduling", "triggered"}
         /\ state = "pending" => p \in {"running", "ready", "ended"}
         /\ state = "pending" /\ p = "ended" => "lag" \in Faults
         /\ pod[j] \in {"ready", "ended", "gone"} => p \in {"ready", "ended", "gone"}
  BY <1>1, <1>2 DEF ProwStep, Unfinished, ProwStates, JobStates, PodStates
<1>4. PICK state \in ProwStates, p \in PodStates :
         /\ Prow(j, state, p)
         /\ prow[j].state \notin Unfinished => state \notin Unfinished
         /\ state \in Unfinished /\ p \notin {"ended", "gone"} => pod[j] \notin {"ended", "gone"}
         /\ state \notin {"scheduling", "triggered"}
         /\ state = "pending" => p \in {"running", "ready", "ended"}
         /\ state = "pending" /\ p = "ended" => "lag" \in Faults
         /\ pod[j] \in {"ready", "ended", "gone"} => p \in {"ready", "ended", "gone"}
  BY <1>3
<1> DEFINE pj == [prow[j] EXCEPT !.state = state]
<1>5. pj # Nil /\ pj.state = state
  BY <1>1, NilIsNothing DEF ProwRecord
<1>6. /\ prow' = [prow EXCEPT ![j] = pj] /\ pod' = [pod EXCEPT ![j] = p]
      /\ UNCHANGED <<requests, jobs, worker, spawned, finishing, term, booted, lister, passed>>
  BY <1>4 DEF Prow, botVars
<1> HIDE DEF pj
<1>7. \A k \in Jobs : /\ prow[k] = Nil <=> prow'[k] = Nil
                      /\ k # j => prow'[k] = prow[k] /\ pod'[k] = pod[k]
                      /\ prow'[j].state = state /\ pod'[j] = p
  BY <1>1, <1>5, <1>6 DEF TypeInv, TypeOK
<1>8. \A k \in Jobs : Active(k)' => Active(k)
  BY <1>1, <1>4, <1>6, <1>7 DEF Active, Live
<1>9. PodsFollow'
  BY <1>1, <1>4, <1>7 DEF SlotInv, PodsFollow
<1>10. ListerLags'
  BY <1>1, <1>4, <1>6, <1>7 DEF SlotInv, ListerLags
<1>11. Progress'
  BY <1>4, <1>6, <1>7 DEF SlotInv, Progress
<1>12. CopiesAgree'
  BY <1>6, <1>8, ActiveCopies, CopiesAgreePartsPrime
<1>13. StoppedIsOver' /\ ActiveIsKnown'
  BY <1>6, <1>8 DEF SlotInv, StoppedIsOver, ActiveIsKnown, TypeInv, TypeOK
<1>14. BlankStart'
  <2>1. \A k \in Jobs : /\ Claimable(k)' => Claimable(k)
                        /\ Listed(k) # Nil => Listed(k)' # Nil
    BY <1>1, <1>4, <1>6, <1>7 DEF Claimable, Listed
  <2> QED
    BY <1>6, <1>7, <1>8, <2>1 DEF SlotInv, BlankStart
<1>15. FreshNames'
  BY DEF TypeInv
<1> QED
  BY <1>8, <1>9, <1>10, <1>11, <1>12, <1>13, <1>14, <1>15 DEF SlotInv, NoNewCluster

\* The informer catches up: before the first sync it shows no cluster as
\* running that is neither active nor was shown before.
LEMMA DeliverSlotInv ==
    ASSUME Orderly, TypeInv, TypeInv', SlotInv, NEW j \in Jobs, Deliver(j)
    PROVE  SlotInv' /\ NoNewCluster
<1>1. /\ lister' = [lister EXCEPT ![j] = prow[j]]
      /\ "stale" \in Faults
      /\ UNCHANGED <<requests, jobs, worker, spawned, finishing, term, booted, prow, pod, passed>>
  BY DEF Deliver, botVars
<1>2. \A k \in Jobs : Active(k)' <=> Active(k)
  BY <1>1 DEF Active, Live
<1>3. FreshNames' /\ PodsFollow' /\ Progress'
  BY <1>1 DEF TypeInv, SlotInv, PodsFollow, Progress
<1>4. ListerLags'
  BY <1>1 DEF SlotInv, ListerLags, TypeInv, TypeOK
<1>5. CopiesAgree'
  BY <1>1, <1>2, ActiveCopies, CopiesAgreePartsPrime
<1>6. StoppedIsOver' /\ ActiveIsKnown'
  BY <1>1, <1>2 DEF SlotInv, StoppedIsOver, ActiveIsKnown, TypeInv, TypeOK
<1>7. BlankStart'
  <2>1. \A k \in Jobs : prow[k] # Nil /\ Listed(k) # Nil => Listed(k)' # Nil
    BY <1>1 DEF Listed, TypeInv, TypeOK
  <2>2. \A k \in Jobs : Claimable(k)' => Claimable(k) \/ ListerCatchesUp(k)
    BY <1>1 DEF Claimable, Listed, ListerCatchesUp, TypeInv, TypeOK
  <2>3. \A k \in Jobs : ~booted /\ ListerCatchesUp(k) => Claimable(k)
    <3> SUFFICES ASSUME NEW k \in Jobs, ~booted, ListerCatchesUp(k) PROVE Claimable(k)
      OBVIOUS
    <3>1. lister[k] # Nil
      BY <1>1 DEF SlotInv, BlankStart, ListerCatchesUp, Listed
    <3>2. lister[k].state \in Unfinished
      BY <3>1 DEF SlotInv, ListerLags, ListerCatchesUp
    <3> QED
      BY <1>1, <3>1, <3>2 DEF Claimable, Listed, ListerCatchesUp
  <2> QED
    BY <1>1, <1>2, <2>1, <2>2, <2>3 DEF SlotInv, BlankStart
<1> QED
  BY <1>2, <1>3, <1>4, <1>5, <1>6, <1>7 DEF SlotInv, NoNewCluster

\* A deadline that passes ends clusters only.
LEMMA TimePassesSlotInv ==
    ASSUME TypeInv, TypeInv', SlotInv, NEW j \in Jobs, TimePasses(j)
    PROVE  SlotInv' /\ NoNewCluster
<1>1. PICK d \in Due(j) : passed' = [passed EXCEPT ![j] = @ \cup {d}]
  BY DEF TimePasses
<1>2. /\ d = "age" => worker[j].pc # "create"
      /\ d = "request" => "age" \in passed[j]
  BY DueMeaning
<1>3. UNCHANGED <<requests, jobs, worker, spawned, finishing, term, booted, prow, lister, pod>>
  BY DEF TimePasses, botVars
<1>4. \A k \in Jobs : passed[k] \subseteq passed'[k] /\ (k # j => passed'[k] = passed[k])
  BY <1>1 DEF TypeInv, TypeOK
<1>5. \A k \in Jobs : /\ Active(k)' => Active(k)
                      /\ Claimable(k)' => Claimable(k)
                      /\ Listed(k)' = Listed(k)
  BY <1>3, <1>4 DEF Active, Live, Claimable, Listed
<1>6. FreshNames' /\ PodsFollow' /\ ListerLags'
  BY <1>3 DEF TypeInv, SlotInv, PodsFollow, ListerLags
<1>7. Progress'
  BY <1>1, <1>2, <1>3, <1>4 DEF SlotInv, Progress, TypeInv, TypeOK
<1>8. CopiesAgree'
  BY <1>3, <1>5, ActiveCopies, CopiesAgreePartsPrime
<1>9. StoppedIsOver' /\ ActiveIsKnown'
  BY <1>3, <1>5 DEF SlotInv, StoppedIsOver, ActiveIsKnown, TypeInv, TypeOK
<1>10. BlankStart'
  BY <1>3, <1>5 DEF SlotInv, BlankStart
<1> QED
  BY <1>5, <1>6, <1>7, <1>8, <1>9, <1>10 DEF SlotInv, NoNewCluster

\* The invariant gives one active cluster per user.
LEMMA ActiveUnique ==
    ASSUME TypeInv, SlotInv, NEW j \in Jobs, NEW k \in Jobs, Active(j), Active(k),
           RequestedBy[j] = RequestedBy[k]
    PROVE  j = k
<1>1. CASE booted
  BY <1>1 DEF SlotInv, ActiveIsKnown
<1>2. CASE ~booted
  BY <1>2 DEF SlotInv, BlankStart
<1> QED
  BY <1>1, <1>2 DEF TypeInv, TypeOK

\* A restart forgets everything and sync can restore it: the informer of the new process is current.
LEMMA RestartSlotInv ==
    ASSUME Orderly, TypeInv, TypeInv', SlotInv, Restart
    PROVE  SlotInv' /\ NoNewCluster
<1>1. /\ "lag" \notin Faults
      /\ requests' = [u \in Users |-> Nil] /\ term' = [u \in Users |-> Nil]
      /\ ~booted' /\ UNCHANGED <<prow, pod, passed>>
      /\ lister' = IF "stale" \in Faults THEN prow ELSE lister
      /\ \A k \in Jobs : /\ jobs'[k] = Nil /\ worker'[k] = IdleWorker
                         /\ spawned'[k] = {} /\ finishing'[k] = {}
  BY JobManagerAssumption DEF Restart, Orderly, TypeInv, TypeOK
<1>2. \A k \in Jobs : Listed(k)' = prow[k]
  BY <1>1 DEF Listed
<1>3. \A k \in Jobs : Active(k)' => Active(k)
  BY <1>1, IdleWorkerType DEF Active, Live
<1>4. \A k \in Jobs : Claimable(k)' => Active(k)
  BY <1>1, <1>2 DEF Claimable, Active, Live, SlotInv, PodsFollow, Unfinished
<1>5. FreshNames' /\ PodsFollow'
  BY <1>1 DEF TypeInv, SlotInv, PodsFollow
<1>6. ListerLags'
  BY <1>1 DEF SlotInv, ListerLags
<1>7. Progress'
  BY <1>1, IdleWorkerType DEF SlotInv, Progress
<1>8. CopiesAgree'
  BY <1>1, IdleWorkerType, CopiesAgreePartsPrime
<1>9. StoppedIsOver' /\ ActiveIsKnown'
  BY <1>1 DEF StoppedIsOver, ActiveIsKnown
<1>10. BlankStart'
  BY <1>1, <1>2, <1>3, <1>4, ActiveUnique DEF BlankStart
<1> QED
  BY <1>3, <1>5, <1>6, <1>7, <1>8, <1>9, <1>10 DEF SlotInv, NoNewCluster

\* The invariant holds of a new process without ProwJobs.
LEMMA InitSlotInv == Init => SlotInv
<1> SUFFICES ASSUME Init PROVE SlotInv
  OBVIOUS
<1>1. TypeInv
  BY InitTypeInv
<1>2. \A k \in Jobs : /\ prow[k] = Nil /\ lister[k] = Nil /\ Listed(k) = Nil /\ pod[k] = "none"
                      /\ worker[k] = IdleWorker /\ jobs[k] = Nil /\ passed[k] = {}
                      /\ spawned[k] = {} /\ finishing[k] = {}
  BY DEF Init, Listed
<1>3. \A k \in Jobs : ~Active(k) /\ ~Claimable(k)
  BY <1>2, IdleWorkerType DEF Active, Live, Claimable
<1>4. FreshNames /\ PodsFollow /\ ListerLags /\ Progress
  BY <1>1, <1>2, IdleWorkerType DEF TypeInv, PodsFollow, ListerLags, Progress
<1>5. CopiesAgree /\ StoppedIsOver /\ ActiveIsKnown /\ BlankStart
  BY <1>2, <1>3 DEF Init, CopiesAgree, StoppedIsOver, ActiveIsKnown, BlankStart
<1> QED
  BY <1>4, <1>5 DEF SlotInv

\* Every step but a launch keeps the invariant and makes no cluster active.
LEMMA OtherSlotInv ==
    ASSUME Orderly, TypeInv, TypeInv', SlotInv, [Next]_vars,
           \A j \in Jobs : ~LaunchCluster(j)
    PROVE  SlotInv' /\ NoNewCluster
<1>1. ASSUME NEW j \in Jobs,
             \/ LaunchCluster(j) \/ LaunchOther(j) \/ NewJob(j)
             \/ Goroutine(j) \/ waitForJob(j) \/ FinishWorker(j)
             \/ ProwStep(j) \/ Deliver(j) \/ TimePasses(j)
      PROVE  SlotInv' /\ NoNewCluster
  BY <1>1, LaunchOtherSlotInv, CreateProwJobSlotInv, NewJobReturnsSlotInv,
     StartWorkerSlotInv, FinishSlotInv, WaitSlotInv, ClearSlotInv, ProwStepSlotInv,
     DeliverSlotInv, TimePassesSlotInv
  DEF NewJob, Goroutine, waitForJob
<1>2. ASSUME NEW u \in Users, TerminateStop(u) \/ TerminateMark(u) \/ SyncJobForUser(u)
      PROVE  SlotInv' /\ NoNewCluster
  BY <1>2, TerminateStopSlotInv, TerminateMarkSlotInv, RefreshSlotInv
<1>3. CASE Sync
  BY <1>3, SyncSlotInv
<1>4. CASE Restart
  BY <1>4, RestartSlotInv
<1>5. CASE UNCHANGED vars
  <2>1. UNCHANGED <<requests, jobs, worker, spawned, finishing, term, booted, used,
                    prow, lister, pod, passed>>
    BY <1>5 DEF vars, botVars, prowVars
  <2>2. \A k \in Jobs : /\ Active(k)' <=> Active(k)
                        /\ Claimable(k)' <=> Claimable(k)
                        /\ Listed(k)' = Listed(k)
    BY <2>1 DEF Active, Live, Claimable, Listed
  <2>3. FreshNames' /\ PodsFollow' /\ ListerLags' /\ Progress'
    BY <2>1 DEF TypeInv, SlotInv, PodsFollow, ListerLags, Progress
  <2>4. CopiesAgree'
    BY <2>1, <2>2, ActiveCopies, CopiesAgreePartsPrime
  <2>5. StoppedIsOver' /\ ActiveIsKnown' /\ BlankStart'
    BY <2>1, <2>2 DEF SlotInv, StoppedIsOver, ActiveIsKnown, BlankStart, TypeInv, TypeOK
  <2> QED
    BY <2>2, <2>3, <2>4, <2>5 DEF SlotInv, NoNewCluster
<1> QED
  BY <1>1, <1>2, <1>3, <1>4, <1>5 DEF Next

\* The invariant is inductive.
LEMMA NextSlotInv ==
    ASSUME Orderly, TypeInv, TypeInv', SlotInv, [Next]_vars
    PROVE  SlotInv'
  BY OtherSlotInv, LaunchClusterSlotInv

\* In an orderly environment the bot and the clusters agree (SlotInv), so no
\* user has two clusters, no job that memory calls over is still up, and
\* after its first sync the bot knows every cluster that is.
THEOREM OneCluster ==
    Orderly => (Spec => [](SlotInv /\ OneClusterPerUser /\ OverMeansOver /\ LiveIsKnown))
<1> SUFFICES ASSUME Orderly
             PROVE  Spec => [](SlotInv /\ OneClusterPerUser /\ OverMeansOver /\ LiveIsKnown)
  OBVIOUS
<1>1. Init => TypeInv /\ SlotInv
  BY InitTypeInv, InitSlotInv
<1>2. TypeInv /\ SlotInv /\ [Next]_vars => (TypeInv /\ SlotInv)'
  BY NextTypeInv, NextSlotInv
<1>3. TypeInv /\ SlotInv => OneClusterPerUser /\ OverMeansOver /\ LiveIsKnown
  <2> SUFFICES ASSUME TypeInv, SlotInv PROVE OneClusterPerUser /\ OverMeansOver /\ LiveIsKnown
    OBVIOUS
  <2>1. \A j \in Jobs : Live(j) => Active(j)
    BY DEF Active, Live
  <2>2. OneClusterPerUser
    BY <2>1, ActiveUnique DEF OneClusterPerUser
  <2>3. OverMeansOver
    BY <2>1, ActiveCopies DEF OverMeansOver, Unended
  <2>4. LiveIsKnown
    BY <2>1 DEF SlotInv, ActiveIsKnown, LiveIsKnown
  <2> QED
    BY <2>2, <2>3, <2>4
<1> QED
  BY <1>1, <1>2, <1>3, PTL DEF Spec

\* SlotInv by itself: the jobs in memory, the workers, the ProwJobs and their
\* lister agree on every cluster of an orderly environment.
THEOREM SlotsAgree == Orderly => (Spec => []SlotInv)
BY OneCluster, PTL

\* What memory says has ended (finishedJob, terminateJob, sync) is not up any
\* more, so a user may launch again.
THEOREM EndedIsOver == Orderly => (Spec => []OverMeansOver)
BY OneCluster, PTL

\* After its first sync a bot, restarted or not, knows every cluster that is up.
THEOREM UpIsKnown == Orderly => (Spec => []LiveIsKnown)
BY OneCluster, PTL

-----------------------------------------------------------------------------
(* The limit on the clusters of all users *)

ActiveSet == {j \in Jobs : Active(j)}

WithinLimit == Cardinality(ActiveSet) <= MaxClusters

\* There are finitely many active clusters to count.
LEMMA ActiveSetFinite == IsFiniteSet(ActiveSet) /\ Cardinality(ActiveSet) \in Nat
<1>1. ActiveSet \in SUBSET Jobs
  BY DEF ActiveSet
<1> QED
  BY <1>1, JobManagerAssumption, FS_Subset, FS_CardinalityType

\* The same of the next state.
LEMMA ActiveSetFinitePrime == IsFiniteSet(ActiveSet') /\ Cardinality(ActiveSet') \in Nat
<1>1. ActiveSet' \in SUBSET Jobs
  BY DEF ActiveSet
<1> QED
  BY <1>1, JobManagerAssumption, FS_Subset, FS_CardinalityType

\* A launch counts every active cluster before it admits another.
LEMMA LaunchCountsAll ==
    ASSUME Orderly, TypeInv, TypeInv', SlotInv, NEW j \in Jobs, LaunchCluster(j), Active(j)'
    PROVE  Cardinality(ActiveSet) < MaxClusters
<1> DEFINE js == ForgetFailed(RequestedBy[j])
           counted == LaunchedClusters(js)
<1>1. booted /\ Cardinality(counted) < MaxClusters
      /\ \A k \in Jobs : Active(k) => js[k] = jobs[k]
  BY LaunchClusterSlotInv
<1>2. ActiveSet \subseteq counted
  <2> SUFFICES ASSUME NEW k \in Jobs, Active(k) PROVE k \in counted
    BY DEF ActiveSet
  <2>1. k \in LaunchJobs /\ jobs[k] # Nil /\ Unended(jobs[k])
    BY <1>1, ActiveInMemory DEF Active
  <2> QED
    BY <1>1, <2>1 DEF LaunchedClusters, Unended
<1>3. counted \in SUBSET Jobs
  BY JobManagerAssumption DEF LaunchedClusters
<1> HIDE DEF counted
<1>4. IsFiniteSet(counted) /\ Cardinality(counted) \in Nat
  BY <1>3, JobManagerAssumption, FS_Subset, FS_CardinalityType
<1>5. Cardinality(ActiveSet) <= Cardinality(counted)
  BY <1>2, <1>4, FS_Subset
<1> QED
  BY <1>1, <1>4, <1>5, ActiveSetFinite, JobManagerAssumption

\* A launch keeps the active clusters within the limit.
LEMMA LaunchWithinLimit ==
    ASSUME Orderly, TypeInv, TypeInv', SlotInv, WithinLimit, NEW j \in Jobs, LaunchCluster(j)
    PROVE  WithinLimit'
<1>1. ActiveSet' \subseteq ActiveSet \cup {j}
  BY LaunchClusterSlotInv DEF ActiveSet
<1>2. CASE ~Active(j)'
  <2>1. ActiveSet' \subseteq ActiveSet
    BY <1>1, <1>2 DEF ActiveSet
  <2>2. Cardinality(ActiveSet') <= Cardinality(ActiveSet)
    BY <2>1, ActiveSetFinite, FS_Subset
  <2> QED
    BY <2>2, ActiveSetFinite, ActiveSetFinitePrime, JobManagerAssumption DEF WithinLimit
<1>3. CASE Active(j)'
  <2>1. Cardinality(ActiveSet) < MaxClusters
    BY <1>3, LaunchCountsAll
  <2>2. /\ IsFiniteSet(ActiveSet \cup {j})
        /\ Cardinality(ActiveSet \cup {j}) <= Cardinality(ActiveSet) + 1
        /\ Cardinality(ActiveSet \cup {j}) \in Nat
    BY ActiveSetFinite, FS_AddElement, FS_CardinalityType
  <2>3. Cardinality(ActiveSet') <= Cardinality(ActiveSet \cup {j})
    BY <1>1, <2>2, FS_Subset
  <2> QED
    BY <2>1, <2>2, <2>3, ActiveSetFinite, ActiveSetFinitePrime, JobManagerAssumption
    DEF WithinLimit
<1> QED
  BY <1>2, <1>3

\* In an orderly environment there are never more than maxClusters clusters.
THEOREM ClusterLimit == Orderly => (Spec => []ClustersWithinLimit)
<1> SUFFICES ASSUME Orderly PROVE Spec => []ClustersWithinLimit
  OBVIOUS
<1> DEFINE Inv == TypeInv /\ SlotInv /\ WithinLimit
<1>1. Init => Inv
  <2> SUFFICES ASSUME Init PROVE Inv
    OBVIOUS
  <2>1. TypeInv /\ SlotInv
    BY InitTypeInv, InitSlotInv
  <2>2. ActiveSet = {}
    BY IdleWorkerType DEF Init, ActiveSet, Active, Live
  <2>3. WithinLimit
    BY <2>2, FS_EmptySet, JobManagerAssumption DEF WithinLimit
  <2> QED
    BY <2>1, <2>3
<1>2. Inv /\ [Next]_vars => Inv'
  <2> SUFFICES ASSUME Inv, [Next]_vars PROVE Inv'
    OBVIOUS
  <2>1. TypeInv'
    BY NextTypeInv
  <2>2. SlotInv'
    BY <2>1, NextSlotInv
  <2>3. CASE \E j \in Jobs : LaunchCluster(j)
    BY <2>1, <2>2, <2>3, LaunchWithinLimit
  <2>4. CASE \A j \in Jobs : ~LaunchCluster(j)
    <3>1. ActiveSet' \subseteq ActiveSet
      BY <2>1, <2>4, OtherSlotInv DEF NoNewCluster, ActiveSet
    <3>2. Cardinality(ActiveSet') <= Cardinality(ActiveSet)
      BY <3>1, ActiveSetFinite, FS_Subset
    <3>3. WithinLimit'
      BY <3>2, ActiveSetFinite, ActiveSetFinitePrime, JobManagerAssumption DEF WithinLimit
    <3> QED
      BY <2>1, <2>2, <3>3
  <2> QED
    BY <2>3, <2>4
<1>3. Inv => ClustersWithinLimit
  <2> SUFFICES ASSUME Inv PROVE ClustersWithinLimit
    OBVIOUS
  <2> DEFINE live == {j \in Jobs : Live(j)}
  <2>1. live \subseteq ActiveSet
    BY DEF ActiveSet, Active, Live
  <2>2. Cardinality(live) <= Cardinality(ActiveSet) /\ IsFiniteSet(live)
    BY <2>1, ActiveSetFinite, FS_Subset
  <2>3. Cardinality(live) \in Nat
    BY <2>2, FS_CardinalityType
  <2> QED
    BY <2>2, <2>3, ActiveSetFinite, JobManagerAssumption DEF WithinLimit, ClustersWithinLimit
<1> QED
  BY <1>1, <1>2, <1>3, PTL DEF Spec

-----------------------------------------------------------------------------
(* The job manager implements ClusterSlots: the launch of a cluster is Take *)
(* or Refuse, every other step is Release (of no cluster, most of the time). *)

held == {j \in LaunchJobs : Active(j)}
taken == used \cap LaunchJobs

\* The clusters that hold a slot are the active ones.
LEMMA HeldIsActiveSet == held = ActiveSet
  BY JobManagerAssumption DEF held, ActiveSet, Active

\* Only a launch uses up the name of a cluster.
LEMMA OnlyLaunchTakes ==
    ASSUME [Next]_vars, \A j \in Jobs : ~LaunchCluster(j)
    PROVE  UNCHANGED taken
<1>1. ASSUME NEW j \in Jobs, LaunchOther(j)
      PROVE  UNCHANGED taken
  BY <1>1 DEF LaunchOther, taken
<1>2. ASSUME NEW j \in Jobs, NewJob(j)
      PROVE  UNCHANGED used
  BY <1>2 DEF NewJob, CreateProwJob, NewJobFails, LaunchCleanup, NewJobReturns, NewJobTimesOut
<1>3. ASSUME NEW j \in Jobs, Goroutine(j) \/ FinishWorker(j)
      PROVE  UNCHANGED used
  BY <1>3 DEF Goroutine, StartWorker, FinishFromSync, FinishWorker, finishedJob
<1>4. ASSUME NEW j \in Jobs, waitForJob(j)
      PROVE  UNCHANGED used
  <2>1. ASSUME NEW pc, NEW job, Step(j, pc, job)
        PROVE  UNCHANGED used
    BY <2>1 DEF Step
  <2> QED
    BY <1>4, <2>1 DEF waitForJob, PollProwJob, AwaitResults, AwaitPod, AwaitSetup,
       AwaitReachable, NeverAvailable, Completed, Fail, clearNotificationAnnotations
<1>5. ASSUME NEW j \in Jobs, ProwStep(j) \/ Deliver(j) \/ TimePasses(j)
      PROVE  UNCHANGED used
  BY <1>5 DEF ProwStep, Prow, Deliver, TimePasses
<1>6. ASSUME NEW u \in Users, TerminateStop(u) \/ TerminateMark(u) \/ SyncJobForUser(u)
      PROVE  UNCHANGED used
  BY <1>6 DEF TerminateStop, TerminateMark, SyncJobForUser
<1>7. CASE Sync \/ Restart \/ UNCHANGED vars
  BY <1>7 DEF Sync, Restart, vars, taken
<1> QED
  BY <1>1, <1>2, <1>3, <1>4, <1>5, <1>6, <1>7 DEF Next, taken

\* The launch of a cluster takes a slot or is refused one.
LEMMA LaunchTakes ==
    ASSUME Orderly, TypeInv, TypeInv', SlotInv, NEW j \in Jobs, LaunchCluster(j)
    PROVE  Slots!Take(j) \/ Slots!Refuse(j)
<1>1. j \in LaunchJobs /\ j \notin used /\ used' = used \cup {j}
  BY DEF LaunchCluster
<1>2. j \notin taken /\ taken' = taken \cup {j}
  BY <1>1 DEF taken
<1>3. /\ \A k \in LaunchJobs : Active(k)' => Active(k) \/ k = j
      /\ \A k \in LaunchJobs : Active(k) => Active(k)' /\ RequestedBy[k] # RequestedBy[j]
  BY LaunchClusterSlotInv, JobManagerAssumption
<1>4. CASE Active(j)'
  <2>1. held' = held \cup {j}
    BY <1>1, <1>3, <1>4 DEF held
  <2>2. \A d \in held : RequestedBy[d] # RequestedBy[j]
    BY <1>3 DEF held
  <2>3. Cardinality(held) < MaxClusters
    BY <1>4, LaunchCountsAll, HeldIsActiveSet
  <2>4. Slots!Cardinality(held) = Cardinality(held)
    BY DEF Slots!Cardinality, Cardinality
  <2> QED
    BY <1>2, <2>1, <2>2, <2>3, <2>4 DEF Slots!Take, held, taken
<1>5. CASE ~Active(j)'
  <2>1. held' = held
    BY <1>3, <1>5 DEF held
  <2> QED
    BY <1>2, <2>1 DEF Slots!Refuse, held, taken
<1> QED
  BY <1>4, <1>5

\* In an orderly environment the manager implements ClusterSlots: slots are
\* given by LaunchJobForUser only, to names never used before, one per owner
\* and within the limit, whatever sync, the workers, done, refresh, restarts
\* and Prow do in between.
THEOREM Refinement == Orderly => (Spec => ImplementsClusterSlots)
<1> SUFFICES ASSUME Orderly PROVE Spec => ImplementsClusterSlots
  OBVIOUS
<1>1. Init => TypeInv /\ SlotInv /\ Slots!Init
  <2> SUFFICES ASSUME Init PROVE TypeInv /\ SlotInv /\ Slots!Init
    OBVIOUS
  <2>1. TypeInv /\ SlotInv
    BY InitTypeInv, InitSlotInv
  <2>2. held = {} /\ taken = {}
    BY IdleWorkerType, JobManagerAssumption DEF Init, held, taken, Active, Live
  <2> QED
    BY <2>1, <2>2 DEF Slots!Init, held, taken
<1>2. TypeInv /\ SlotInv /\ [Next]_vars
        => (TypeInv /\ SlotInv)' /\ [Slots!Next]_(Slots!vars)
  <2> SUFFICES ASSUME TypeInv, SlotInv, [Next]_vars
               PROVE  (TypeInv /\ SlotInv)' /\ Slots!Next
    OBVIOUS
  <2>1. TypeInv' /\ SlotInv'
    BY NextTypeInv, NextSlotInv
  <2>2. CASE \E j \in Jobs : LaunchCluster(j)
    BY <2>1, <2>2, LaunchTakes DEF Slots!Next, LaunchCluster
  <2>3. CASE \A j \in Jobs : ~LaunchCluster(j)
    <3>1. held' \in SUBSET held
      BY <2>1, <2>3, OtherSlotInv, JobManagerAssumption DEF NoNewCluster, held
    <3>2. UNCHANGED taken
      BY <2>3, OnlyLaunchTakes
    <3> QED
      BY <2>1, <3>1, <3>2 DEF Slots!Next, Slots!Release, held, taken
  <2> QED
    BY <2>2, <2>3
<1> QED
  BY <1>1, <1>2, PTL DEF Spec, ImplementsClusterSlots, Slots!Spec
=============================================================================
