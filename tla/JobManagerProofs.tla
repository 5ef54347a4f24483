-------------------------- MODULE JobManagerProofs --------------------------
(* Theorems about JobManager, for all values of its constants. *)
EXTENDS JobManager, TLAPS, FiniteSetTheorems

-----------------------------------------------------------------------------
(* Type correctness *)

\* A goroutine that follows a job carries a copy of it.
WorkerHasJob ==
    \A j \in Jobs : worker[j].pc # "idle" \/ worker[j].shared => worker[j].job # Nil

\* Whoever asks the API server about a ProwJob finds it.
ProwJobExists ==
    \A j \in Jobs : prow[j] = Nil =>
       /\ worker[j].pc \in {"idle", "create"}
       /\ spawned[j] = {} /\ finishing[j] = {} /\ lister[j] = Nil

\* A request, and the request that done works on, is the user's own.
OwnRequest ==
    \A u \in Users : /\ requests[u] # Nil => RequestedBy[requests[u]] = u
                     /\ term[u] # Nil => RequestedBy[term[u]] = u

\* refresh finds no job that ended before its ProwJob was created.
EndedEarly ==
    \A j \in Jobs : jobs[j] # Nil /\ (jobs[j].Failure \/ jobs[j].Credentials)
                       => prow[j] # Nil \/ requests[RequestedBy[j]] # j

TypeInv == /\ TypeOK /\ WorkerHasJob /\ ProwJobExists /\ OwnRequest /\ EndedEarly
           /\ FreshNames

\* The record that resolveToJob builds is a Job.
LEMMA ResolveType == \A j \in Jobs : resolveToJob(j) \in JobRecord
  BY DEF resolveToJob, JobRecord, JobStates, Deadlines

\* Nil, a missing map entry, is no job, no Job and no ProwJob.
LEMMA NilIsNothing == /\ Nil \notin Jobs /\ Nil \notin JobRecord
                      /\ Nil \notin ProwRecord
  BY JobManagerAssumption

\* The record sync builds from a ProwJob in the informer's store is a Job.
LEMMA FromProwJobType ==
    ASSUME TypeInv, NEW j \in Jobs, Listed(j) # Nil
    PROVE  /\ Listed(j) \in ProwRecord
           /\ FromProwJob(j) \in JobRecord
           /\ prow[j] # Nil
<1>1. Listed(j) \in ProwRecord /\ prow[j] # Nil
  BY NilIsNothing DEF TypeInv, TypeOK, ProwJobExists, Listed
<1>2. FromProwJob(j) \in JobRecord
  <2>1. Listed(j).state \in ProwStates /\ Listed(j).channel \in BOOLEAN
    BY <1>1 DEF ProwRecord
  <2>2. (Listed(j).state \in {"success", "failure"}) \in BOOLEAN
    OBVIOUS
  <2>3. (Listed(j).state = "failure") \in BOOLEAN
    OBVIOUS
  <2> QED
    BY <2>1, <2>2, <2>3 DEF FromProwJob, JobRecord, JobStates, ProwStates, Unfinished, Deadlines
<1> QED
  BY <1>1, <1>2

\* A free slot of muJob.running.
LEMMA IdleWorkerType == IdleWorker \in WorkerRecord /\ IdleWorker.pc = "idle"
                        /\ ~IdleWorker.shared /\ IdleWorker.job = Nil
  BY DEF IdleWorker, WorkerRecord, Phases

\* A new process starts with empty maps.
LEMMA InitTypeInv == Init => TypeInv
<1> SUFFICES ASSUME Init PROVE TypeInv
  OBVIOUS
<1>1. TypeOK
  <2>1. /\ requests \in [Users -> Jobs \cup {Nil}]
        /\ jobs \in [Jobs -> JobRecord \cup {Nil}]
        /\ worker \in [Jobs -> WorkerRecord]
        /\ spawned \in [Jobs -> SUBSET JobRecord]
        /\ finishing \in [Jobs -> SUBSET JobRecord]
        /\ term \in [Users -> Jobs \cup {Nil}]
    BY IdleWorkerType DEF Init
  <2>2. booted \in BOOLEAN
    BY DEF Init
  <2>3. restarts \in 0..MaxRestarts
    BY JobManagerAssumption DEF Init
  <2>4. /\ used \subseteq Jobs
        /\ prow \in [Jobs -> ProwRecord \cup {Nil}]
        /\ lister \in [Jobs -> ProwRecord \cup {Nil}]
        /\ pod \in [Jobs -> PodStates]
        /\ passed \in [Jobs -> SUBSET Deadlines]
        /\ sent \in [Jobs -> SUBSET Messages]
        /\ released \subseteq Jobs
    BY DEF Init, PodStates
  <2> QED
    BY <2>1, <2>2, <2>3, <2>4 DEF TypeOK
<1>2. WorkerHasJob /\ ProwJobExists /\ OwnRequest /\ EndedEarly
  BY IdleWorkerType
  DEF Init, WorkerHasJob, ProwJobExists, OwnRequest, EndedEarly
<1>3. FreshNames
  BY NilIsNothing DEF Init, FreshNames
<1> QED
  BY <1>1, <1>2, <1>3 DEF TypeInv

\* A step of a worker that changes nothing but the worker.
LEMMA StepTypeInv ==
    ASSUME TypeInv, NEW j \in Jobs, NEW pc \in Phases, NEW job \in JobRecord \cup {Nil},
           pc # "idle" => job # Nil, prow[j] # Nil, Step(j, pc, job)
    PROVE  TypeInv'
<1>1. WorkerAt(pc, job) \in WorkerRecord /\ WorkerAt(pc, job).pc = pc
      /\ WorkerAt(pc, job).job = job /\ ~WorkerAt(pc, job).shared
  BY DEF WorkerAt, WorkerRecord
<1>2. worker' \in [Jobs -> WorkerRecord]
  BY <1>1 DEF Step, TypeInv, TypeOK
<1>3. TypeOK'
  BY <1>2 DEF Step, TypeInv, TypeOK, prowVars, ghosts
<1>4. WorkerHasJob' /\ ProwJobExists'
  BY <1>1, <1>2 DEF Step, TypeInv, TypeOK, WorkerHasJob, ProwJobExists, prowVars
<1>5. OwnRequest' /\ EndedEarly'
  BY DEF Step, TypeInv, OwnRequest, EndedEarly, prowVars
<1>6. FreshNames'
  BY DEF Step, TypeInv, TypeOK, FreshNames, prowVars
<1> QED
  BY <1>3, <1>4, <1>5, <1>6 DEF TypeInv

\* What the polls of waitForJob make of a job is a Job.
LEMMA WorkerCopies ==
    ASSUME TypeInv, NEW j \in Jobs, NEW job \in JobRecord
    PROVE  /\ jobIsComplete(j) => AdoptCompletion(j, job) \in JobRecord
           /\ [job EXCEPT !.Failure = TRUE] \in JobRecord
           /\ [job EXCEPT !.Credentials = TRUE] \in JobRecord
           /\ [job EXCEPT !.RequestedChannel = FALSE] \in JobRecord
           /\ [job EXCEPT !.Failure = FALSE] \in JobRecord
           /\ Terminated(job) \in JobRecord
           /\ prow[j] # Nil /\ prow[j].state \notin Unfinished
                 => Outcome(j, job) \in JobRecord
<1>1. jobIsComplete(j) => AdoptCompletion(j, job) \in JobRecord
  BY DEF TypeInv, TypeOK, jobIsComplete, AdoptCompletion, JobRecord
<1>2. /\ [job EXCEPT !.Failure = TRUE] \in JobRecord
      /\ [job EXCEPT !.Credentials = TRUE] \in JobRecord
      /\ [job EXCEPT !.RequestedChannel = FALSE] \in JobRecord
      /\ [job EXCEPT !.Failure = FALSE] \in JobRecord
      /\ Terminated(job) \in JobRecord
  BY DEF JobRecord, Terminated, Deadlines
<1>3. ASSUME prow[j] # Nil, prow[j].state \notin Unfinished
      PROVE  Outcome(j, job) \in JobRecord
  <2>1. prow[j].state \in JobStates
    BY <1>3 DEF TypeInv, TypeOK, ProwRecord, ProwStates, Unfinished
  <2>2. (prow[j].state # "success") \in BOOLEAN
    OBVIOUS
  <2> QED
    BY <2>1, <2>2 DEF Outcome, JobRecord
<1> QED
  BY <1>1, <1>2, <1>3

\* A worker that follows a job has a copy of it and the ProwJob exists.
LEMMA Following ==
    ASSUME TypeInv, NEW j \in Jobs, worker[j].pc \notin {"idle", "create"}
    PROVE  worker[j].job \in JobRecord /\ prow[j] # Nil
  BY DEF TypeInv, TypeOK, WorkerHasJob, ProwJobExists, WorkerRecord

\* A poll of waitForJob keeps the types: what it reads exists.
LEMMA WaitTypeInv ==
    ASSUME TypeInv, NEW j \in Jobs,
           \/ PollProwJob(j) \/ AwaitResults(j) \/ AwaitPod(j)
           \/ AwaitSetup(j) \/ AwaitReachable(j)
    PROVE  TypeInv'
<1> DEFINE job == worker[j].job
<1>1. job \in JobRecord /\ prow[j] # Nil
  BY Following DEF PollProwJob, AwaitResults, AwaitPod, AwaitSetup, AwaitReachable
<1>2. PICK pc \in Phases, copy \in JobRecord \cup {Nil} :
         (pc # "idle" => copy # Nil) /\ Step(j, pc, copy)
  <2> HIDE DEF job
  <2>0. job = worker[j].job
    BY DEF job
  <2>1. /\ jobIsComplete(j) => AdoptCompletion(j, job) \in JobRecord
        /\ [job EXCEPT !.Failure = TRUE] \in JobRecord
        /\ [job EXCEPT !.Credentials = TRUE] \in JobRecord
        /\ prow[j].state \notin Unfinished => Outcome(j, job) \in JobRecord
    BY <1>1, WorkerCopies
  <2>2. \A c \in JobRecord : c # Nil
    BY NilIsNothing
  <2>3. {"idle", "finish", "clear", "pod", "results", "setup", "reach"} \subseteq Phases
    BY DEF Phases
  <2>4. CASE PollProwJob(j)
    BY <2>0, <2>1, <2>2, <2>3, <2>4, <1>1 DEF PollProwJob, Completed, Fail
  <2>5. CASE AwaitResults(j)
    BY <2>0, <2>1, <2>2, <2>3, <2>5, <1>1 DEF AwaitResults, Completed, Fail
  <2>6. CASE AwaitPod(j)
    BY <2>0, <2>1, <2>2, <2>3, <2>6, <1>1 DEF AwaitPod, Completed, Fail
  <2>7. CASE AwaitSetup(j)
    BY <2>0, <2>1, <2>2, <2>3, <2>7, <1>1 DEF AwaitSetup, Completed, Fail, NeverAvailable
  <2>8. CASE AwaitReachable(j)
    BY <2>0, <2>1, <2>2, <2>3, <2>8, <1>1 DEF AwaitReachable, Fail
  <2> QED
    BY <2>4, <2>5, <2>6, <2>7, <2>8
<1> QED
  BY <1>1, <1>2, StepTypeInv

\* Forgetting a failed cluster leaves a map of Jobs.
LEMMA ForgetFailedType ==
    ASSUME TypeInv, NEW u \in Users
    PROVE  /\ ForgetFailed(u) \in [Jobs -> JobRecord \cup {Nil}]
           /\ \A k \in Jobs : ForgetFailed(u)[k] \in {jobs[k], Nil}
  BY NilIsNothing DEF TypeInv, TypeOK, ForgetFailed

\* Types: the critical section of LaunchJobForUser for a cluster.
LEMMA LaunchClusterTypeInv ==
    ASSUME TypeInv, NEW j \in Jobs, LaunchCluster(j)
    PROVE  TypeInv'
<1> DEFINE u == RequestedBy[j]
           js == ForgetFailed(u)
           wc == [pc |-> "create", job |-> resolveToJob(j), shared |-> TRUE]
<1>1. u \in Users /\ j \notin used /\ used' = used \cup {j}
      /\ requests' = [requests EXCEPT ![u] = j]
      /\ UNCHANGED <<spawned, finishing, term, booted, restarts, prowVars, ghosts>>
  BY JobManagerAssumption DEF LaunchCluster
<1>2. js \in [Jobs -> JobRecord \cup {Nil}] /\ \A k \in Jobs : js[k] \in {jobs[k], Nil}
  BY <1>1, ForgetFailedType
<1>3. wc \in WorkerRecord /\ wc.pc = "create" /\ wc.job # Nil
  BY ResolveType, NilIsNothing DEF WorkerRecord, Phases
<1>4. \/ jobs' = js /\ worker' = worker
      \/ /\ jobs' = [js EXCEPT ![j] = resolveToJob(j)]
         /\ worker' = [worker EXCEPT ![j] = wc]
  BY DEF LaunchCluster, Admit
<1>5. resolveToJob(j) \in JobRecord /\ ~resolveToJob(j).Failure /\ ~resolveToJob(j).Credentials
  BY ResolveType DEF resolveToJob
<1> HIDE DEF u, js, wc
<1>6. jobs' \in [Jobs -> JobRecord \cup {Nil}] /\ worker' \in [Jobs -> WorkerRecord]
  BY <1>2, <1>3, <1>4, <1>5 DEF TypeInv, TypeOK
<1>7. TypeOK'
  BY <1>1, <1>6 DEF TypeInv, TypeOK, prowVars, ghosts
<1>8. WorkerHasJob' /\ ProwJobExists'
  BY <1>1, <1>3, <1>4 DEF TypeInv, TypeOK, WorkerHasJob, ProwJobExists, prowVars
<1>9. OwnRequest'
  BY <1>1 DEF TypeInv, TypeOK, OwnRequest, u
<1>10. EndedEarly'
  <2> SUFFICES ASSUME NEW k \in Jobs, jobs'[k] # Nil, jobs'[k].Failure \/ jobs'[k].Credentials
               PROVE  prow'[k] # Nil \/ requests'[RequestedBy[k]] # k
    BY DEF EndedEarly
  <2>1. jobs[j] = Nil
    BY <1>1 DEF TypeInv, FreshNames
  <2>2. k # j /\ jobs'[k] = jobs[k]
    BY <1>2, <1>4, <1>5, <2>1 DEF TypeInv, TypeOK
  <2>3. prow[k] # Nil \/ requests[RequestedBy[k]] # k
    BY <2>2 DEF TypeInv, EndedEarly
  <2> QED
    BY <1>1, <2>2, <2>3, JobManagerAssumption DEF TypeInv, TypeOK, prowVars
<1>11. FreshNames'
  BY <1>1, <1>2, <1>4 DEF TypeInv, TypeOK, FreshNames, prowVars
<1> QED
  BY <1>7, <1>8, <1>9, <1>10, <1>11 DEF TypeInv

\* Types: the critical section of LaunchJobForUser for another job.
LEMMA LaunchOtherTypeInv ==
    ASSUME TypeInv, NEW j \in Jobs, LaunchOther(j)
    PROVE  TypeInv'
<1> DEFINE wc == [pc |-> "create", job |-> resolveToJob(j), shared |-> TRUE]
<1>1. /\ j \notin used /\ used' = used \cup {j}
      /\ UNCHANGED <<requests, spawned, finishing, term, booted, restarts, prowVars, ghosts>>
      /\ jobs' = [jobs EXCEPT ![j] = resolveToJob(j)]
      /\ worker' = [worker EXCEPT ![j] = wc]
  BY DEF LaunchOther, Admit
<1>2. wc \in WorkerRecord /\ wc.pc = "create" /\ wc.job # Nil
  BY ResolveType, NilIsNothing DEF WorkerRecord, Phases
<1>3. resolveToJob(j) \in JobRecord /\ ~resolveToJob(j).Failure /\ ~resolveToJob(j).Credentials
  BY ResolveType DEF resolveToJob
<1> HIDE DEF wc
<1>4. TypeOK'
  BY <1>1, <1>2, <1>3 DEF TypeInv, TypeOK, prowVars, ghosts
<1>5. WorkerHasJob' /\ ProwJobExists'
  BY <1>1, <1>2 DEF TypeInv, TypeOK, WorkerHasJob, ProwJobExists, prowVars
<1>6. OwnRequest' /\ EndedEarly'
  BY <1>1, <1>3 DEF TypeInv, TypeOK, OwnRequest, EndedEarly, prowVars
<1>7. FreshNames'
  BY <1>1 DEF TypeInv, TypeOK, FreshNames, prowVars
<1> QED
  BY <1>4, <1>5, <1>6, <1>7 DEF TypeInv

\* Types: newJob creates the ProwJob.
LEMMA CreateProwJobTypeInv ==
    ASSUME TypeInv, NEW j \in Jobs, CreateProwJob(j)
    PROVE  TypeInv'
<1>1. PICK state \in ProwStates : 
         prow' = [prow EXCEPT ![j] = [state |-> state, channel |-> worker[j].job.RequestedChannel]]
  BY DEF CreateProwJob, ProwStates
<1> DEFINE pj == [state |-> state, channel |-> worker[j].job.RequestedChannel]
<1>2. worker[j].job \in JobRecord
  BY DEF CreateProwJob, TypeInv, TypeOK, WorkerHasJob, WorkerRecord
<1>3. pj \in ProwRecord /\ pj # Nil
  BY <1>2, NilIsNothing DEF ProwRecord, JobRecord
<1> HIDE DEF pj
<1>4. prow' = [prow EXCEPT ![j] = pj]
  BY <1>1 DEF pj
<1>5. worker' \in [Jobs -> WorkerRecord]
  BY DEF CreateProwJob, TypeInv, TypeOK, WorkerRecord, Phases
<1>6. TypeOK'
  BY <1>3, <1>4, <1>5 DEF CreateProwJob, TypeInv, TypeOK, ghosts
<1>7. WorkerHasJob'
  BY <1>5 DEF CreateProwJob, TypeInv, TypeOK, WorkerHasJob, WorkerRecord
<1>8. ProwJobExists' /\ EndedEarly'
  BY <1>3, <1>4 DEF CreateProwJob, TypeInv, TypeOK, ProwJobExists, EndedEarly
<1>9. OwnRequest'
  BY DEF CreateProwJob, TypeInv, OwnRequest
<1>10. FreshNames'
  BY IdleWorkerType, <1>4 DEF CreateProwJob, TypeInv, TypeOK, FreshNames
<1> QED
  BY <1>6, <1>7, <1>8, <1>9, <1>10 DEF TypeInv

\* Types: newJob fails and LaunchJobForUser cleans up.
LEMMA NewJobFailsTypeInv ==
    ASSUME TypeInv, NEW j \in Jobs, NewJobFails(j)
    PROVE  TypeInv'
<1>1. /\ requests' = [requests EXCEPT ![RequestedBy[j]] = Nil]
      /\ jobs' = [jobs EXCEPT ![j] = Nil]
      /\ worker' = [worker EXCEPT ![j] = IdleWorker]
      /\ UNCHANGED <<spawned, finishing, term, booted, restarts, used, prowVars, ghosts>>
  BY DEF NewJobFails, LaunchCleanup
<1>2. TypeOK'
  BY <1>1, IdleWorkerType DEF TypeInv, TypeOK, prowVars, ghosts
<1>3. WorkerHasJob' /\ ProwJobExists'
  BY <1>1, IdleWorkerType DEF TypeInv, TypeOK, WorkerHasJob, ProwJobExists, prowVars
<1>4. OwnRequest' /\ EndedEarly'
  BY <1>1, NilIsNothing, JobManagerAssumption
  DEF TypeInv, TypeOK, OwnRequest, EndedEarly, prowVars
<1>5. FreshNames'
  BY <1>1, NilIsNothing, JobManagerAssumption DEF TypeInv, TypeOK, FreshNames, prowVars
<1> QED
  BY <1>2, <1>3, <1>4, <1>5 DEF TypeInv

\* Types: newJob returns the URL or times out.
LEMMA NewJobReturnsTypeInv ==
    ASSUME TypeInv, NEW j \in Jobs, NewJobReturns(j) \/ NewJobTimesOut(j)
    PROVE  TypeInv'
<1>1. /\ worker' = [worker EXCEPT ![j] = IdleWorker]
      /\ \/ spawned' = [spawned EXCEPT ![j] = @ \cup {worker[j].job}]
         \/ spawned' = spawned
      /\ UNCHANGED <<requests, jobs, finishing, term, booted, restarts, used, prowVars, ghosts>>
  BY DEF NewJobReturns, NewJobTimesOut
<1>2. worker[j].job \in JobRecord /\ prow[j] # Nil
  BY Following DEF NewJobReturns, NewJobTimesOut
<1>3. TypeOK'
  BY <1>1, <1>2, IdleWorkerType DEF TypeInv, TypeOK, prowVars, ghosts
<1>4. WorkerHasJob' /\ ProwJobExists'
  BY <1>1, <1>2, IdleWorkerType DEF TypeInv, TypeOK, WorkerHasJob, ProwJobExists, prowVars
<1>5. OwnRequest' /\ EndedEarly'
  BY <1>1 DEF TypeInv, OwnRequest, EndedEarly, prowVars
<1>6. FreshNames'
  BY <1>1, <1>2 DEF TypeInv, TypeOK, FreshNames, prowVars
<1> QED
  BY <1>3, <1>4, <1>5, <1>6 DEF TypeInv

\* Types: handleJobStartup takes the slot or returns.
LEMMA StartWorkerTypeInv ==
    ASSUME TypeInv, NEW j \in Jobs, StartWorker(j)
    PROVE  TypeInv'
<1>1. PICK job \in spawned[j] :
         /\ spawned' = [spawned EXCEPT ![j] = @ \ {job}]
         /\ worker' = IF worker[j].pc # "idle" THEN worker
                      ELSE [worker EXCEPT ![j] =
                              WorkerAt(IF job.Credentials THEN "finish" ELSE "poll", job)]
         /\ UNCHANGED <<requests, jobs, finishing, term, booted, restarts, used,
                        prowVars, ghosts>>
  BY DEF StartWorker
<1>2. job \in JobRecord /\ job # Nil /\ prow[j] # Nil
  BY NilIsNothing DEF TypeInv, TypeOK, ProwJobExists
<1> DEFINE wa == WorkerAt(IF job.Credentials THEN "finish" ELSE "poll", job)
<1>3. wa \in WorkerRecord /\ wa.job = job
  BY <1>2 DEF WorkerAt, WorkerRecord, Phases
<1> HIDE DEF wa
<1>4. worker' = worker \/ worker' = [worker EXCEPT ![j] = wa]
  BY <1>1 DEF wa
<1>5. TypeOK'
  BY <1>1, <1>3, <1>4 DEF TypeInv, TypeOK, prowVars, ghosts
<1>6. WorkerHasJob' /\ ProwJobExists'
  BY <1>1, <1>2, <1>3, <1>4 DEF TypeInv, TypeOK, WorkerHasJob, ProwJobExists, prowVars
<1>7. OwnRequest' /\ EndedEarly'
  BY <1>1 DEF TypeInv, OwnRequest, EndedEarly, prowVars
<1>8. FreshNames'
  BY <1>1, <1>2, <1>4 DEF TypeInv, TypeOK, FreshNames, prowVars
<1> QED
  BY <1>5, <1>6, <1>7, <1>8 DEF TypeInv

\* Types: clearing the annotation of a ProwJob that exists.
LEMMA ClearTypeInv ==
    ASSUME TypeInv, NEW j \in Jobs, clearNotificationAnnotations(j)
    PROVE  TypeInv'
<1>1. prow[j] # Nil /\ prow[j] \in ProwRecord /\ worker[j].job \in JobRecord
  BY Following DEF clearNotificationAnnotations, TypeInv, TypeOK
<1>2. prow' = prow \/ prow' = [prow EXCEPT ![j].channel = FALSE]
  BY DEF clearNotificationAnnotations
<1>3. prow' \in [Jobs -> ProwRecord \cup {Nil}] /\ \A k \in Jobs : prow[k] = Nil <=> prow'[k] = Nil
  <2> DEFINE pj == [prow[j] EXCEPT !.channel = FALSE]
  <2>1. pj \in ProwRecord
    BY <1>1 DEF ProwRecord
  <2>2. prow' = prow \/ prow' = [prow EXCEPT ![j] = pj]
    BY <1>2
  <2> HIDE DEF pj
  <2> QED
    BY <1>1, <2>1, <2>2, NilIsNothing DEF TypeInv, TypeOK
<1>4. worker' \in [Jobs -> WorkerRecord]
  BY DEF clearNotificationAnnotations, TypeInv, TypeOK, WorkerRecord, Phases
<1>5. TypeOK'
  BY <1>3, <1>4 DEF clearNotificationAnnotations, TypeInv, TypeOK, ghosts
<1>6. WorkerHasJob'
  BY <1>4 DEF clearNotificationAnnotations, TypeInv, TypeOK, WorkerHasJob, WorkerRecord
<1>7. ProwJobExists' /\ EndedEarly' /\ OwnRequest'
  BY <1>1, <1>3
  DEF clearNotificationAnnotations, TypeInv, TypeOK, ProwJobExists, EndedEarly, OwnRequest
<1>8. FreshNames'
  BY <1>1, <1>3 DEF clearNotificationAnnotations, TypeInv, TypeOK, FreshNames
<1> QED
  BY <1>5, <1>6, <1>7, <1>8 DEF TypeInv

\* finishedJob, whoever runs it, keeps a Job in the map.
LEMMA FinishedJobTypeInv ==
    ASSUME TypeInv, NEW j \in Jobs, NEW job \in JobRecord, prow[j] # Nil,
           finishedJob(j, job),
           worker' \in [Jobs -> WorkerRecord], WorkerHasJob',
           \A k \in Jobs : worker'[k] = worker[k] \/ (k = j /\ k \in used),
           finishing' \in [Jobs -> SUBSET JobRecord],
           \A k \in Jobs : finishing'[k] \subseteq finishing[k]
    PROVE  TypeInv'
<1> DEFINE told == [job EXCEPT !.RequestedChannel = FALSE]
<1>1. told \in JobRecord /\ told # Nil
  BY WorkerCopies, NilIsNothing
<1>2. /\ jobs' = [jobs EXCEPT ![j] = told]
      /\ UNCHANGED <<requests, spawned, term, booted, restarts, used, prowVars, released>>
  BY DEF finishedJob
<1> HIDE DEF told
<1>3. sent' \in [Jobs -> SUBSET Messages]
  BY DEF finishedJob, NotifyJob, Messages, TypeInv, TypeOK
<1>4. TypeOK'
  BY <1>1, <1>2, <1>3 DEF TypeInv, TypeOK, prowVars
<1>5. j \in used
  BY DEF TypeInv, FreshNames
<1>6. ProwJobExists' /\ EndedEarly' /\ OwnRequest'
  BY <1>1, <1>2 DEF TypeInv, TypeOK, ProwJobExists, EndedEarly, OwnRequest, prowVars
<1>7. FreshNames'
  BY <1>2, <1>5 DEF TypeInv, TypeOK, FreshNames, prowVars
<1> QED
  BY <1>4, <1>6, <1>7 DEF TypeInv

\* Types: a worker reports and gives its slot back.
LEMMA FinishWorkerTypeInv ==
    ASSUME TypeInv, NEW j \in Jobs, FinishWorker(j)
    PROVE  TypeInv'
<1>1. /\ finishedJob(j, worker[j].job) /\ worker' = [worker EXCEPT ![j] = IdleWorker]
      /\ finishing' = finishing
  BY DEF FinishWorker
<1>2. worker[j].job \in JobRecord /\ prow[j] # Nil
  BY Following DEF FinishWorker
<1>3. j \in used
  BY <1>2 DEF TypeInv, FreshNames
<1>4. worker' \in [Jobs -> WorkerRecord] /\ WorkerHasJob'
  BY <1>1, IdleWorkerType DEF TypeInv, TypeOK, WorkerHasJob
<1>5. \A k \in Jobs : worker'[k] = worker[k] \/ (k = j /\ k \in used)
  BY <1>1, <1>3 DEF TypeInv, TypeOK
<1>6. finishing' \in [Jobs -> SUBSET JobRecord] /\ \A k \in Jobs : finishing'[k] \subseteq finishing[k]
  BY <1>1 DEF TypeInv, TypeOK
<1> QED
  BY <1>1, <1>2, <1>4, <1>5, <1>6, FinishedJobTypeInv

\* Types: sync's goroutine reports an outcome.
LEMMA FinishFromSyncTypeInv ==
    ASSUME TypeInv, NEW j \in Jobs, FinishFromSync(j)
    PROVE  TypeInv'
<1>1. PICK job \in finishing[j] :
         /\ finishing' = [finishing EXCEPT ![j] = @ \ {job}]
         /\ finishedJob(j, job)
         /\ worker' = [worker EXCEPT ![j].shared = FALSE]
  BY DEF FinishFromSync
<1>2. job \in JobRecord /\ prow[j] # Nil /\ j \in used
  BY DEF TypeInv, TypeOK, ProwJobExists, FreshNames
<1>3. worker' \in [Jobs -> WorkerRecord]
  BY <1>1 DEF TypeInv, TypeOK, WorkerRecord
<1>4. WorkerHasJob'
  BY <1>1, <1>3 DEF TypeInv, TypeOK, WorkerHasJob, WorkerRecord
<1>5. \A k \in Jobs : worker'[k] = worker[k] \/ (k = j /\ k \in used)
  BY <1>1, <1>2 DEF TypeInv, TypeOK
<1>6. finishing' \in [Jobs -> SUBSET JobRecord] /\ \A k \in Jobs : finishing'[k] \subseteq finishing[k]
  BY <1>1 DEF TypeInv, TypeOK
<1> QED
  BY <1>1, <1>2, <1>3, <1>4, <1>5, <1>6, FinishedJobTypeInv

\* Types: done stops the ProwJob of the user's own request.
LEMMA TerminateStopTypeInv ==
    ASSUME TypeInv, NEW u \in Users, TerminateStop(u)
    PROVE  TypeInv'
<1> DEFINE j == requests[u]
<1>1. /\ j \in Jobs /\ RequestedBy[j] = u /\ j \in used
      /\ term' = [term EXCEPT ![u] = j] /\ stopJob(j)
      /\ UNCHANGED <<requests, jobs, worker, spawned, finishing, booted, restarts,
                     used, lister, pod, passed, ghosts>>
  BY DEF TerminateStop, TypeInv, TypeOK, OwnRequest, FreshNames
<1> HIDE DEF j
<1>2. prow' = prow \/ (prow[j] # Nil /\ prow' = [prow EXCEPT ![j].state = "aborted"])
  BY <1>1 DEF stopJob, MarkAborted
<1>3. prow' \in [Jobs -> ProwRecord \cup {Nil}] /\ \A k \in Jobs : prow[k] = Nil <=> prow'[k] = Nil
  <2>1. prow[j] # Nil => [prow[j] EXCEPT !.state = "aborted"] \in ProwRecord
    BY <1>1 DEF TypeInv, TypeOK, ProwRecord, ProwStates, JobStates
  <2> QED
    BY <1>1, <1>2, <2>1, NilIsNothing DEF TypeInv, TypeOK
<1>4. TypeOK'
  BY <1>1, <1>3 DEF TypeInv, TypeOK, ghosts
<1>5. WorkerHasJob' /\ ProwJobExists' /\ EndedEarly'
  BY <1>1, <1>3 DEF TypeInv, WorkerHasJob, ProwJobExists, EndedEarly
<1>6. OwnRequest'
  BY <1>1 DEF TypeInv, TypeOK, OwnRequest
<1>7. FreshNames'
  BY <1>1, <1>3 DEF TypeInv, TypeOK, FreshNames
<1> QED
  BY <1>4, <1>5, <1>6, <1>7 DEF TypeInv

\* Types: done marks the job and clears the request.
LEMMA TerminateMarkTypeInv ==
    ASSUME TypeInv, NEW u \in Users, TerminateMark(u)
    PROVE  TypeInv'
<1> DEFINE j == term[u]
<1>1. /\ j \in Jobs /\ RequestedBy[j] = u /\ j \in used
      /\ term' = [term EXCEPT ![u] = Nil]
      /\ jobs' = IF jobs[j] = Nil THEN jobs ELSE [jobs EXCEPT ![j] = Terminated(@)]
      /\ worker' = IF jobs[j] # Nil /\ worker[j].shared
                   THEN [worker EXCEPT ![j].job = Terminated(@)] ELSE worker
      /\ requests' = IF requests[u] = j THEN [requests EXCEPT ![u] = Nil] ELSE requests
      /\ released' \subseteq released \cup {j}
      /\ UNCHANGED <<spawned, finishing, booted, restarts, used, prowVars, sent>>
  BY DEF TerminateMark, TypeInv, TypeOK, OwnRequest, FreshNames
<1> HIDE DEF j
<1>2. jobs' \in [Jobs -> JobRecord \cup {Nil}] /\ \A k \in Jobs \ {j} : jobs'[k] = jobs[k]
  <2>1. jobs[j] # Nil => Terminated(jobs[j]) \in JobRecord
    BY <1>1, WorkerCopies DEF TypeInv, TypeOK
  <2> QED
    BY <1>1, <2>1 DEF TypeInv, TypeOK
<1>3. /\ worker' \in [Jobs -> WorkerRecord]
      /\ \A k \in Jobs : /\ worker'[k].pc = worker[k].pc
                         /\ worker'[k].shared = worker[k].shared
                         /\ worker'[k].job = Nil <=> worker[k].job = Nil
      /\ \A k \in Jobs \ {j} : worker'[k] = worker[k]
  <2>1. CASE worker' = worker
    BY <2>1 DEF TypeInv, TypeOK
  <2>2. CASE worker[j].shared /\ worker' = [worker EXCEPT ![j].job = Terminated(@)]
    <3>1. worker[j] \in WorkerRecord /\ worker[j].job \in JobRecord
      BY <1>1, <2>2 DEF TypeInv, TypeOK, WorkerHasJob, WorkerRecord
    <3>2. Terminated(worker[j].job) \in JobRecord
      BY <1>1, <3>1, WorkerCopies
    <3>3. [worker[j] EXCEPT !.job = Terminated(worker[j].job)] \in WorkerRecord
      BY <3>1, <3>2 DEF WorkerRecord
    <3> QED
      BY <1>1, <2>2, <3>1, <3>2, <3>3, NilIsNothing DEF TypeInv, TypeOK, WorkerRecord
  <2> QED
    BY <1>1, <2>1, <2>2
<1>4. TypeOK'
  BY <1>1, <1>2, <1>3 DEF TypeInv, TypeOK, prowVars
<1>5. WorkerHasJob' /\ ProwJobExists'
  BY <1>1, <1>3 DEF TypeInv, WorkerHasJob, ProwJobExists, prowVars
<1>6. OwnRequest' /\ EndedEarly'
  BY <1>1, <1>2, NilIsNothing, JobManagerAssumption
  DEF TypeInv, TypeOK, OwnRequest, EndedEarly, prowVars
<1>7. FreshNames'
  BY <1>1, <1>2, <1>3, NilIsNothing DEF TypeInv, TypeOK, FreshNames, prowVars
<1> QED
  BY <1>4, <1>5, <1>6, <1>7 DEF TypeInv

\* Types: refresh starts a worker only for a job whose ProwJob exists.
LEMMA RefreshTypeInv ==
    ASSUME TypeInv, NEW u \in Users, SyncJobForUser(u)
    PROVE  TypeInv'
<1> DEFINE j == requests[u]
           copy == [jobs[j] EXCEPT !.Failure = FALSE]
<1>1. /\ j \in Jobs /\ RequestedBy[j] = u /\ j \in used
      /\ jobs[j] \in JobRecord /\ (jobs[j].Failure \/ jobs[j].Credentials)
      /\ spawned' = [spawned EXCEPT ![j] = @ \cup {copy}]
      /\ UNCHANGED <<requests, jobs, worker, finishing, term, booted, restarts,
                     used, prowVars, ghosts>>
  BY DEF SyncJobForUser, TypeInv, TypeOK, OwnRequest, FreshNames
<1>2. copy \in JobRecord /\ prow[j] # Nil
  BY <1>1, WorkerCopies, NilIsNothing DEF TypeInv, EndedEarly
<1> HIDE DEF j, copy
<1>3. TypeOK'
  BY <1>1, <1>2 DEF TypeInv, TypeOK, prowVars, ghosts
<1>4. WorkerHasJob' /\ ProwJobExists' /\ EndedEarly' /\ OwnRequest'
  BY <1>1, <1>2
  DEF TypeInv, TypeOK, WorkerHasJob, ProwJobExists, EndedEarly, OwnRequest, prowVars
<1>5. FreshNames'
  BY <1>1 DEF TypeInv, TypeOK, FreshNames, prowVars
<1> QED
  BY <1>3, <1>4, <1>5 DEF TypeInv

\* Types: one pass of sync over the ProwJobs and the expiries.
LEMMA SyncTypeInv ==
    ASSUME TypeInv, Sync
    PROVE  TypeInv'
<1>1. \A j \in Reflected : Listed(j) # Nil /\ FromProwJob(j) \in JobRecord
                         /\ prow[j] # Nil /\ j \in Jobs /\ j \in used
  <2> TAKE j \in Reflected
  <2>1. j \in Jobs /\ Listed(j) # Nil
    BY DEF Reflected
  <2> QED
    BY <2>1, FromProwJobType DEF TypeInv, FreshNames
<1>2. /\ jobs' \in [Jobs -> JobRecord \cup {Nil}]
      /\ \A j \in Jobs : \/ jobs'[j] \in {jobs[j], Nil}
                         \/ j \in Reflected /\ jobs'[j] = FromProwJob(j)
  BY <1>1 DEF Sync, SyncJobs, Unexpired, TypeInv, TypeOK
<1>3. PICK claim \in [Users -> Jobs \cup {Nil}] :
         /\ \A u \in Users : claim[u] \in Claims(u)
         /\ requests' = [u \in Users |-> UnexpiredRequest(claim[u])]
  BY DEF Sync
<1>4. /\ requests' \in [Users -> Jobs \cup {Nil}]
      /\ \A u \in Users : \/ requests'[u] \in {requests[u], Nil}
                          \/ requests'[u] \in Unclaimed(u)
  BY <1>3 DEF Claims, UnexpiredRequest
<1>5. \A u \in Users : \A j \in Unclaimed(u) : j \in Reflected /\ RequestedBy[j] = u
  BY DEF Unclaimed, Pending
<1>6. /\ spawned' \in [Jobs -> SUBSET JobRecord]
      /\ \A j \in Jobs : spawned'[j] = spawned[j] \/ j \in Reflected
  BY <1>1 DEF Sync, NeedsWorker, Pending, TypeInv, TypeOK
<1>7. /\ finishing' \in [Jobs -> SUBSET JobRecord]
      /\ \A j \in Jobs : finishing'[j] = finishing[j] \/ j \in Reflected
  BY <1>1 DEF Sync, NeedsFinish, TypeInv, TypeOK
<1>8. /\ worker' \in [Jobs -> WorkerRecord]
      /\ \A j \in Jobs : /\ worker'[j].pc = worker[j].pc /\ worker'[j].job = worker[j].job
                         /\ worker'[j].shared => worker[j].shared
                         /\ worker'[j] = worker[j] \/ j \in Reflected
  <2>1. worker' = [j \in Jobs |-> IF j \in Reflected
                                  THEN [worker[j] EXCEPT !.shared = FALSE] ELSE worker[j]]
    BY DEF Sync
  <2>2. \A j \in Jobs : /\ [worker[j] EXCEPT !.shared = FALSE] \in WorkerRecord
                        /\ [worker[j] EXCEPT !.shared = FALSE].pc = worker[j].pc
                        /\ [worker[j] EXCEPT !.shared = FALSE].job = worker[j].job
                        /\ ~[worker[j] EXCEPT !.shared = FALSE].shared
    BY DEF TypeInv, TypeOK, WorkerRecord
  <2> QED
    BY <2>1, <2>2 DEF TypeInv, TypeOK
<1>9. booted' = TRUE /\ UNCHANGED <<term, restarts, used, prowVars, ghosts>>
  BY DEF Sync
<1>10. TypeOK'
  <2>1. booted' \in BOOLEAN
    BY <1>9
  <2> QED
    BY <1>2, <1>4, <1>6, <1>7, <1>8, <1>9, <2>1 DEF TypeInv, TypeOK, prowVars, ghosts
<1>11. WorkerHasJob' /\ ProwJobExists'
  BY <1>1, <1>6, <1>7, <1>8, <1>9 DEF TypeInv, WorkerHasJob, ProwJobExists, prowVars
<1>12. OwnRequest'
  BY <1>4, <1>5, <1>9 DEF TypeInv, OwnRequest
<1>13. EndedEarly'
  <2> SUFFICES ASSUME NEW j \in Jobs, jobs'[j] # Nil, jobs'[j].Failure \/ jobs'[j].Credentials,
                      prow'[j] = Nil
               PROVE  requests'[RequestedBy[j]] # j
    BY DEF EndedEarly
  <2>1. j \notin Reflected /\ jobs'[j] = jobs[j]
    BY <1>1, <1>2, <1>9 DEF prowVars
  <2>2. RequestedBy[j] \in Users /\ requests[RequestedBy[j]] # j
    BY <2>1, <1>9, JobManagerAssumption DEF TypeInv, EndedEarly, prowVars
  <2> QED
    BY <1>4, <1>5, <2>1, <2>2, NilIsNothing
<1>14. FreshNames'
  BY <1>1, <1>2, <1>4, <1>5, <1>6, <1>7, <1>8, <1>9, NilIsNothing
  DEF TypeInv, FreshNames, prowVars
<1> QED
  BY <1>10, <1>11, <1>12, <1>13, <1>14 DEF TypeInv

\* Types: Prow moves a ProwJob on.
LEMMA ProwStepTypeInv ==
    ASSUME TypeInv, NEW j \in Jobs, ProwStep(j)
    PROVE  TypeInv'
<1>1. prow[j] # Nil /\ \E state \in ProwStates, p \in PodStates : Prow(j, state, p)
  BY DEF ProwStep, ProwStates, JobStates, PodStates, TypeInv, TypeOK
<1>2. PICK state \in ProwStates, p \in PodStates : Prow(j, state, p)
  BY <1>1
<1> DEFINE pj == [prow[j] EXCEPT !.state = state]
<1>3. /\ prow' = [prow EXCEPT ![j] = pj] /\ pod' = [pod EXCEPT ![j] = p]
      /\ UNCHANGED <<botVars, restarts, used, lister, passed, ghosts>>
  BY <1>2 DEF Prow
<1>4. pj \in ProwRecord /\ pj # Nil
  BY <1>1, NilIsNothing DEF TypeInv, TypeOK, ProwRecord
<1> HIDE DEF pj
<1>5. TypeOK'
  BY <1>3, <1>4 DEF TypeInv, TypeOK, botVars, ghosts
<1>6. WorkerHasJob' /\ ProwJobExists' /\ OwnRequest' /\ EndedEarly'
  BY <1>3, <1>4 DEF TypeInv, TypeOK, WorkerHasJob, ProwJobExists, OwnRequest, EndedEarly, botVars
<1>7. FreshNames'
  BY <1>1, <1>3, <1>4 DEF TypeInv, TypeOK, FreshNames, botVars
<1> QED
  BY <1>5, <1>6, <1>7 DEF TypeInv

\* Types: the informer catches up.
LEMMA DeliverTypeInv ==
    ASSUME TypeInv, NEW j \in Jobs, Deliver(j)
    PROVE  TypeInv'
<1>1. TypeOK'
  BY DEF Deliver, TypeInv, TypeOK, botVars, ghosts
<1>2. WorkerHasJob' /\ ProwJobExists' /\ OwnRequest' /\ EndedEarly'
  BY DEF Deliver, TypeInv, TypeOK, WorkerHasJob, ProwJobExists, OwnRequest, EndedEarly, botVars
<1>3. FreshNames'
  BY DEF Deliver, TypeInv, TypeOK, FreshNames, botVars
<1> QED
  BY <1>1, <1>2, <1>3 DEF TypeInv

\* When a deadline passes: an age after launch has been answered, a request
\* after the age of its job.
LEMMA DueMeaning ==
    ASSUME TypeInv, NEW j \in Jobs, NEW d \in Due(j)
    PROVE  /\ d \in Deadlines
           /\ d = "age" => j \in used /\ worker[j].pc \notin {"create", "url"}
           /\ d = "request" => "age" \in passed[j]
           /\ j \in used
<1>1. d \in Deadlines
  BY JobManagerAssumption DEF Due
<1>2. CASE d = "age"
  BY <1>1, <1>2 DEF Due
<1>3. CASE d = "request"
  BY <1>1, <1>3 DEF Due, TypeInv, FreshNames
<1>4. CASE d = "completed"
  BY <1>1, <1>4 DEF Due, TypeInv, FreshNames
<1>5. CASE d = "terminated"
  BY <1>1, <1>5 DEF Due, TypeInv, FreshNames
<1> QED
  BY <1>1, <1>2, <1>3, <1>4, <1>5 DEF Deadlines

\* Types: a deadline passes.
LEMMA TimePassesTypeInv ==
    ASSUME TypeInv, NEW j \in Jobs, TimePasses(j)
    PROVE  TypeInv'
<1>1. PICK d \in Due(j) : passed' = [passed EXCEPT ![j] = @ \cup {d}]
  BY DEF TimePasses
<1>2. d \in Deadlines /\ j \in used
  BY DueMeaning
<1>3. TypeOK'
  BY <1>1, <1>2 DEF TimePasses, TypeInv, TypeOK, botVars, ghosts
<1>4. WorkerHasJob' /\ ProwJobExists' /\ OwnRequest' /\ EndedEarly'
  BY DEF TimePasses, TypeInv, WorkerHasJob, ProwJobExists, OwnRequest, EndedEarly, botVars
<1>5. FreshNames'
  BY <1>1, <1>2 DEF TimePasses, TypeInv, TypeOK, FreshNames, botVars
<1> QED
  BY <1>3, <1>4, <1>5 DEF TypeInv

\* Types: the maps of a new process.
LEMMA RestartTypeInv ==
    ASSUME TypeInv, Restart
    PROVE  TypeInv'
<1>1. booted' \in BOOLEAN
  BY DEF Restart
<1>0. restarts' \in 0..MaxRestarts
  BY JobManagerAssumption DEF Restart, TypeInv, TypeOK
<1>2. TypeOK'
  BY <1>0, <1>1, IdleWorkerType DEF Restart, TypeInv, TypeOK, ghosts
<1>3. WorkerHasJob' /\ ProwJobExists' /\ OwnRequest' /\ EndedEarly'
  BY IdleWorkerType
  DEF Restart, TypeInv, TypeOK, WorkerHasJob, ProwJobExists, OwnRequest, EndedEarly
<1>4. FreshNames'
  BY NilIsNothing DEF Restart, TypeInv, TypeOK, FreshNames
<1> QED
  BY <1>2, <1>3, <1>4 DEF TypeInv

\* The type invariant with what it needs to know of goroutines is inductive.
LEMMA NextTypeInv == TypeInv /\ [Next]_vars => TypeInv'
<1> SUFFICES ASSUME TypeInv, [Next]_vars PROVE TypeInv'
  OBVIOUS
<1>1. ASSUME NEW j \in Jobs,
             \/ LaunchCluster(j) \/ LaunchOther(j) \/ NewJob(j)
             \/ Goroutine(j) \/ waitForJob(j) \/ FinishWorker(j)
             \/ ProwStep(j) \/ Deliver(j) \/ TimePasses(j)
      PROVE  TypeInv'
  BY <1>1, LaunchClusterTypeInv, LaunchOtherTypeInv, CreateProwJobTypeInv,
     NewJobFailsTypeInv, NewJobReturnsTypeInv, StartWorkerTypeInv, FinishFromSyncTypeInv,
     WaitTypeInv, ClearTypeInv, FinishWorkerTypeInv, ProwStepTypeInv, DeliverTypeInv,
     TimePassesTypeInv
  DEF NewJob, Goroutine, waitForJob
<1>2. ASSUME NEW u \in Users, TerminateStop(u) \/ TerminateMark(u) \/ SyncJobForUser(u)
      PROVE  TypeInv'
  BY <1>2, TerminateStopTypeInv, TerminateMarkTypeInv, RefreshTypeInv
<1>3. CASE Sync
  BY <1>3, SyncTypeInv
<1>4. CASE Restart
  BY <1>4, RestartTypeInv
<1>5. CASE UNCHANGED vars
  BY <1>5 DEF TypeInv, TypeOK, WorkerHasJob, ProwJobExists, OwnRequest, EndedEarly,
     FreshNames, vars, botVars, prowVars, ghosts
<1> QED
  BY <1>1, <1>2, <1>3, <1>4, <1>5 DEF Next

\* Every variable keeps its type, whatever the environment does: no goroutine
\* works without a copy of its job or asks for a ProwJob that is not there.
THEOREM TypeCorrect == Spec => [](TypeOK /\ WorkerHasJob /\ ProwJobExists)
<1>1. TypeInv => TypeOK /\ WorkerHasJob /\ ProwJobExists
  BY DEF TypeInv
<1> QED
  BY <1>1, InitTypeInv, NextTypeInv, PTL DEF Spec

=============================================================================
