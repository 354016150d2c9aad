--------------------------- MODULE PipelineRunner ---------------------------
(***************************************************************************)
(* The pipelineRunner of src/prunner.go: admission of schedule requests,   *)
(* per-pipeline wait lists, job completion and wait-list drainage, the     *)
(* debounced persistence goroutine and the restart from the data store.    *)
(*                                                                         *)
(* Every handler runs under r.mx, so each one is a single atomic step. A   *)
(* job's execution (r.sched.Schedule in the goroutine of startJob) is      *)
(* abstracted to "executing" until jobCompleted; the task layer is modelled *)
(* separately. A process crash followed by newPipelineRunner is Restart.   *)
(***************************************************************************)
EXTENDS Naturals, FiniteSets, SequencesExt

CONSTANTS
    Pipelines,      \* names of r.defs.Pipelines
    Concurrency,    \* pipelineDef.Concurrency
    QueueLimit,     \* *pipelineDef.QueueLimit, or NoLimit when it is nil
    QueueStrategy,  \* pipelineDef.QueueStrategy: "append" or "replace"
    NoLimit,        \* model value standing for a nil QueueLimit
    JobIds,         \* the UUIDs uuid.NewV4 may return (a bounded pool)
    GraphFails,     \* pipelines whose tasks scheduler.NewExecutionGraph rejects
    SaveMayFail,    \* whether r.store.Save may return an error
    MaxRestarts     \* bound on process restarts

ASSUME
    /\ Concurrency \in [Pipelines -> Nat \ {0}]
    /\ QueueLimit \in [Pipelines -> Nat \cup {NoLimit}]
    /\ QueueStrategy \in [Pipelines -> {"append", "replace"}]
    /\ GraphFails \subseteq Pipelines
    /\ SaveMayFail \in BOOLEAN
    /\ MaxRestarts \in Nat

VARIABLES
    jobsByID,        \* r.jobsByID: id -> pipelineJob record
    waitList,        \* r.waitListByPipeline
    executing,       \* ids whose goroutine is inside r.sched.Schedule(graph)
    persistRequests, \* number of signals buffered in r.persistRequests (cap 1)
    writerPc,        \* position of the persistence goroutine in its loop
    snapshot,        \* persistedData built by saveToStore and not yet saved
    stored,          \* persistedData held by the data store on disk
    issued,          \* ids uuid.NewV4 has returned so far (time order)
    response,        \* what the last ScheduleAsync call returned
    restarts         \* process restarts so far

vars == <<jobsByID, waitList, executing, persistRequests, writerPc,
          snapshot, stored, issued, response, restarts>>

(***************************************************************************)
(* Data. r.jobsByPipeline is the index {id : jobsByID[id].pipeline = p}    *)
(* (both are filled together in ScheduleAsync and initialLoadFromStore) and *)
(* is not kept separately. Created is a logical clock: the admission rank. *)
(***************************************************************************)
Job == [pipeline: Pipelines, created: Nat, start: BOOLEAN,
        completed: BOOLEAN, canceled: BOOLEAN, lastError: BOOLEAN]

PersistedJob == [pipeline: Pipelines, created: Nat, start: BOOLEAN,
                 completed: BOOLEAN, canceled: BOOLEAN]

Actions == {"start", "queue", "replace", "noQueue", "queueFull"}

\* pipelineJob.isRunning
IsRunning(j) == j.start /\ ~j.completed /\ ~j.canceled

\* A runner state: the fields the handlers below read and write under r.mx.
Current == [jobs |-> jobsByID, wl |-> waitList, exec |-> executing,
            persist |-> persistRequests]

Commit(s) ==
    /\ jobsByID' = s.jobs
    /\ waitList' = s.wl
    /\ executing' = s.exec
    /\ persistRequests' = s.persist

\* Mutant: a channel without a capacity bound (every request is kept).
RequestPersistUnbounded(s) == [s EXCEPT !.persist = @ + 1]

\* requestPersist: a non-blocking send on a channel buffered with one slot.
RequestPersist(s) == [s EXCEPT !.persist = IF @ < 1 THEN @ + 1 ELSE @]

\* runningJobsCount
RunningJobsCount(s, p) ==
    Cardinality({id \in DOMAIN s.jobs : s.jobs[id].pipeline = p
                                        /\ IsRunning(s.jobs[id])})

\* Mutant: ">" for ">=" in the concurrency check.
ResolveScheduleActionGt(s, p) ==
    IF RunningJobsCount(s, p) > Concurrency[p]
    THEN CASE QueueLimit[p] # NoLimit /\ QueueLimit[p] = 0 -> "noQueue"
           [] QueueStrategy[p] = "replace" /\ Len(s.wl[p]) > 0 -> "replace"
           [] QueueLimit[p] # NoLimit /\ Len(s.wl[p]) >= QueueLimit[p]
                                                             -> "queueFull"
           [] OTHER -> "queue"
    ELSE "start"

\* Mutant: ">" for ">=" in the queue-limit check.
ResolveScheduleActionFullGt(s, p) ==
    IF RunningJobsCount(s, p) >= Concurrency[p]
    THEN CASE QueueLimit[p] # NoLimit /\ QueueLimit[p] = 0 -> "noQueue"
           [] QueueStrategy[p] = "replace" /\ Len(s.wl[p]) > 0 -> "replace"
           [] QueueLimit[p] # NoLimit /\ Len(s.wl[p]) > QueueLimit[p]
                                                             -> "queueFull"
           [] OTHER -> "queue"
    ELSE "start"

\* resolveScheduleAction
ResolveScheduleAction(s, p) ==
    IF RunningJobsCount(s, p) >= Concurrency[p]
    THEN CASE QueueLimit[p] # NoLimit /\ QueueLimit[p] = 0 -> "noQueue"
           [] QueueStrategy[p] = "replace" /\ Len(s.wl[p]) > 0 -> "replace"
           [] QueueLimit[p] # NoLimit /\ Len(s.wl[p]) >= QueueLimit[p]
                                                             -> "queueFull"
           [] OTHER -> "queue"
    ELSE "start"

(***************************************************************************)
(* startJob and startJobsOnWaitList call each other: a job whose graph     *)
(* cannot be built is canceled and the wait list is drained again from the *)
(* list stored in r.waitListByPipeline, while an outer drain keeps its own *)
(* local copy and writes it back when its loop ends.                       *)
(***************************************************************************)
RECURSIVE StartJob(_, _), StartJobsOnWaitList(_, _), DrainLoop(_, _, _)
RECURSIVE DrainLoopNoWriteBack(_, _, _), DrainLoopSkipsLast(_, _, _)

\* startJob
StartJob(s, id) ==
    LET p == s.jobs[id].pipeline IN
    IF p \in GraphFails
    THEN RequestPersist(StartJobsOnWaitList(
            [s EXCEPT !.jobs[id].lastError = TRUE,
                      !.jobs[id].canceled = TRUE], p))
    ELSE RequestPersist([s EXCEPT !.jobs[id].start = TRUE,
                                  !.exec = @ \cup {id}])

\* Mutant: the shortened local list is never written back.
DrainLoopNoWriteBack(s, p, local) ==
    IF local # <<>> /\ ResolveScheduleAction(s, p) = "start"
    THEN DrainLoopNoWriteBack(StartJob(s, Head(local)), p, Tail(local))
    ELSE s

\* Mutant: the loop stops while one job is still waiting.
DrainLoopSkipsLast(s, p, local) ==
    IF Len(local) > 1 /\ ResolveScheduleAction(s, p) = "start"
    THEN DrainLoopSkipsLast(StartJob(s, Head(local)), p, Tail(local))
    ELSE [s EXCEPT !.wl[p] = local]

\* the loop of startJobsOnWaitList over its local copy of the wait list
DrainLoop(s, p, local) ==
    IF local # <<>> /\ ResolveScheduleAction(s, p) = "start"
    THEN DrainLoop(StartJob(s, Head(local)), p, Tail(local))
    ELSE [s EXCEPT !.wl[p] = local]

\* Mutant: the wait list is drained from its tail.
StartJobsOnWaitListLifo(s, p) ==
    LET drained == DrainLoop([s EXCEPT !.wl[p] = Reverse(@)], p,
                             Reverse(s.wl[p]))
    IN [drained EXCEPT !.wl[p] = Reverse(@)]

\* startJobsOnWaitList
StartJobsOnWaitList(s, p) == DrainLoop(s, p, s.wl[p])

\* Mutant: the replaced job is not marked canceled.
ReplaceOnWaitListNoCancel(s, p, id) ==
    [s EXCEPT !.wl[p][Len(s.wl[p])] = id]

\* Mutant: the new job is appended instead of taking the tail's slot.
ReplaceOnWaitListAppend(s, p, id) ==
    LET tail == Len(s.wl[p]) IN
    [s EXCEPT !.jobs[s.wl[p][tail]].canceled = TRUE, !.wl[p] = Append(@, id)]

\* the scheduleActionReplace branch of ScheduleAsync
ReplaceOnWaitList(s, p, id) ==
    LET tail == Len(s.wl[p]) IN
    [s EXCEPT !.jobs[s.wl[p][tail]].canceled = TRUE, !.wl[p][tail] = id]

\* the persistedJob written by saveToStore: LastError is not part of it
ToPersisted(j) == [pipeline |-> j.pipeline, created |-> j.created,
                   start |-> j.start, completed |-> j.completed,
                   canceled |-> j.canceled]

\* the data built by saveToStore under r.mx.RLock
PersistedData(jobs, wl) ==
    [jobs |-> [id \in DOMAIN jobs |-> ToPersisted(jobs[id])],
     waitLists |-> wl]

EmptyData == [jobs |-> <<>>, waitLists |-> [p \in Pipelines |-> <<>>]]

\* buildJobFromPersistedJob
FromPersisted(pj) == [pipeline |-> pj.pipeline, created |-> pj.created,
                      start |-> pj.start, completed |-> pj.completed,
                      canceled |-> pj.canceled, lastError |-> FALSE]

\* Mutant: running jobs are restored as they were persisted.
RestoreNoCancel(data) ==
    LET jobs == [id \in DOMAIN data.jobs |-> FromPersisted(data.jobs[id])]
        wl == [p \in Pipelines |->
                 SelectSeq(data.waitLists[p], LAMBDA id : id \in DOMAIN jobs)]
    IN [jobs |-> jobs, wl |-> wl, exec |-> {}, persist |-> 0]

RECURSIVE DrainAll(_, _)
DrainAll(s, ps) ==
    IF ps = {} THEN s
    ELSE LET p == CHOOSE q \in ps : TRUE
         IN DrainAll(StartJobsOnWaitList(s, p), ps \ {p})

\* Mutant: the restored wait lists are not drained.
RestoreNoDrain(data) ==
    LET loaded == [id \in DOMAIN data.jobs |-> FromPersisted(data.jobs[id])]
        jobs == [id \in DOMAIN loaded |->
                    IF IsRunning(loaded[id])
                    THEN [loaded[id] EXCEPT !.canceled = TRUE]
                    ELSE loaded[id]]
        wl == [p \in Pipelines |->
                 SelectSeq(data.waitLists[p], LAMBDA id : id \in DOMAIN jobs)]
    IN [jobs |-> jobs, wl |-> wl, exec |-> {}, persist |-> 0]

\* initialLoadFromStore: jobs that look running are canceled, wait lists
\* are rebuilt from ids (unknown ids are skipped) and then drained.
Restore(data) ==
    LET loaded == [id \in DOMAIN data.jobs |-> FromPersisted(data.jobs[id])]
        jobs == [id \in DOMAIN loaded |->
                    IF IsRunning(loaded[id])
                    THEN [loaded[id] EXCEPT !.canceled = TRUE]
                    ELSE loaded[id]]
        wl == [p \in Pipelines |->
                 SelectSeq(data.waitLists[p], LAMBDA id : id \in DOMAIN jobs)]
    IN DrainAll([jobs |-> jobs, wl |-> wl, exec |-> {}, persist |-> 0],
                Pipelines)

-----------------------------------------------------------------------------
Init ==
    /\ jobsByID = <<>>
    /\ waitList = [p \in Pipelines |-> <<>>]
    /\ executing = {}
    /\ persistRequests = 0
    /\ writerPc = "receive"
    /\ snapshot = EmptyData
    /\ stored = EmptyData
    /\ issued = <<>>
    /\ response = "none"
    /\ restarts = 0

\* uuid.NewV4: ids are only compared for equality, so which fresh id is
\* returned does not matter and one is picked deterministically.
NewV4 == CHOOSE id \in JobIds \ ToSet(issued) : TRUE

\* ScheduleAsync: rejected without a job when the queue is off or full.
ScheduleRejected(p) ==
    LET action == ResolveScheduleAction(Current, p) IN
    /\ action \in {"noQueue", "queueFull"}
    /\ response' = action
    /\ UNCHANGED <<jobsByID, waitList, executing, persistRequests, writerPc,
                   snapshot, stored, issued, restarts>>

\* ScheduleAsync: the job is registered, then queued, put in place of the
\* wait list's tail, or started; a persist request is deferred.
ScheduleAccepted(p) ==
    LET action == ResolveScheduleAction(Current, p) IN
    /\ action \in {"start", "queue", "replace"}
    /\ JobIds \ ToSet(issued) # {}
    /\ LET id == NewV4
             job == [pipeline |-> p, created |-> Len(issued) + 1,
                     start |-> FALSE, completed |-> FALSE,
                     canceled |-> FALSE, lastError |-> FALSE]
             s == [Current EXCEPT !.jobs = (id :> job) @@ @]
       IN /\ issued' = Append(issued, id)
          /\ Commit(RequestPersist(
               CASE action = "queue" -> [s EXCEPT !.wl[p] = Append(@, id)]
                 [] action = "replace" -> ReplaceOnWaitList(s, p, id)
                 [] action = "start" -> StartJob(s, id)))
    /\ response' = action
    /\ UNCHANGED <<writerPc, snapshot, stored, restarts>>

\* Mutant: completion does not drain the wait list.
JobCompletedNoDrain(id) ==
    /\ id \in executing
    /\ \E err \in BOOLEAN :
         Commit(RequestPersist([Current EXCEPT !.jobs[id].completed = TRUE,
                                               !.jobs[id].lastError = err,
                                               !.exec = @ \ {id}]))
    /\ UNCHANGED <<writerPc, snapshot, stored, issued, response, restarts>>

\* Mutant: completion does not request a save.
JobCompletedNoPersist(id) ==
    /\ id \in executing
    /\ \E err \in BOOLEAN :
         LET s == [Current EXCEPT !.jobs[id].completed = TRUE,
                                  !.jobs[id].lastError = err,
                                  !.exec = @ \ {id}]
         IN Commit(StartJobsOnWaitList(s, jobsByID[id].pipeline))
    /\ UNCHANGED <<writerPc, snapshot, stored, issued, response, restarts>>

\* The goroutine of startJob: r.sched.Schedule returns (with or without an
\* error) and jobCompleted runs.
JobCompleted(id) ==
    /\ id \in executing
    /\ \E err \in BOOLEAN :
         LET s == [Current EXCEPT !.jobs[id].completed = TRUE,
                                  !.jobs[id].lastError = err,
                                  !.exec = @ \ {id}]
         IN Commit(RequestPersist(
                StartJobsOnWaitList(s, jobsByID[id].pipeline)))
    /\ UNCHANGED <<writerPc, snapshot, stored, issued, response, restarts>>

\* The persistence goroutine receives a signal from r.persistRequests.
WriterReceive ==
    /\ writerPc = "receive"
    /\ persistRequests > 0
    /\ persistRequests' = persistRequests - 1
    /\ writerPc' = "snapshot"
    /\ UNCHANGED <<jobsByID, waitList, executing, snapshot, stored, issued,
                   response, restarts>>

\* saveToStore, first half: the data is built under r.mx.RLock.
WriterSnapshot ==
    /\ writerPc = "snapshot"
    /\ snapshot' = PersistedData(jobsByID, waitList)
    /\ writerPc' = "save"
    /\ UNCHANGED <<jobsByID, waitList, executing, persistRequests, stored,
                   issued, response, restarts>>

\* Mutant: the wait lists are read when saving, outside the lock.
WriterSaveTorn ==
    /\ writerPc = "save"
    /\ \/ stored' = [snapshot EXCEPT !.waitLists = waitList]
       \/ SaveMayFail /\ UNCHANGED stored
    /\ snapshot' = EmptyData
    /\ writerPc' = "receive"
    /\ UNCHANGED <<jobsByID, waitList, executing, persistRequests, issued,
                   response, restarts>>

\* saveToStore, second half: r.store.Save outside the lock; an error is
\* only logged. The time.Sleep that follows only delays the next receive
\* and is not a separate step.
WriterSave ==
    /\ writerPc = "save"
    /\ \/ stored' = snapshot
       \/ SaveMayFail /\ UNCHANGED stored
    /\ snapshot' = EmptyData
    /\ writerPc' = "receive"
    /\ UNCHANGED <<jobsByID, waitList, executing, persistRequests, issued,
                   response, restarts>>

\* The process dies at any point and newPipelineRunner runs again: all
\* goroutines are gone and initialLoadFromStore reads the store.
Restart ==
    /\ restarts < MaxRestarts
    /\ Commit(Restore(stored))
    /\ writerPc' = "receive"
    /\ snapshot' = EmptyData
    /\ response' = "none"
    /\ restarts' = restarts + 1
    /\ UNCHANGED <<stored, issued>>

Next ==
    \/ \E p \in Pipelines : ScheduleRejected(p) \/ ScheduleAccepted(p)
    \/ \E id \in JobIds : JobCompleted(id)
    \/ WriterReceive \/ WriterSnapshot \/ WriterSave
    \/ Restart

\* A job's Schedule call returns once its tasks end (the code sets no
\* timeout, so this assumes the scripts terminate); the persistence
\* goroutine is never blocked except on its channel.
Fairness ==
    /\ \A id \in JobIds : WF_vars(JobCompleted(id))
    /\ WF_vars(WriterReceive \/ WriterSnapshot \/ WriterSave)

Spec == Init /\ [][Next]_vars /\ Fairness
-----------------------------------------------------------------------------
(***************************************************************************)
(* Properties                                                              *)
(***************************************************************************)

\* Every variable stays in its domain; in particular r.persistRequests
\* never holds more than the one signal its buffer has room for.
TypeOK ==
    /\ DOMAIN jobsByID \subseteq JobIds
    /\ \A id \in DOMAIN jobsByID : jobsByID[id] \in Job
    /\ waitList \in [Pipelines -> Seq(JobIds)]
    /\ executing \subseteq DOMAIN jobsByID
    /\ persistRequests \in 0..1
    /\ writerPc \in {"receive", "snapshot", "save"}
    /\ DOMAIN stored.jobs \subseteq JobIds
    /\ \A id \in DOMAIN stored.jobs : stored.jobs[id] \in PersistedJob
    /\ response \in Actions \cup {"none"}
    /\ restarts \in 0..MaxRestarts

Pending(j) == ~j.start /\ ~j.completed /\ ~j.canceled

\* Positions at which a job id appears on the wait lists.
Slots(wl, id) ==
    UNION {{<<p, i>> : i \in {k \in 1..Len(wl[p]) : wl[p][k] = id}} :
             p \in Pipelines}

QueueMatchesPending(jobs, wl) ==
    /\ \A p \in Pipelines : \A i \in 1..Len(wl[p]) :
         wl[p][i] \in DOMAIN jobs /\ jobs[wl[p][i]].pipeline = p
    /\ \A id \in DOMAIN jobs :
         Cardinality(Slots(wl, id)) = IF Pending(jobs[id]) THEN 1 ELSE 0

\* Every job that was admitted but neither started nor canceled is on its
\* pipeline's wait list exactly once, and nothing else is: ScheduleAsync,
\* the replace branch and the nested drains of startJobsOnWaitList never
\* leave a job stranded off the list, started twice or listed twice.
WaitListIsPending == QueueMatchesPending(jobsByID, waitList)

\* The same holds of the data on disk, so after a restart every pending job
\* is found on a wait list by initialLoadFromStore and will run.
StoredWaitListIsPending == QueueMatchesPending(stored.jobs, stored.waitLists)

\* No pipeline ever has more job goroutines (r.sched.Schedule calls) in
\* flight than its concurrency, however schedule requests, completions,
\* drains and restarts interleave.
ConcurrencyLimit ==
    \A p \in Pipelines :
        Cardinality({id \in executing : jobsByID[id].pipeline = p})
            <= Concurrency[p]

\* A job counts as running (pipelineJob.isRunning, what resolveScheduleAction
\* counts) exactly when a goroutine is executing it: in particular no job
\* restored from the store still looks running and blocks a slot forever.
RunningMeansExecuting ==
    \A id \in DOMAIN jobsByID :
        IsRunning(jobsByID[id]) <=> id \in executing

\* No job waits while its pipeline has a free slot: every completion and
\* every restart drains the wait list as far as concurrency allows.
WorkConserving ==
    \A p \in Pipelines :
        Len(waitList[p]) > 0 => RunningJobsCount(Current, p) >= Concurrency[p]

\* A wait list never grows past the pipeline's queue limit, and the
\* replace strategy keeps at most one job waiting.
WaitListBound ==
    \A p \in Pipelines :
        /\ QueueLimit[p] # NoLimit => Len(waitList[p]) <= QueueLimit[p]
        /\ QueueStrategy[p] = "replace" => Len(waitList[p]) <= 1

\* Jobs of a pipeline start in admission order: when a job starts, no job
\* of its pipeline admitted before it is still waiting (FIFO drain of the
\* append strategy, and no fresh job overtakes a waiting one).
StartsInFifoOrder ==
    [][\A id \in DOMAIN jobsByID' :
         (jobsByID'[id].start /\ (id \in DOMAIN jobsByID => ~jobsByID[id].start))
           => \A i \in 1..Len(waitList'[jobsByID'[id].pipeline]) :
                LET k == waitList'[jobsByID'[id].pipeline][i]
                IN jobsByID'[k].created > jobsByID'[id].created]_vars

\* A waiting job that was canceled (replaced by a newer request) is never
\* started afterwards.
CanceledNeverStarts ==
    [][\A id \in DOMAIN jobsByID \cap DOMAIN jobsByID' :
         (jobsByID[id].canceled /\ ~jobsByID[id].start)
           => ~jobsByID'[id].start]_vars

\* Every admitted job eventually completes or is canceled.
JobsEventuallyTerminate ==
    \A id \in JobIds :
        id \in DOMAIN jobsByID
          ~> (id \in DOMAIN jobsByID
              /\ (jobsByID[id].completed \/ jobsByID[id].canceled))

\* The debounced writer never loses the last change: from some point on
\* the store holds exactly the runner's current jobs and wait lists.
EventuallyDurable ==
    <>[](stored = PersistedData(jobsByID, waitList))

\* A restart from an up-to-date store does not change the recorded error of
\* any job (JobResult.lastError survives restarts).
LastErrorSurvivesRestart ==
    [][(restarts' > restarts /\ stored = PersistedData(jobsByID, waitList))
         => \A id \in DOMAIN jobsByID :
              jobsByID'[id].lastError = jobsByID[id].lastError]_vars

\* Restart safety (spec section 7, item 8): after a crash, every job that
\* was running is canceled, and every job that was waiting is started or
\* waiting again. It is about the debounced writer, which saves only after
\* a signal and at most every 3 s, and initialLoadFromStore, which rebuilds
\* the runner from that save and drains the wait lists it finds there.
RestartSafety ==
    [][restarts' > restarts =>
         \A id \in DOMAIN jobsByID :
            /\ IsRunning(jobsByID[id])
                 => id \in DOMAIN jobsByID' /\ jobsByID'[id].canceled
            /\ Pending(jobsByID[id])
                 => id \in DOMAIN jobsByID'
                    /\ (jobsByID'[id].start \/ Pending(jobsByID'[id]))]_vars

(***************************************************************************)
(* Refinement. Each pipeline's queue is r.waitListByPipeline, the running  *)
(* jobs are those pipelineJob.isRunning counts, and a job has ended once it *)
(* is completed or canceled. Rejections, the writer's steps and the drains  *)
(* inside a handler are stuttering or part of one abstract step.           *)
(***************************************************************************)
Queue == INSTANCE PipelineQueue WITH
    owner <- [id \in DOMAIN jobsByID |-> jobsByID[id].pipeline],
    queue <- waitList,
    running <- {id \in DOMAIN jobsByID : IsRunning(jobsByID[id])},
    ended <- {id \in DOMAIN jobsByID :
                jobsByID[id].completed \/ jobsByID[id].canceled}

\* ScheduleAsync, jobCompleted and the nested drains of startJobsOnWaitList
\* together behave as the FIFO queue of the spec: every step either changes
\* nothing the spec sees or is one admission or one finish with the
\* promotion of exactly the queue's head jobs, and every started job ends.
RefinesPipelineQueue == Queue!QSpec

=============================================================================
