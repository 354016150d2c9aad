---------------------------- MODULE JobLifecycle ----------------------------
(***************************************************************************)
(* The pipeline runner and the task layer together: PipelineRunner's      *)
(* admission, drains, debounced writer and restart, with each started job *)
(* executed by JobTasks' stages, task runs and callbacks instead of one    *)
(* abstract completion step.                                               *)
(*   - A stage or task step happens only while the job's goroutine exists  *)
(*     (the job is in executing): a restart kills every goroutine.         *)
(*   - handleStageChange and handleTaskChange call requestPersist.         *)
(*   - Schedule returns the error of an errored stage, and jobCompleted    *)
(*     records it as the job's LastError.                                  *)
(*   - saveToStore persists every job's tasks with the job.                *)
(*     initialLoadFromStore rebuilds them, and rewrites the waiting and    *)
(*     running tasks of a job that looks running to canceled.              *)
(*   - A restart starts a new process: a new TaskRunner and scheduler.     *)
(***************************************************************************)
EXTENDS Naturals, FiniteSets, SequencesExt

CONSTANTS
    Pipelines, Concurrency, QueueLimit, QueueStrategy, NoLimit, JobIds,
    GraphFails, SaveMayFail, MaxRestarts,
    TaskNames, AllowFailure, ScriptLen, MayExitNonZero, WriterMayFail,
    NoOutput, DependsOn

\* The tasks are persisted with their job in one Save; a failed Save is
\* checked by PipelineRunner's restart run.
ASSUME SaveMayFail = FALSE

VARIABLES
    jobsByID, waitList, executing, persistRequests, writerPc, snapshot,
    stored, issued, response, restarts,
    env, variables, taskOutputs, task, stage, jobTasks, taskChanged,
    snapshotTasks,  \* the persistedTasks of the snapshot the writer holds
    storedTasks     \* the persistedTasks in the data store

prVars == <<jobsByID, waitList, executing, persistRequests, writerPc,
            snapshot, stored, issued, response, restarts>>
jtVars == <<env, variables, taskOutputs, task, stage, jobTasks, taskChanged>>
vars == <<prVars, jtVars, snapshotTasks, storedTasks>>

PR == INSTANCE PipelineRunner

\* The fields of pipelineJob that JobTasks reads. A canceled job counts as
\* completed: its stages never run again.
JobView ==
    [j \in JobIds |->
       [start |-> j \in DOMAIN jobsByID /\ jobsByID[j].start,
        completed |-> j \in DOMAIN jobsByID
                      /\ (jobsByID[j].completed \/ jobsByID[j].canceled),
        lastError |-> j \in DOMAIN jobsByID /\ jobsByID[j].lastError]]

\* JobOrder and JobConcurrency belong to JobTasks' stand-in for the wait
\* list, which the runner's own admission replaces here.
JT == INSTANCE JobTasks WITH Jobs <- JobIds, JobOrder <- SetToSeq(JobIds),
                             JobConcurrency <- 1, job <- JobView

Runs == JT!Runs

\* requestPersist, as a callback calls it
RequestPersist == persistRequests' = PR!RequestPersist(PR!Current).persist

Init ==
    /\ PR!Init
    /\ JT!Init
    /\ snapshotTasks = jobTasks
    /\ storedTasks = jobTasks

\* ScheduleAsync, accepted or rejected
Schedule(p) ==
    /\ PR!ScheduleAccepted(p) \/ PR!ScheduleRejected(p)
    /\ UNCHANGED <<jtVars, snapshotTasks, storedTasks>>

\* A scheduler step on a stage of a job whose goroutine runs, with the
\* stage callback it delivers.
StageStep(r) ==
    /\ r[1] \in executing
    /\ RequestPersist
    /\ UNCHANGED <<jobsByID, waitList, executing, writerPc, snapshot, stored,
                   issued, response, restarts, snapshotTasks, storedTasks>>
    /\ JT!StageRun(r) \/ JT!StageCancel(r) \/ JT!StageEnd(r)

\* A step of Run(t) in the stage goroutine.
TaskStep(r) ==
    /\ r[1] \in executing
    /\ UNCHANGED <<prVars, snapshotTasks, storedTasks>>
    /\ JT!RunStep(r)

\* handleTaskChange, with its requestPersist.
TaskCallback(r) ==
    /\ r[1] \in executing
    /\ RequestPersist
    /\ UNCHANGED <<jobsByID, waitList, executing, writerPc, snapshot, stored,
                   issued, response, restarts, snapshotTasks, storedTasks>>
    /\ JT!HandleTaskChange(r)

\* r.sched.Schedule(graph) returns once every stage has finished, with the
\* error of an errored stage, and jobCompleted runs.
JobDone(id) ==
    /\ \A n \in TaskNames : stage[<<id, n>>] \in JT!Finished
    /\ PR!JobCompleted(id)
    /\ jobsByID'[id].lastError = \E n \in TaskNames : stage[<<id, n>>] = "error"
    /\ UNCHANGED <<jtVars, snapshotTasks, storedTasks>>

WriterReceive ==
    /\ PR!WriterReceive
    /\ UNCHANGED <<jtVars, snapshotTasks, storedTasks>>

\* saveToStore builds the persistedTask records under the same RLock.
WriterSnapshot ==
    /\ PR!WriterSnapshot
    /\ snapshotTasks' = jobTasks
    /\ UNCHANGED <<jtVars, storedTasks>>

WriterSave ==
    /\ PR!WriterSave
    /\ storedTasks' = snapshotTasks
    /\ UNCHANGED <<jtVars, snapshotTasks>>

\* a persisted job that isRunning after buildJobFromPersistedJob
StoredRunning(id) ==
    id \in DOMAIN stored.jobs /\ PR!IsRunning(PR!FromPersisted(stored.jobs[id]))

\* Mutant: only the running tasks of a running job are canceled.
RestoreTasksRunningOnly ==
    [r \in Runs |->
       IF StoredRunning(r[1]) /\ storedTasks[r].status = "running"
       THEN [storedTasks[r] EXCEPT !.status = "canceled"]
       ELSE storedTasks[r]]

\* initialLoadFromStore: the tasks of each persisted job are rebuilt, and
\* those "waiting" or "running" in a job that looks running are canceled.
RestoreTasks ==
    [r \in Runs |->
       IF StoredRunning(r[1])
          /\ storedTasks[r].status \in {"waiting", "running"}
       THEN [storedTasks[r] EXCEPT !.status = "canceled"]
       ELSE storedTasks[r]]

\* The process dies and newPipelineRunner runs: the runner is rebuilt from
\* the store, and a new TaskRunner and scheduler have no runs and no stages.
Restart ==
    /\ PR!Restart
    /\ jobTasks' = RestoreTasks
    /\ env' = JT!TR!NoExports(JT!TR!EnvNames)
    /\ variables' = JT!TR!NoExports(JT!TR!VarNames)
    /\ taskOutputs' = {}
    /\ task' = [r \in Runs |-> JT!TR!IdleTask]
    /\ stage' = [r \in Runs |-> "waiting"]
    /\ taskChanged' = {}
    /\ UNCHANGED <<snapshotTasks, storedTasks>>

Next ==
    \/ \E p \in Pipelines : Schedule(p)
    \/ \E r \in Runs : StageStep(r) \/ TaskStep(r) \/ TaskCallback(r)
    \/ \E id \in JobIds : JobDone(id)
    \/ WriterReceive \/ WriterSnapshot \/ WriterSave
    \/ Restart

\* The goroutines of the running jobs, the callbacks (which only wait for
\* r.mx), the return of Schedule and the writer do not all stop while one
\* of them can take a step; requests and crashes need not come. This is
\* weaker than fairness to each goroutine, which the Go scheduler gives.
Fairness ==
    /\ WF_vars(\E r \in Runs : StageStep(r) \/ TaskStep(r) \/ TaskCallback(r))
    /\ WF_vars(\E id \in JobIds : JobDone(id))
    /\ WF_vars(WriterReceive \/ WriterSnapshot \/ WriterSave)

Spec == Init /\ [][Next]_vars /\ Fairness
-----------------------------------------------------------------------------

\* A job that has started and is now completed or canceled has no task left
\* "waiting" or "running", before and after any restart (spec 4.6 step 2
\* and scenario S6). It is about Schedule returning only after every stage
\* callback, the writer saving jobs and tasks from one snapshot, and
\* initialLoadFromStore rewriting the tasks of the jobs it cancels.
TerminalJobsSettled ==
    \A id \in DOMAIN jobsByID :
        jobsByID[id].start /\ (jobsByID[id].completed \/ jobsByID[id].canceled)
          => \A n \in TaskNames : jobTasks[<<id, n>>].status \in JT!Finished

\* Every admitted job ends, completed or canceled, unless a restart forgets
\* it: its stages run or are canceled, Schedule returns, and the drain
\* starts the next job of the wait list.
EveryJobSettles ==
    \A id \in JobIds :
        id \in DOMAIN jobsByID
          ~> \/ id \notin DOMAIN jobsByID
             \/ jobsByID[id].completed \/ jobsByID[id].canceled
=============================================================================
