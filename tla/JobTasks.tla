------------------------------ MODULE JobTasks ------------------------------
(***************************************************************************)
(* The task layer of running jobs: the stages of each job's execution graph*)
(* run by the scheduler, every stage's task run by the one TaskRunner all  *)
(* jobs share, and the callbacks that copy stage and task state into the   *)
(* pipelineRunner's jobTasks (handleStageChange, handleTaskChange in       *)
(* src/prunner.go).                                                        *)
(*                                                                         *)
(* The scheduler (taskctl.NewScheduler) is not under src/; its stage       *)
(* transitions follow the DAG Runner contract of spec 4.8: a stage runs    *)
(* once its dependencies are done or skipped, is canceled once a          *)
(* dependency is canceled or errored without allow_failure, and Schedule   *)
(* returns when no stage is waiting or running. Callbacks are delivered in *)
(* order and synchronously (spec 5): the goroutine that emits one waits    *)
(* until the handler has run under r.mx.                                   *)
(*                                                                         *)
(* Jobs start in the order of JobOrder, at most JobConcurrency at a time,  *)
(* as the wait list of one pipeline starts them (modelled in              *)
(* PipelineRunner).                                                        *)
(***************************************************************************)
EXTENDS Naturals, Sequences, FiniteSets

CONSTANTS
    Jobs, TaskNames, AllowFailure, ScriptLen, MayExitNonZero, WriterMayFail,
    NoOutput,
    DependsOn,       \* taskDef.DependsOn, per task name
    JobOrder,        \* the order in which the jobs are started
    JobConcurrency   \* how many of them may run at once

ASSUME
    /\ DependsOn \in [TaskNames -> SUBSET TaskNames]
    /\ JobOrder \in Seq(Jobs) /\ Len(JobOrder) = Cardinality(Jobs)
    /\ JobConcurrency \in Nat \ {0}

VARIABLES
    env, variables, taskOutputs, task,
    stage,        \* per run: the scheduler's stage status
    jobTasks,     \* per run: the jobTask record in pipelineJob.Tasks
    job,          \* per job: Start, Completed and LastError of pipelineJob
    taskChanged   \* runs whose task-change callback is being delivered

TR == INSTANCE TaskRunner

Runs == TR!Runs

trVars == <<env, variables, taskOutputs, task>>

vars == <<trVars, stage, jobTasks, job, taskChanged>>

Statuses == {"waiting", "running", "skipped", "done", "error", "canceled"}

\* the statuses in which a stage neither waits nor runs (Schedule's isDone)
Finished == {"skipped", "done", "error", "canceled"}

\* the position of a job in JobOrder
Rank(j) == CHOOSE i \in 1..Len(JobOrder) : JobOrder[i] = j

JobTask == [status: Statuses, start: BOOLEAN, end: BOOLEAN,
            exitCode: {0, 1}, errored: BOOLEAN]

\* buildJobTasks: every task starts out "waiting" with no runtime fields.
WaitingTask == [status |-> "waiting", start |-> FALSE, end |-> FALSE,
                exitCode |-> 0, errored |-> FALSE]

Init ==
    /\ TR!TRInit
    /\ stage = [r \in Runs |-> "waiting"]
    /\ jobTasks = [r \in Runs |-> WaitingTask]
    /\ job = [j \in Jobs |-> [start |-> FALSE, completed |-> FALSE,
                              lastError |-> FALSE]]
    /\ taskChanged = {}

RunningJobs == {j \in Jobs : job[j].start /\ ~job[j].completed}

\* The success path of startJob, reached for the head of the wait list
\* (JobOrder) once startJobsOnWaitList finds a free slot: job.Start is set
\* and the goroutine calling r.sched.Schedule(graph) begins. Admission
\* itself is modelled in PipelineRunner; here it only orders the starts.
StartJob(j) ==
    /\ ~job[j].start
    /\ \A i \in 1..Rank(j) - 1 : job[JobOrder[i]].start
    /\ Cardinality(RunningJobs) < JobConcurrency
    /\ job' = [job EXCEPT ![j].start = TRUE]
    /\ UNCHANGED <<trVars, stage, jobTasks, taskChanged>>

\* Mutant: toStatus without its StatusCanceled case returns "".
HandleStageChangeNoCanceled(r, status) ==
    jobTasks' = [jobTasks EXCEPT ![r].status = IF status = "canceled" THEN ""
                                                                    ELSE status]

\* handleStageChange: the job is looked up by the stage's "jobID" variable
\* and the task by the stage name (both are always found: jobs are never
\* removed and stage names are task names); Status becomes toStatus of the
\* stage's current status.
HandleStageChange(r, status) ==
    jobTasks' = [jobTasks EXCEPT ![r].status = status]

\* handleTaskChange: the task's Start, End, Errored, ExitCode and Skipped
\* are copied into the jobTask (Skipped is always false here).
HandleTaskChange(r) ==
    /\ r \in taskChanged
    /\ jobTasks' = [jobTasks EXCEPT ![r].start = task[r].start,
                                    ![r].end = task[r].end,
                                    ![r].errored = task[r].errored,
                                    ![r].exitCode = task[r].exitCode]
    /\ taskChanged' = taskChanged \ {r}
    /\ UNCHANGED <<trVars, stage, job>>

(***************************************************************************)
(* The scheduler's steps for the stage of run r = <<j, n>>.                *)
(***************************************************************************)
\* A waiting stage whose dependencies are done or skipped starts running.
StageRun(r) ==
    /\ job[r[1]].start /\ ~job[r[1]].completed
    /\ stage[r] = "waiting"
    /\ \A d \in DependsOn[r[2]] : stage[<<r[1], d>>] \in {"done", "skipped"}
    /\ stage' = [stage EXCEPT ![r] = "running"]
    /\ HandleStageChange(r, "running")
    /\ UNCHANGED <<trVars, job, taskChanged>>

\* Mutant: an errored dependency does not cancel its dependants.
StageCancelOnCanceledOnly(r) ==
    /\ job[r[1]].start /\ ~job[r[1]].completed
    /\ stage[r] = "waiting"
    /\ \E d \in DependsOn[r[2]] : stage[<<r[1], d>>] = "canceled"
    /\ stage' = [stage EXCEPT ![r] = "canceled"]
    /\ HandleStageChange(r, "canceled")
    /\ UNCHANGED <<trVars, job, taskChanged>>

\* A waiting stage with a canceled dependency, or an errored one without
\* allow_failure, is canceled.
StageCancel(r) ==
    /\ job[r[1]].start /\ ~job[r[1]].completed
    /\ stage[r] = "waiting"
    /\ \E d \in DependsOn[r[2]] :
         \/ stage[<<r[1], d>>] = "canceled"
         \/ stage[<<r[1], d>>] = "error" /\ d \notin AllowFailure
    /\ stage' = [stage EXCEPT ![r] = "canceled"]
    /\ HandleStageChange(r, "canceled")
    /\ UNCHANGED <<trVars, job, taskChanged>>

\* The stage goroutine's call of Run(t) returns: an error makes the stage
\* "error" unless it allows failure, in which case it ends "done".
StageEnd(r) ==
    /\ stage[r] = "running"
    /\ task[r].pc = "returned"
    /\ r \notin taskChanged
    /\ LET status == IF task[r].err /\ r[2] \notin AllowFailure
                     THEN "error" ELSE "done"
       IN /\ stage' = [stage EXCEPT ![r] = status]
          /\ HandleStageChange(r, status)
    /\ UNCHANGED <<trVars, job, taskChanged>>

\* The steps of Run(t) for a running stage. A step that changes the task's
\* fields emits the task-change callback, and the goroutine waits for it.
RunStep(r) ==
    /\ stage[r] = "running"
    /\ r \notin taskChanged
    /\ \/ TR!RunBegin(r) /\ UNCHANGED taskChanged
       \/ TR!Execute(r) /\ taskChanged' = taskChanged \cup {r}
       \/ TR!Return(r) /\ taskChanged' = taskChanged \cup {r}
    /\ UNCHANGED <<stage, jobTasks, job>>

\* Schedule returns once every stage of the job has finished, with the
\* error of a stage that errored; jobCompleted records it.
JobCompleted(j) ==
    /\ job[j].start /\ ~job[j].completed
    /\ \A n \in TaskNames : stage[<<j, n>>] \in Finished
    /\ job' = [job EXCEPT ![j].completed = TRUE,
                          ![j].lastError = \E n \in TaskNames :
                                              stage[<<j, n>>] = "error"]
    /\ UNCHANGED <<trVars, stage, jobTasks, taskChanged>>

Next ==
    \/ \E j \in Jobs : StartJob(j) \/ JobCompleted(j)
    \/ \E r \in Runs : \/ StageRun(r) \/ StageCancel(r) \/ StageEnd(r)
                       \/ RunStep(r) \/ HandleTaskChange(r)

\* Every goroutine that can take a step takes it: the stage goroutines, the
\* scheduler loop, the callbacks (which only wait for r.mx) and the drain
\* of the wait list that starts the next job when one completes.
Fairness ==
    /\ \A j \in Jobs : WF_vars(StartJob(j)) /\ WF_vars(JobCompleted(j))
    /\ \A r \in Runs : /\ WF_vars(StageRun(r)) /\ WF_vars(StageCancel(r))
                       /\ WF_vars(StageEnd(r)) /\ WF_vars(RunStep(r))
                       /\ WF_vars(HandleTaskChange(r))

Spec == Init /\ [][Next]_vars /\ Fairness

-----------------------------------------------------------------------------

\* jobToResult: a job result is errored when one of its tasks errored.
JobToResultErrored(j) == \E n \in TaskNames : jobTasks[<<j, n>>].errored

TypeOK ==
    /\ TR!TRTypeOK
    /\ stage \in [Runs -> Statuses]
    /\ jobTasks \in [Runs -> JobTask]
    /\ job \in [Jobs -> [start: BOOLEAN, completed: BOOLEAN,
                         lastError: BOOLEAN]]
    /\ taskChanged \subseteq Runs

\* the run has stored its stdout in r.env and r.variables
Exported(r) == task[r].pc = "returned" /\ ~task[r].err

\* v, read under the name of run dep's task, is dep's output, or nothing
\* when dep has not exported one
IsOutputOf(v, dep) == v = dep \/ (v = NoOutput /\ ~Exported(dep))

\* A task is given, under the exported names of each of its dependencies,
\* the output of that dependency in its own job (spec 1: exported variables
\* pass artifacts within a single job). It is about Run reading the shared
\* r.env and r.variables that storeTaskOutput writes for every job.
OwnDependencyOutput ==
    \A r \in Runs : task[r].pc # "idle" =>
        \A d \in DependsOn[r[2]] :
            /\ IsOutputOf(task[r].readEnv[TR!EnvVarName(d)], <<r[1], d>>)
            /\ IsOutputOf(task[r].readVars[TR!VarName(d)], <<r[1], d>>)

\* A task with a command that exited non-zero is reported, once its job has
\* completed, as errored with a non-zero exit code, and the job result as
\* errored (spec S5, allow_failure). It is about execute's AllowFailure
\* branch and Run's deferred reset of ExitCode.
FailedTaskReported ==
    \A r \in Runs : job[r[1]].completed /\ task[r].failed =>
        /\ jobTasks[r].errored /\ jobTasks[r].exitCode # 0
        /\ JobToResultErrored(r[1])

=============================================================================
