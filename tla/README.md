# TLA+ models of prunner

This directory holds TLA+ models of the pipeline runner in `src/prunner.go` and
its task layer in `src/taskctl/`, and the TLC configurations that check them.
Every definition is translated from the Go source. The map in `PROJECT.json`
names the lines each definition stands for.

## 1. Inventory

### Components and their state

| Component | Source | State | Operations |
|---|---|---|---|
| Pipeline runner (core) | `src/prunner.go` `pipelineRunner` | `jobsByID`, `jobsByPipeline`, `waitListByPipeline`, all under the RW mutex `mx`; per job: `Start`, `End`, `Completed`, `Canceled`, `LastError`, `Tasks` | `ScheduleAsync`, `startJob`, `jobCompleted`, `startJobsOnWaitList`, `resolveScheduleAction`, queries `findJob`, `ListJobs`, `ListPipelines`, `isSchedulable` |
| Persistence debouncer | `newPipelineRunner` goroutine, `requestPersist`, `saveToStore` | channel `persistRequests` with capacity 1; the data store file | `requestPersist` (non-blocking send), the writer loop (receive, snapshot under `RLock`, `Save` outside the lock, sleep 3 s) |
| Restart recovery | `initialLoadFromStore`, `buildJobFromPersistedJob` | reads the store | rebuild jobs, force-cancel running jobs, rebuild and drain wait lists |
| Task and stage callbacks | `handleTaskChange`, `handleStageChange` | per-task `Status`, `Start`, `End`, `Errored`, `ExitCode`, `Skipped` | look up the job by the injected `jobID` and update one task |
| Topological order | `buildJobTasks`, `sortTasksByDependencies` | none (pure) | Kahn's algorithm with name tie-breaks |
| Job result projection | `jobToResult` | none (pure) | derives `errored` from the tasks |
| Task runner | `src/taskctl/runner.go` `TaskRunner` | shared `variables`, `env`, `taskOutputs`, `canceling`, `doneCh`, `ctx` | `Run`, `execute`, `storeTaskOutput`, `CurrentTaskOutput`; `Cancel`, which nothing under `src/` calls |
| Output store | `src/taskctl/output_store.go` | files only | `Writer`, `Reader` |
| CLI and HTTP server | `run`, `newDebugCmd` | none | bootstrap |

The definition loader, the HTTP handlers, the JSON data store and the
taskctl scheduler (`taskctl.NewScheduler`, the DAG runner) are not under
`src/`. The spec describes them as external contracts.

### How the components interact

* An HTTP request calls `ScheduleAsync` on the main goroutine. It takes the
  write lock and, depending on `resolveScheduleAction`, starts, queues,
  replaces or rejects the job.
* `startJob` spawns one goroutine per job. That goroutine calls
  `r.sched.Schedule(graph)`, which runs the DAG with the shared `TaskRunner`,
  and then calls `jobCompleted`, which takes the lock and drains the wait
  list.
* The scheduler and the task runner call back into the runner through
  `handleStageChange` and `handleTaskChange`, from their own goroutines,
  under the write lock.
* Every state change calls `requestPersist`. One writer goroutine turns the
  signals into snapshots and saves them.
* On start, `initialLoadFromStore` rebuilds the runner from the last saved
  snapshot.

### What is hard

* **Interleaving.** Schedule requests, completions of concurrently running
  jobs and callbacks all contend for one lock. Correctness depends on every
  handler re-evaluating the running count and the wait list in the right
  order.
* **Re-entrancy (not reachable).** `startJob`'s failure path calls
  `startJobsOnWaitList` while an outer `startJobsOnWaitList` holds its own
  copy of the list. The graph is built from the pipeline's definition, so
  a pipeline whose graph fails never has a running job, never queues a
  job, and its wait list stays empty: the inner call finds nothing to
  start. The model keeps the failure path (`p2` of the restart run) and
  the runs confirm `WaitListIsPending` there.
* **Crash and restart.** The store is written at most every 3 s and from a
  snapshot, so a crash restores an older state. Jobs that were running must
  be canceled, and wait lists must be resumed.
* **Lossy signalling.** `requestPersist` drops signals when the one-slot
  channel is full. A failed `Save` is only logged.
* **Shared task runner.** One `TaskRunner` is shared by all jobs, and its
  `env` and `variables` carry task outputs across jobs.

### What makes each component correct

* Runner: the per-pipeline concurrency bound. The wait lists hold exactly
  the pending jobs. No job waits while a slot is free. Jobs start in FIFO
  order. A replaced job never starts. Every admitted job terminates.
* Persistence: the store always holds a consistent snapshot, and eventually
  the latest state.
* Restart: no phantom running jobs, the wait lists are resumed, and job
  records survive (including `lastError`).
* Callbacks: an update lands on the task it names, in the job it names.
  Terminal jobs are not changed.
* Topological order: the result is a topological order of `dependsOn`, the
  same for every input order, with ties broken by name.
* Task runner: a task reads only the outputs of its own job. An
  allow_failure task that fails is reported as errored.
* Runner and tasks together: a finished job has no task left waiting or
  running, also after a restart, and every admitted job ends.

## 2. Plan and status

| Module | Models | Status |
|---|---|---|
| `PipelineRunner` (+ `MC_PipelineRunner`) | admission, wait lists, completion and drain, the debounced writer, crash and restart | done |
| `PipelineQueue` | the abstract admission queue that `PipelineRunner` refines | done |
| `TopoSort` | `sortTasksByDependencies`, checked against a reference order | done |
| `TaskRunner` | the shared `taskctl` `TaskRunner`: `Run`, `execute`, `storeTaskOutput` (instantiated by `JobTasks`) | done |
| `JobTasks` (+ `MC_JobTasks`) | the tasks of concurrent jobs: a scheduler model, the stage and task callbacks, and the `TaskRunner` composed in | done |
| `JobLifecycle` (+ `MC_JobLifecycle`) | `PipelineRunner` composed with `JobTasks`: a job's completion and `lastError` follow from its tasks, tasks are saved and restored with their job | done |

Still open: larger instances of the composition. With two crashes, TLC does
not finish within 4 minutes.

## 3. What is modelled: `PipelineRunner`

### State

| Variable | Code |
|---|---|
| `jobsByID` | `r.jobsByID`; a job is `[pipeline, created, start, completed, canceled, lastError]` (pointers to time become booleans; `created` is the admission rank) |
| `waitList` | `r.waitListByPipeline` (sequences of ids) |
| `executing` | the goroutines of `startJob` inside `r.sched.Schedule` |
| `persistRequests` | the number of signals in `r.persistRequests` (0..1) |
| `writerPc`, `snapshot` | the writer goroutine's position and the `persistedData` it holds between building and saving it |
| `stored` | the data store's content (`persistedJob` has no `LastError`) |
| `issued`, `response`, `restarts` | history: the ids handed out in order, the last `ScheduleAsync` result, and the restart count |

`r.jobsByPipeline` is always `{id : jobsByID[id].pipeline = p}` and is not
kept as a separate variable.

### Actions

* `ScheduleAccepted(p)` / `ScheduleRejected(p)` are `ScheduleAsync` with its
  five actions. The new job is registered, then queued, put in place of the
  wait list's tail (`ReplaceOnWaitList`), or started (`StartJob`). The
  deferred `requestPersist` is part of the step.
* `StartJob` and `StartJobsOnWaitList`/`DrainLoop` are mutually recursive,
  as in the code. On a graph build failure (`GraphFails`), the job is
  canceled and the wait list is drained again from the stored list, while
  the outer loop keeps its own copy.
* `JobCompleted(id)`: `Schedule` returns, with or without an error, and
  `jobCompleted` marks the job, drains and requests a save.
* `WriterReceive`, `WriterSnapshot`, `WriterSave` form the writer loop.
  `Save` may fail (`SaveMayFail`), and the failure is only logged. The 3 s
  sleep is not a step of its own: it only delays the next receive.
* `Restart`: a crash at any point followed by `newPipelineRunner`. All
  goroutines are gone, and `Restore` is `initialLoadFromStore`.

UUIDs come from a bounded pool `JobIds`. Which fresh id is returned does not
matter, because ids are only compared, so `NewV4` picks one
deterministically.

### Fairness

Each job's `JobCompleted` is weakly fair. The code sets no timeout, so this
assumes that each task script terminates. The writer's steps are weakly
fair: the goroutine only blocks on its channel. Schedule requests and
restarts are not fair, because the environment may stop sending them.

### Runs

| Run | Bounds | Checks | Result |
|---|---|---|---|
| `admission` (`PipelineRunner_admission.cfg`) | 3 pipelines, each with concurrency 1: `p1` append with queue limit 1, `p2` replace with no limit, `p3` queue limit 0. 3 job ids. No crashes. | TypeOK, WaitListIsPending, ConcurrencyLimit, WorkConserving, WaitListBound, StartsInFifoOrder, CanceledNeverStarts, JobsEventuallyTerminate, EventuallyDurable, RefinesPipelineQueue | pass (95,553 states, about 1 min) |
| `restart` (`PipelineRunner_restart.cfg`) | `p1` append with concurrency 2 and no limit; `p2` with queue limit 0, whose graph never builds. 5 ids. One crash at any point. Saves may fail. | WaitListIsPending, StoredWaitListIsPending, ConcurrencyLimit, RunningMeansExecuting, WorkConserving, StartsInFifoOrder | pass (about 906k states) |
| `restart_not_persisted` | the restart pipelines with 3 ids; saves never fail | EventuallyDurable | violation |
| `restart_loses_last_error` | the same | LastErrorSurvivesRestart | violation |
| `restart_safety` (`PipelineRunner_RestartSafety.cfg`) | the same | RestartSafety | violation |

Why these bounds are enough:

* On `p1`, three ids give one job running, one waiting at the limit of 1,
  and a third request rejected with `queueFull`: the boundary of the
  `>=` at `src/prunner.go:556`, which a `>` would let through. On `p2`
  they exercise replace: one job running, one waiting, one replacing it.
  With at most one waiting job per pipeline, `StartsInFifoOrder` here
  checks that a fresh request never overtakes a waiting job; the order of
  a drain among several waiting jobs is checked by the restart run.
* With concurrency 2 and 5 ids, the restart run reaches a crash with two
  jobs running and two waiting. The restore then cancels two jobs and
  starts two in one drain.

### Refinement of `PipelineQueue`

`PipelineQueue` states what admission promises, following spec sections 3,
4.1 and 4.3, with no copies, no persistence and no goroutines. Each pipeline
has a FIFO `queue`, a set of `running` jobs bounded by its concurrency, and
the `ended` jobs. `Admit` starts a job if a slot is free. Otherwise it
replaces the queue's last job (strategy replace), or joins the queue's end
unless the queue is at its limit. A rejected request changes nothing.
`Finish` ends a job and moves as many head jobs into running as the freed
slots allow, in the same step. Every running job is weakly fair to finish.

`PipelineRunner` instantiates it as `Queue` with this mapping:

* `owner` is each job's pipeline;
* `queue` is `waitList`;
* `running` is the jobs `isRunning` counts;
* `ended` is the completed or canceled jobs.

`RefinesPipelineQueue` (`Queue!QSpec`) is checked in the admission run.
It says that the local wait-list copy and the write-back of
`startJobsOnWaitList`, the slot overwrite of the replace branch and the
drain inside `jobCompleted` add up to one abstract admission or one
abstract finish. Rejections and the writer's steps change nothing the
abstract spec sees. A replace branch that forgets to cancel the replaced
job breaks it.

The refinement is not checked with crashes or failing graph builds: a
restart is not a step of the abstract queue. The restart run checks those
with the invariants listed above.

### Findings

* **A crash inside the debounce window breaks restart safety**
  (`src/prunner.go:148`, `:700`). Spec section 7, item 8 says that after a
  crash every job that was running is canceled, and every job that was
  waiting is started or waiting again. The writer saves only after it has
  received a signal, and then at most every 3 s, and
  `initialLoadFromStore` restores that save. TLC's shortest trace: a job
  is admitted and started, and the process crashes before the writer
  runs. After the restart the job is gone, although the client holds its
  id. A longer trace (found while modelling, with forgotten jobs excluded)
  is worse:
  1. j3 waits behind j1, and the writer snapshots that state.
  2. j1 completes, and the drain starts j3.
  3. The writer saves the older snapshot, with j3 still waiting.
  4. The process crashes.

  The restore's drain then starts j3 again, so its scripts run a second
  time, and `OutputStore.Writer`'s `os.Create` truncates the first run's
  logs. In the same window a completed job comes back canceled.
* **The force-cancel at restore is not persisted** (`src/prunner.go:676`).
  `initialLoadFromStore` cancels the jobs it finds running but never calls
  `requestPersist`. TLC shows a behaviour in which two running jobs are
  saved, the process restarts, and the store goes on saying the jobs are
  running while memory says they are canceled.
* **`lastError` is lost on every restart** (`src/prunner.go:734`).
  `persistedJob` is built without `LastError`. A job that failed reports
  `lastError: null` after a restart, even when the store was up to date.

## 4. What is modelled: `TopoSort`

`Kahn` is the main loop of `sortTasksByDependencies`: pop the head of the
queue, give it the next ordinal, remove its outgoing edges, append the
tasks it released, and sort the queue again. `SortTasksByDependencies` then
sorts by `(order, name)`. Task names are `1..MaxTasks`, and their numeric
order stands for Go's string order.

`BuildJobTasks` picks any dependency function the definition loader
accepts: no self-dependencies and no cycles. The reference
`LeastTopologicalOrder` is defined directly as the lexicographically least
permutation in which each task follows its dependencies.

| Run | Bounds | Checks | Result |
|---|---|---|---|
| `topo_sort` (`TopoSort.cfg`) | all 543 acyclic dependency relations on 4 tasks | SortIsLeastTopological | pass |

The equality shows three things. The order is topological. It does not
depend on the map iteration order, because the queue is sorted after every
step. Ties are broken by name, so the order is stable across restarts
(spec §3, invariant 5). A mutant that never re-sorts the queue breaks it.

## 5. What is modelled: `TaskRunner`

One `TaskRunner` (`src/taskctl/runner.go`) is built in `run()` and shared by
the stage goroutines of every job. `Run` is split where it touches shared
state:

| Action | Code |
|---|---|
| `RunBegin(r)` | the read of `r.env` and `r.variables` for the task, the live output buffer in `r.taskOutputs`, and the two log writers. `OutputStore.Writer` may fail (`WriterMayFail`), and then `Run` returns the error |
| `Execute(r)` | one command of the script. Each outcome is ok or a non-zero exit. With `AllowFailure`, a non-zero exit records the exit code and goes on |
| `Return(r)` | `storeTaskOutput` after a successful `execute`, then the deferred functions, last registered first: the output buffer is removed, `ExitCode` is reset unless the task errored |

A run is `<<job, task name>>`: `buildPipelineGraph` makes one
`*task.Task` per job and task. Task names are sequences of one-character
strings. `EnvVarName` and `VarName` are what `storeTaskOutput` does to a
name: upper-case, then replace every character outside `[A-Za-z0-9_]`
with `_`, then append `_OUTPUT`; and `strings.Title`. Two names can
therefore map to the same variable. `env` and `variables` record which run
wrote each name.

The task fields (`Start`, `End`, `ExitCode`, `Errored`) are kept per run.
The flag `failed` records that a command exited non-zero.

Nothing under `src/` calls `Cancel`, so `r.ctx` is never canceled and
`r.canceling` stays false: `Run`'s `ctx` check always passes, and its first
deferred function (which closes `doneCh` during a `Cancel`) does nothing.
They are left out, and so is `Cancel`. `TaskRunner` has no run of its own;
it is checked through `JobTasks` and `JobLifecycle`.

## 6. What is modelled: `JobTasks`

`JobTasks` composes the `TaskRunner` (`TR == INSTANCE TaskRunner`) with the
stages of each job and the runner's callbacks.

* **The scheduler is modelled from spec 4.8**, because `taskctl.NewScheduler`
  is not under `src/`.
  * `StageRun`: a stage runs once its dependencies are done or skipped.
  * `StageCancel`: a stage is canceled once a dependency is canceled, or
    errored without allow_failure.
  * `StageEnd`: a stage ends `error` if `Run` failed and the task does not
    allow failure, otherwise `done`.
  * `JobCompleted`: `Schedule` returns when no stage is waiting or
    running, with an error if a stage errored.
* **`RunStep(r)`** takes the `TaskRunner`'s steps for a running stage.
* **Callbacks are synchronous and in order** (spec 5).
  * `handleStageChange` is applied in the same step as the stage update.
  * A step of `Run` that changes the task's fields leaves the run in
    `taskChanged`, and the goroutine waits until `HandleTaskChange` has
    copied the fields.
* **`StartJob`** starts the jobs in `JobOrder`, at most `JobConcurrency` at
  once, as one pipeline's wait list does.

No liveness property is checked on this module alone. When the callbacks
run and how the scheduler makes progress are decided by the taskctl
`Scheduler` and its `OnTaskChange` hook, which are not under `src/`
(`RunStep`, `StageRun`, `StageCancel` and `StageEnd` are modelled from
the spec), so a property about them would check the model of that
library rather than this code. `Spec` still makes every action weakly
fair, for `JobLifecycle`.

| Run | Bounds | Checks | Result |
|---|---|---|---|
| `tasks_sequential` (`JobTasks_sequential.cfg`) | 2 jobs one after the other; the diamond a → {b, c} → d, so b and c run at once and their callbacks interleave; a allows failure; 2 commands per script; any command may exit non-zero | TypeOK, OwnDependencyOutput | pass (58,653 states, about 10 s) |
| `tasks_cross_job_output` | 2 jobs at once (concurrency 2), a → b, no failures | OwnDependencyOutput | violation |
| `tasks_name_collision` | 1 job, tasks `a-b` → c and `a_b` | OwnDependencyOutput | violation |
| `tasks_writer_failure_leak` | 2 jobs one after the other, tasks a → b → c, a allows failure; the log writer may fail and commands do not | OwnDependencyOutput | violation |
| `tasks_allow_failure_hidden` | 1 job, a → b, a allows failure and may exit non-zero | FailedTaskReported | violation |

The sequential run is the behaviour of a pipeline with concurrency 1. It
shows that each task reads its own job's dependency outputs, also when b
and c of the diamond end in either order and a failed command of a allows
the job to go on. A `Return` that stores outputs only on success lets d
read a's output of the previous job.

### Findings

* **Outputs leak across concurrent jobs** (`src/taskctl/runner.go:392`).
  `storeTaskOutput` writes into the runner's shared `env` and `variables`.
  With two jobs of one pipeline running at once, job 1's task b reads job
  2's `A_OUTPUT`.
* **Task names collide** (`runner.go:387`). `a-b` and `a_b` both export
  `A_B_OUTPUT`, so c, which depends on `a-b`, can read `a_b`'s output.
* **A failed writer leaves a stale export** (`runner.go:164`). When
  `OutputStore.Writer` fails, `Run` returns before `storeTaskOutput`. For an
  allow_failure task the stage still ends `done`, and its dependants run
  with the previous job's export under that name.
* **allow_failure hides the failure** (`runner.go:413`, spec S5). A
  non-zero exit under `AllowFailure` sets neither `Errored` nor keeps
  `ExitCode`: the deferred reset sets it back to 0. Spec S5 expects
  `a.errored = true` and `job.errored = true`. The job result shows
  neither.

## 7. What is modelled: `JobLifecycle`

`JobLifecycle` composes the two halves of the service. `PR == INSTANCE
PipelineRunner` provides admission, the drains, the debounced writer and
restart. `JT == INSTANCE JobTasks` provides the stages, the shared
`TaskRunner` and the callbacks. The pipeline runner's own admission
replaces `JobTasks`' stand-in wait list. `JobTasks` sees the runner's jobs
through `JobView`, which is derived from `jobsByID`.

| Action | Code |
|---|---|
| `Schedule(p)` | `ScheduleAsync`, accepted or rejected (`PipelineRunner`) |
| `StageStep(r)` | a scheduler step on a stage, with `handleStageChange` and its `requestPersist` |
| `TaskStep(r)` | a step of `TaskRunner.Run` in the stage goroutine |
| `TaskCallback(r)` | `handleTaskChange`, with its `requestPersist` |
| `JobDone(id)` | `r.sched.Schedule(graph)` returns once every stage has finished, with an error if a stage errored; `jobCompleted` records it as `LastError` and drains the wait list |
| `WriterReceive`, `WriterSnapshot`, `WriterSave` | the writer loop; the snapshot takes the jobs and their `persistedTask`s under one `RLock` |
| `Restart` | a crash at any point, then `newPipelineRunner`: jobs and tasks are rebuilt from the store, the waiting and running tasks of a job that looks running are set to `canceled` (`prunner.go:667-673`), and the new process has an empty `TaskRunner` and no stages |

Stage and task steps need the job's goroutine, so they happen only while
the job is in `executing`. A restart kills every goroutine.

Fairness: three weak-fairness conditions, one each for the job goroutines
with their callbacks, the returns of `Schedule`, and the writer. Each says
only that not all of its steps stop while one can be taken. That is weaker
than fairness to each goroutine, which the Go scheduler gives, since every
one of them waits only for `mx`. Requests and crashes need not come.

| Run | Bounds | Checks | Result |
|---|---|---|---|
| `lifecycle` (`JobLifecycle.cfg`) | 1 pipeline with concurrency 1 and queue limit 1 (append); 2 job ids; tasks a → b, one command each, which may exit non-zero; 1 crash | TerminalJobsSettled, EveryJobSettles | pass (168,769 states, 2.5 to 3 min) |

* `TerminalJobsSettled`: a started job that is completed or canceled has
  no task "waiting" or "running", before and after a restart. It needs
  three things:
  * `Schedule` returns only after the last stage callback;
  * the writer saves a job and its tasks from one snapshot;
  * the restore rewrites both waiting and running tasks.

  A restore that rewrites only the running ones leaves b "waiting" in a
  canceled job, when the crash comes while a runs.
* `EveryJobSettles`: every admitted job ends, completed or canceled,
  unless a crash forgets it. A scheduler that does not cancel the
  dependants of an errored task leaves the job running forever, and the
  waiting job behind it never starts.

The bounds give both drains (one job starts while the other waits), an
error that cancels b, and a crash at every point of a job: before its
first save, between a task callback and the next save, and after
completion. With two crashes, TLC does not finish within 4 minutes.

## 8. What is not modelled, and why

* The HTTP layer, JWT and the CLI (`run`, `newDebugCmd`) are bootstrap and
  I/O code with no state machine of their own. Of the output store, only
  the outcome of `Writer` (it may fail) matters to the runner; it is part
  of `RunBegin`.
* Timestamps are reduced to booleans and ranks. Log output is left out.
  A job's `End` is not modelled. From reading the code (not checked by a
  run): the restore's force-cancel (`prunner.go:676`) and `startJob`'s
  failure path set `Canceled` without `End`, so those jobs never report an
  end, although spec section 2 says `end` is set at the terminal
  transition.
* The queries `ListJobs`, `ListPipelines`, `isSchedulable` and `findJob`
  only read under `RLock` and change no state.
* `TaskRunner`: tasks from `buildPipelineGraph` have no context,
  condition, before/after commands or `ExportAs`, so those branches are
  left out. `CurrentTaskOutput` only reads a live buffer. `Cancel`,
  `Finish`, `WithVariable`, `SetContexts` and `SetVariables` are not called
  under `src/`.
* `PipelineRunner` alone treats `lastError` as any boolean; `JobLifecycle`
  derives it from the tasks. `JobLifecycle` takes `Save` as reliable and
  every graph build as successful: those failures are checked by
  `PipelineRunner`'s runs.
* The output store's `Reader` only serves the HTTP log handler (not under
  `src/`) and changes no state.
* The refinement of `PipelineQueue` is checked without crashes and with
  every graph build succeeding. With crashes it cannot hold: a crash
  forgets jobs (`restart_safety`).
* Cyclic pipelines are not given to `TopoSort`, because the definition
  loader (not under `src/`) rejects them.
* The unknown-pipeline error and the `uuid.NewV4` error paths return before
  any state change.
* The task runner and the output store stay partly modelled. Everything
  else they contain is either never called under `src/` or only read, so
  no further part of them can be modelled from this program's behaviour.
