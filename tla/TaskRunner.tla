----------------------------- MODULE TaskRunner -----------------------------
(***************************************************************************)
(* The TaskRunner of src/taskctl/runner.go. One runner is built in run()   *)
(* (src/prunner.go) and shared by every job: each stage goroutine of every *)
(* job calls Run(t) on it, and Run reads and writes the runner's shared    *)
(* env and variables containers and its taskOutputs map.                   *)
(*                                                                         *)
(* A Run is split at the points where it touches shared state: RunBegin    *)
(* (the checks, the read of r.env and r.variables, the live output buffer  *)
(* and the log writers), Execute (one command of the script) and Return    *)
(* (storeTaskOutput and the deferred functions).                           *)
(*                                                                         *)
(* Nothing under src/ calls Cancel, so r.ctx is never canceled and         *)
(* r.canceling stays false: the ctx checks of Run and execute always pass, *)
(* and Run's deferred close of r.doneCh never happens.                     *)
(*                                                                         *)
(* Tasks built by buildPipelineGraph have no context, condition, before or *)
(* after commands and no ExportAs, so contextForTask returns the default   *)
(* context, checkTaskCondition returns true, before and after return nil   *)
(* and Skipped stays false; those branches are not modelled.               *)
(***************************************************************************)
EXTENDS Naturals, Sequences, FiniteSets, TLC

CONSTANTS
    Jobs,            \* job ids injected as the stage variable "jobID"
    TaskNames,       \* task names, each a sequence of one-character strings
    AllowFailure,    \* names of tasks with allow_failure
    ScriptLen,       \* number of commands in each task's script
    MayExitNonZero,  \* whether a command may exit with a non-zero status
    WriterMayFail,   \* whether OutputStore.Writer may return an error
    NoOutput         \* model value: nothing exported under a name yet

ASSUME
    /\ AllowFailure \subseteq TaskNames
    /\ ScriptLen \in Nat \ {0}
    /\ MayExitNonZero \in BOOLEAN
    /\ WriterMayFail \in BOOLEAN

\* One *task.Task per job and task name: buildPipelineGraph creates each.
Runs == Jobs \X TaskNames

VARIABLES
    env,          \* r.env: exported variable name -> run whose stdout it holds
    variables,    \* r.variables: "Tasks.<Name>.Output" -> run
    taskOutputs,  \* the keys of r.taskOutputs (live output buffers)
    task          \* per run: the Run goroutine's position and the task fields

trVars == <<env, variables, taskOutputs, task>>

(***************************************************************************)
(* storeTaskOutput derives the names it exports under from the task name:  *)
(* strings.ToUpper, then every character outside [a-zA-Z0-9_] becomes "_", *)
(* then the suffix _OUTPUT; and strings.Title of the name inside           *)
(* "Tasks.%s.Output". Names are sequences over a small alphabet; the fixed *)
(* prefix and suffix are kept as one element each.                         *)
(***************************************************************************)
Capital == ("a" :> "A") @@ ("b" :> "B") @@ ("c" :> "C") @@ ("d" :> "D")

ToUpper(c) == IF c \in DOMAIN Capital THEN Capital[c] ELSE c

\* the characters the regexp [^a-zA-Z0-9_] leaves alone in this alphabet
WordChars == DOMAIN Capital \cup {Capital[c] : c \in DOMAIN Capital} \cup {"_"}

\* the envVarName of storeTaskOutput (ExportAs is never set)
EnvVarName(n) ==
    [i \in DOMAIN n |-> IF ToUpper(n[i]) \in WordChars THEN ToUpper(n[i])
                                                     ELSE "_"]
    \o <<"_OUTPUT">>

\* the varName of storeTaskOutput: strings.Title capitalises every letter
\* that follows a separator (any character outside letters, digits and "_")
VarName(n) ==
    <<"Tasks.">>
    \o [i \in DOMAIN n |-> IF i = 1 \/ n[i - 1] \notin WordChars
                           THEN ToUpper(n[i]) ELSE n[i]]
    \o <<".Output">>

EnvNames == {EnvVarName(n) : n \in TaskNames}
VarNames == {VarName(n) : n \in TaskNames}

\* the outcomes of OutputStore.Writer (os.MkdirAll and os.Create may fail)
WriterOutcomes == IF WriterMayFail THEN {TRUE, FALSE} ELSE {TRUE}

\* the outcomes of exec.Execute for one command
CommandOutcomes == {"ok"} \cup (IF MayExitNonZero THEN {"exit"} ELSE {})

TaskState ==
    [pc: {"idle", "exec", "store", "returning", "returned"},
     cmd: 0..ScriptLen,            \* commands of the script run so far
     start: BOOLEAN, end: BOOLEAN, \* t.Start and t.End are set
     exitCode: {0, 1},             \* t.ExitCode, 1 standing for non-zero
     errored: BOOLEAN,             \* t.Errored
     err: BOOLEAN,                 \* Run returned an error
     failed: BOOLEAN,              \* history: some command exited non-zero
     readEnv: [EnvNames -> Runs \cup {NoOutput}],  \* env given to the task
     readVars: [VarNames -> Runs \cup {NoOutput}]] \* vars given to the task

NoExports(names) == [v \in names |-> NoOutput]

\* a *task.Task as buildPipelineGraph creates it, before Run
IdleTask == [pc |-> "idle", cmd |-> 0, start |-> FALSE, end |-> FALSE,
             exitCode |-> 0, errored |-> FALSE, err |-> FALSE,
             failed |-> FALSE, readEnv |-> NoExports(EnvNames),
             readVars |-> NoExports(VarNames)]

TRInit ==
    /\ env = NoExports(EnvNames)
    /\ variables = NoExports(VarNames)
    /\ taskOutputs = {}
    /\ task = [r \in Runs |-> IdleTask]

(***************************************************************************)
(* Run, up to execute: the env and vars merged for the task, the live      *)
(* output buffer registered in r.taskOutputs, and the stdout and stderr    *)
(* writers of the output store; a writer error ends Run.                   *)
(***************************************************************************)
RunBegin(r) ==
    /\ task[r].pc = "idle"
    /\ \E opened \in WriterOutcomes :
         task' = [task EXCEPT ![r].pc = IF opened THEN "exec" ELSE "returning",
                              ![r].readEnv = env,
                              ![r].readVars = variables]
    /\ taskOutputs' = taskOutputs \cup {r}
    /\ UNCHANGED <<env, variables>>

(***************************************************************************)
(* execute: one command of the script. A non-zero exit records ExitCode    *)
(* and, with AllowFailure, continues with the next command; otherwise it  *)
(* sets Errored and End and returns the error.                             *)
(***************************************************************************)
Execute(r) ==
    /\ task[r].pc = "exec"
    /\ \E outcome \in CommandOutcomes :
         LET t == task[r]
             goesOn == outcome = "ok" \/ r[2] \in AllowFailure
             last == t.cmd + 1 = ScriptLen
         IN task' = [task EXCEPT ![r] =
                       [t EXCEPT !.start = TRUE,
                                 !.cmd = t.cmd + 1,
                                 !.exitCode = IF outcome = "exit" THEN 1
                                                                  ELSE @,
                                 !.failed = @ \/ outcome = "exit",
                                 !.errored = ~goesOn,
                                 !.end = ~goesOn \/ last,
                                 !.pc = IF ~goesOn THEN "returning"
                                        ELSE IF last THEN "store"
                                        ELSE "exec"]]
    /\ UNCHANGED <<env, variables, taskOutputs>>

\* storeTaskOutput: the task's stdout is exported into the shared containers.
StoreTaskOutput(r) ==
    /\ env' = [env EXCEPT ![EnvVarName(r[2])] = r]
    /\ variables' = [variables EXCEPT ![VarName(r[2])] = r]

(***************************************************************************)
(* The deferred functions of Run, last registered first: the log writers  *)
(* are closed, the live output buffer is flushed and removed, and ExitCode *)
(* is reset unless the task errored or was skipped.                        *)
(***************************************************************************)
RunDefers(r) ==
    /\ taskOutputs' = taskOutputs \ {r}
    /\ task' = [task EXCEPT ![r].pc = "returned",
                            ![r].err = (task[r].pc = "returning"),
                            ![r].exitCode = IF task[r].errored THEN @ ELSE 0]

\* Mutant: the output is exported only when the exit code is zero.
ReturnStoresOnSuccess(r) ==
    /\ task[r].pc \in {"store", "returning"}
    /\ IF task[r].pc = "store" /\ task[r].exitCode = 0
       THEN StoreTaskOutput(r) ELSE UNCHANGED <<env, variables>>
    /\ RunDefers(r)

\* The end of Run: storeTaskOutput after a successful execute, then the
\* deferred functions. "after" has no commands and returns nil.
Return(r) ==
    /\ task[r].pc \in {"store", "returning"}
    /\ IF task[r].pc = "store"
       THEN StoreTaskOutput(r) ELSE UNCHANGED <<env, variables>>
    /\ RunDefers(r)

-----------------------------------------------------------------------------

TRTypeOK ==
    /\ env \in [EnvNames -> Runs \cup {NoOutput}]
    /\ variables \in [VarNames -> Runs \cup {NoOutput}]
    /\ taskOutputs \subseteq Runs
    /\ task \in [Runs -> TaskState]

=============================================================================
