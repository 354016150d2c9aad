---------------------------- MODULE MC_JobTasks ----------------------------
(***************************************************************************)
(* Instances of JobTasks for TLC. Task names are sequences of characters:  *)
(* "a", "b", "c", and "a-b" and "a_b", two names storeTaskOutput exports   *)
(* under the same environment variable A_B_OUTPUT.                         *)
(***************************************************************************)
EXTENDS JobTasks, TLC

CONSTANTS j1, j2

TaskA == <<"a">>
TaskB == <<"b">>
TaskC == <<"c">>
TaskD == <<"d">>
TaskADashB == <<"a", "-", "b">>
TaskAUnderscoreB == <<"a", "_", "b">>

\* a -> b -> c: a allows failure, b may fail and cancel c
ChainNames == {TaskA, TaskB, TaskC}
ChainDeps == (TaskA :> {}) @@ (TaskB :> {TaskA}) @@ (TaskC :> {TaskB})

\* a -> b, a -> c, b and c -> d: b and c run at once, and an error in one
\* cancels d while the other goes on
DiamondNames == {TaskA, TaskB, TaskC, TaskD}
DiamondDeps == (TaskA :> {}) @@ (TaskB :> {TaskA}) @@ (TaskC :> {TaskA})
               @@ (TaskD :> {TaskB, TaskC})

\* a -> b
PairNames == {TaskA, TaskB}
PairDeps == (TaskA :> {}) @@ (TaskB :> {TaskA})

\* "a-b" -> c, and "a_b" on its own
CollisionNames == {TaskADashB, TaskAUnderscoreB, TaskC}
CollisionDeps == (TaskADashB :> {}) @@ (TaskAUnderscoreB :> {})
                 @@ (TaskC :> {TaskADashB})

OnlyA == {TaskA}
NoNames == {}

TwoJobs == <<j1, j2>>
OneJob == <<j1>>
=============================================================================
