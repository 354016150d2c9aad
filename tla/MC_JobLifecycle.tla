------------------------- MODULE MC_JobLifecycle --------------------------
(***************************************************************************)
(* An instance of JobLifecycle for TLC: one pipeline with concurrency 1    *)
(* and room for one waiting job, two job ids, tasks a -> b whose one       *)
(* command may exit non-zero (no allow_failure), and one crash.            *)
(***************************************************************************)
EXTENDS JobLifecycle

CONSTANTS p1, j1, j2

LifecyclePipelines == {p1}
LifecycleConcurrency == (p1 :> 1)
LifecycleQueueLimit == (p1 :> 1)
LifecycleStrategy == (p1 :> "append")
LifecycleJobIds == {j1, j2}

TaskA == <<"a">>
TaskB == <<"b">>
PairNames == {TaskA, TaskB}
PairDeps == (TaskA :> {}) @@ (TaskB :> {TaskA})
NoNames == {}
=============================================================================
