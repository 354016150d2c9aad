------------------------- MODULE MC_PipelineRunner -------------------------
(***************************************************************************)
(* Instances of PipelineRunner for TLC. The pipelines cover every branch   *)
(* of resolveScheduleAction:                                               *)
(*   Admission: p1 append, concurrency 1, queue limit 1 (queue, and      *)
(*              queueFull for the third request at the limit)            *)
(*              p2 replace, concurrency 1, no queue limit (replace)        *)
(*              p3 concurrency 1, queue limit 0 (noQueue)                  *)
(*   Restart:   p1 append, concurrency 2, no queue limit (several jobs     *)
(*              started by one drain after a restart)                      *)
(*              p2 concurrency 1, queue limit 0, its graph never builds    *)
(***************************************************************************)
EXTENDS PipelineRunner

CONSTANTS p1, p2, p3, j1, j2, j3, j4, j5

AdmissionPipelines == {p1, p2, p3}
AdmissionConcurrency == [p \in AdmissionPipelines |-> 1]
AdmissionQueueLimit == (p1 :> 1) @@ (p2 :> NoLimit) @@ (p3 :> 0)
AdmissionStrategy == (p1 :> "append") @@ (p2 :> "replace") @@ (p3 :> "append")
AdmissionJobIds == {j1, j2, j3}

RestartPipelines == {p1, p2}
RestartConcurrency == (p1 :> 2) @@ (p2 :> 1)
RestartQueueLimit == (p1 :> NoLimit) @@ (p2 :> 0)
RestartStrategy == [p \in RestartPipelines |-> "append"]
RestartJobIds == {j1, j2, j3, j4, j5}
RestartGraphFails == {p2}
=============================================================================
