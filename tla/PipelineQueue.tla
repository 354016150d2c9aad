--------------------------- MODULE PipelineQueue ----------------------------
(***************************************************************************)
(* What the pipeline runner promises about admission, as spec sections 3,  *)
(* 4.1 and 4.3 state it, with no wait-list copies, no persistence and no   *)
(* goroutines: per pipeline a FIFO queue of admitted jobs, a set of        *)
(* running jobs bounded by the pipeline's concurrency, and the ended jobs. *)
(*   - A request starts a job if a slot is free; otherwise, with queueing  *)
(*     on, it replaces the last waiting job (strategy replace) or joins    *)
(*     the queue's end unless the queue is at its limit. A rejected        *)
(*     request changes nothing.                                            *)
(*   - When a job finishes, the queue's head jobs start, as many as the    *)
(*     slots now free allow, in queue order, in the same step.             *)
(* PipelineRunner implements this specification (RefinesPipelineQueue).    *)
(***************************************************************************)
EXTENDS Naturals, FiniteSets, SequencesExt

CONSTANTS Pipelines, Concurrency, QueueLimit, QueueStrategy, NoLimit, JobIds

VARIABLES
    owner,    \* the pipeline each admitted job id belongs to
    queue,    \* per pipeline, the jobs waiting to start, head first
    running,  \* the jobs started and not yet ended
    ended     \* the jobs that finished, or were dropped from a queue

qvars == <<owner, queue, running, ended>>

RunningOf(p) == {id \in running : owner[id] = p}

FreeSlots(p) == Concurrency[p] - Cardinality(RunningOf(p))

QueueFull(p) == QueueLimit[p] # NoLimit /\ Len(queue[p]) >= QueueLimit[p]

QInit ==
    /\ owner = <<>>
    /\ queue = [p \in Pipelines |-> <<>>]
    /\ running = {}
    /\ ended = {}

\* A request for pipeline p admits the fresh job id.
Admit(p, id) ==
    /\ id \in JobIds \ DOMAIN owner
    /\ owner' = (id :> p) @@ owner
    /\ \/ /\ FreeSlots(p) > 0
          /\ running' = running \cup {id}
          /\ UNCHANGED <<queue, ended>>
       \/ /\ FreeSlots(p) <= 0
          /\ QueueLimit[p] # NoLimit => QueueLimit[p] # 0
          /\ QueueStrategy[p] = "replace"
          /\ queue[p] # <<>>
          /\ ended' = ended \cup {Last(queue[p])}
          /\ queue' = [queue EXCEPT ![p] = Append(Front(@), id)]
          /\ UNCHANGED running
       \/ /\ FreeSlots(p) <= 0
          /\ ~(QueueStrategy[p] = "replace" /\ queue[p] # <<>>)
          /\ ~QueueFull(p)
          /\ queue' = [queue EXCEPT ![p] = Append(@, id)]
          /\ UNCHANGED <<running, ended>>

\* A running job ends, and the head of its pipeline's queue moves up into
\* the slots that are free afterwards.
Finish(id) ==
    /\ id \in running
    /\ LET p == owner[id]
           k == IF FreeSlots(p) + 1 < Len(queue[p])
                THEN FreeSlots(p) + 1 ELSE Len(queue[p])
       IN /\ running' = (running \ {id}) \cup ToSet(SubSeq(queue[p], 1, k))
          /\ queue' = [queue EXCEPT ![p] = SubSeq(@, k + 1, Len(@))]
    /\ ended' = ended \cup {id}
    /\ UNCHANGED owner

QNext ==
    \/ \E p \in Pipelines, id \in JobIds : Admit(p, id)
    \/ \E id \in JobIds : Finish(id)

\* Every started job finishes (its scripts terminate).
QSpec == QInit /\ [][QNext]_qvars /\ \A id \in JobIds : WF_qvars(Finish(id))
=============================================================================
