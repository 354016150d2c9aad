------------------------------ MODULE TopoSort ------------------------------
(***************************************************************************)
(* buildJobTasks and jobTasks.sortTasksByDependencies of src/prunner.go:   *)
(* the order in which a job's tasks are listed (and persisted). Kahn's     *)
(* algorithm over a queue that is re-sorted by name after every step;      *)
(* tasks never reached keep order 0; the result is sorted by (order,name). *)
(*                                                                         *)
(* Task names are the numbers 1..MaxTasks, their numeric order standing    *)
(* for Go's string order. A pipeline's tasks are a dependency function     *)
(* n -> set of names in DependsOn.                                         *)
(***************************************************************************)
EXTENDS Naturals, FiniteSets, SequencesExt

CONSTANT MaxTasks

ASSUME MaxTasks \in Nat \ {0}

Names == 1..MaxTasks

VARIABLES
    input,  \* the TaskDefs' DependsOn of the pipeline being scheduled
    tasks   \* the job's task names in the order buildJobTasks returns

vars == <<input, tasks>>

\* Mutant: the queue is never sorted.
SortNamesNever(s) == s

\* sort.Strings
SortNames(s) == SortSeq(s, <)

\* The names whose last incoming edge is the one from n.
Released(inc, n) == {m \in DOMAIN inc : inc[m] = {n}}

\* The main loop of sortTasksByDependencies: pop the head, give it the next
\* ordinal, remove its outgoing edges, append the released dependants and
\* sort the queue again (sort.Strings(queue) at the end of the loop body).
RECURSIVE Kahn(_, _, _, _)
Kahn(inc, queue, order, i) ==
    IF queue = <<>> THEN order
    ELSE LET n == Head(queue)
             next == SortNames(Tail(queue) \o SetToSeq(Released(inc, n)))
         IN Kahn([m \in DOMAIN inc |-> inc[m] \ {n}], next,
                 [order EXCEPT ![n] = i], i + 1)

\* sortTasksByDependencies for the tasks of dependency function deps
SortTasksByDependencies(deps) ==
    LET order == Kahn(deps, SortNames(SetToSeq({n \in Names : deps[n] = {}})),
                      [n \in Names |-> 0], 0)
        Before(a, b) == order[a] < order[b]
                        \/ (order[a] = order[b] /\ a < b)
    IN SortSeq(SetToSeq(Names), Before)

\* Permutations of the task names, as sequences.
Orders == {s \in [1..MaxTasks -> Names] : ToSet(s) = Names}

\* Orders in which every task comes after the tasks it depends on.
TopologicalOrders(deps) ==
    {s \in Orders : \A i, j \in 1..MaxTasks : s[i] \in deps[s[j]] => i < j}

\* The pipelines the definition loader accepts: dependencies name tasks of
\* the pipeline and form no cycle.
Acyclic == {d \in [Names -> SUBSET Names] :
              (\A n \in Names : n \notin d[n]) /\ TopologicalOrders(d) # {}}

Init ==
    /\ input = [n \in Names |-> {}]
    /\ tasks = <<>>

\* ScheduleAsync builds the job's tasks from the pipeline definition.
BuildJobTasks ==
    \E d \in Acyclic :
        /\ input' = d
        /\ tasks' = SortTasksByDependencies(d)

Spec == Init /\ [][BuildJobTasks]_vars

-----------------------------------------------------------------------------
LexLess(s, t) ==
    \E k \in 1..MaxTasks : s[k] < t[k] /\ \A j \in 1..(k - 1) : s[j] = t[j]

\* Reference: the least topological order in name order.
LeastTopologicalOrder(deps) ==
    CHOOSE s \in TopologicalOrders(deps) :
        \A t \in TopologicalOrders(deps) : t # s => LexLess(s, t)

\* The job's tasks are listed in a topological order of DependsOn, and the
\* order is the same whatever order Go's map iteration produced: it is the
\* least topological order by task name.
SortIsLeastTopological ==
    tasks # <<>> => tasks = LeastTopologicalOrder(input)
=============================================================================
