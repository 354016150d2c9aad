\* Every acyclic dependency relation over four task names.
CONSTANT MaxTasks = 4
SPECIFICATION Spec
\* Each step builds the tasks of a new job from one acyclic pipeline (543 of them).
INVARIANT SortIsLeastTopological
