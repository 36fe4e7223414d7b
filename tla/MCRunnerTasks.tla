----------------------------- MODULE MCRunnerTasks -----------------------------
(* Instances of RunnerTasks for TLC. *)
EXTENDS RunnerTasksRefinement, TLC

CONSTANTS r1, r2, t1, t2, x, y

\* One Runner, two tasks that compete for its single slot.
OneRunner == [t \in Tasks |-> r1]

\* The first task is queued for r1, every other one for r2.
FirstForR1 == [t \in Tasks |-> IF t = t1 THEN r1 ELSE r2]

\* One slot per Runner.
SingleSlot == [r \in Runners |-> 1]

TaskSymmetry == Permutations(Tasks)
================================================================================
