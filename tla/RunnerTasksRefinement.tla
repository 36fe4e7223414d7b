-------------------------- MODULE RunnerTasksRefinement --------------------------
(***************************************************************************)
(* The Runner task queue keeps the promise of a queue of fenced jobs, for  *)
(* the tasks of v2 Runners and whatever v1 Runners do beside them.         *)
(***************************************************************************)
EXTENDS RunnerTasks

StrictTasks == {t \in Tasks : Strict(t)}

\* "leased", "acknowledged" and "running" are stages of one hold; a task that
\* failed or was cancelled is closed until an operator requeues it.
PhaseOf(t) ==
    IF status[t] \in Active THEN "held"
    ELSE IF status[t] = "absent" THEN "unborn"
    ELSE IF status[t] = "queued" THEN "pending"
    ELSE IF status[t] = "completed" THEN "done"
    ELSE IF status[t] = "dead" THEN "dead"
    ELSE "closed"

\* The terminal results stored; partial ones are no outcome.
OutcomesOf(t) ==
    {results[t][k] : k \in {k \in ResultKeys : results[t][k].report \in Outcome}}

JobOf(t) == [phase |-> PhaseOf(t), claims |-> attempt[t], outcomes |-> OutcomesOf(t)]

Jobs == INSTANCE FencedJobs WITH
    Jobs <- StrictTasks,
    MaxClaims <- MaxAttempts,
    job <- [t \in StrictTasks |-> JobOf(t)]

\* The task queue implements the fenced jobs: leases, tokens, retries, expiry and
\* the operator's interventions never show an observer of the tasks and their
\* stored outcomes anything that the queue of fenced jobs does not allow.
ImplementsFencedJobs == Jobs!Spec

================================================================================
