--------------------------- MODULE WpRunnerRefinement ---------------------------
(***************************************************************************)
(* The task that WpRunner is about is a job of FencedJobs, from its        *)
(* submission on: the little the module knows of the relay agrees with     *)
(* what RunnerTasks shows of all of it.                                    *)
(***************************************************************************)
EXTENDS WpRunner

TheTask == "the task"

\* A lapsed lease is a hold until the next pull takes it.
TaskPhase ==
    CASE taskStatus = "queued"    -> "pending"
      [] taskStatus = "dead"      -> "dead"
      [] taskStatus = "completed" -> "done"
      [] taskStatus = "failed"    -> "closed"
      [] OTHER                    -> "held"

TaskOutcomes ==
    IF stored = NothingStored THEN {}
    ELSE {[report |-> IF stored.text = NoText THEN "failed" ELSE "completed",
           generation |-> stored.claim]}

WpJob == [j \in {TheTask} |-> [phase |-> TaskPhase, claims |-> attempt, outcomes |-> TaskOutcomes]]

Queue == INSTANCE FencedJobs WITH Jobs <- {TheTask}, job <- WpJob

\* Processes that share a token, die, come late or report what nobody waits for take
\* the task through no step that the queue of fenced jobs does not allow.
KeepsToFencedJobs == [][Queue!Next]_WpJob

=================================================================================
