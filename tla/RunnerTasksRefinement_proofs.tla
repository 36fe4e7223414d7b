---------------------- MODULE RunnerTasksRefinement_proofs ----------------------
(* The Runner task queue implements the queue of fenced jobs: proofs.          *)
EXTENDS RunnerTasksRefinement, RunnerTasks_proofs

job == [t \in StrictTasks |-> JobOf(t)]

JobsTyped == job \in [StrictTasks -> Jobs!JobState]

LEMMA StrictTask ==
    ASSUME NEW u \in StrictTasks
    PROVE  u \in Tasks /\ Strict(u)
BY DEF StrictTasks

LEMMA JobType ==
    ASSUME TypeOK, \A u \in StrictTasks : TaskInv(u)
    PROVE  JobsTyped
<1> SUFFICES ASSUME NEW u \in StrictTasks
             PROVE  JobOf(u) \in Jobs!JobState
  BY DEF JobsTyped, job
<1>1. u \in Tasks
  BY StrictTask
<1>2. PhaseOf(u) \in Jobs!Phase
  BY DEF PhaseOf, Jobs!Phase
<1>3. attempt[u] \in 0..MaxAttempts
  BY <1>1 DEF TypeOK
<1>4. OutcomesOf(u) \in SUBSET Jobs!GivenOutcome
  <2>1. ASSUME NEW k \in ResultKeys, results[u][k].report \in Outcome
        PROVE  results[u][k] \in Jobs!GivenOutcome
    <3>1. results[u][k] \in ResultRow
      BY <1>1 DEF TypeOK
    <3>2. results[u][k].generation \in 1..attempt[u]
      BY <2>1 DEF TaskInv, OutcomesArePast
    <3>3. results[u][k].generation \in 1..MaxAttempts
      BY <1>3, <3>1, <3>2, RunnerTasksAssumption DEF ResultRow
    <3>4. QED
      BY <2>1, <3>1, <3>3 DEF ResultRow, Outcome, Jobs!GivenOutcome, Jobs!Results
  <2>2. QED
    BY <2>1 DEF OutcomesOf
<1>5. QED
  BY <1>2, <1>3, <1>4 DEF JobOf, Jobs!JobState

\* A step that neither claims the task nor stores a result moves its phase only.
LEMMA PhaseMove ==
    ASSUME NEW u \in StrictTasks, attempt'[u] = attempt[u], results'[u] = results[u],
           \/ PhaseOf(u)' = PhaseOf(u)
           \/ PhaseOf(u)' = "pending" /\ PhaseOf(u) \in {"unborn", "held", "closed", "dead"}
           \/ PhaseOf(u)' = "closed" /\ PhaseOf(u) \in {"pending", "held"}
           \/ PhaseOf(u)' = "dead" /\ PhaseOf(u) = "held" /\ attempt[u] = MaxAttempts
    PROVE  Jobs!Moves(u) \/ job'[u] = job[u]
<1>1. job[u] = JobOf(u) /\ job'[u] = JobOf(u)'
  BY DEF job
<1>2. OutcomesOf(u)' = OutcomesOf(u)
  BY DEF OutcomesOf
<1>3. job'[u] = [job[u] EXCEPT !.phase = PhaseOf(u)']
  BY <1>1, <1>2 DEF JobOf
<1>4. job[u].phase = PhaseOf(u) /\ job[u].claims = attempt[u]
  BY <1>1 DEF JobOf
<1>5. CASE PhaseOf(u)' = PhaseOf(u)
  BY <1>1, <1>2, <1>5 DEF JobOf
<1>6. CASE PhaseOf(u)' # PhaseOf(u)
  BY <1>3, <1>4, <1>6
     DEF job, Jobs!Moves, Jobs!Goes, Jobs!Submit, Jobs!Release, Jobs!GiveUp, Jobs!Cancel, Jobs!Reopen
<1>7. QED
  BY <1>5, <1>6

\* A poll claims the task, whether it was queued or has just been reclaimed.
LEMMA ClaimMove ==
    ASSUME NEW u \in StrictTasks, PhaseOf(u) \in {"pending", "held"},
           attempt[u] < MaxAttempts, attempt'[u] = attempt[u] + 1,
           PhaseOf(u)' = "held", results'[u] = results[u]
    PROVE  Jobs!Moves(u)
<1>1. job[u] = JobOf(u) /\ job'[u] = JobOf(u)'
  BY DEF job
<1>2. OutcomesOf(u)' = OutcomesOf(u)
  BY DEF OutcomesOf
<1>3. /\ job[u] = [phase |-> PhaseOf(u), claims |-> attempt[u], outcomes |-> OutcomesOf(u)]
      /\ job'[u] = [phase |-> "held", claims |-> attempt[u] + 1, outcomes |-> OutcomesOf(u)]
  BY <1>1, <1>2 DEF JobOf
<1>4. /\ job[u].phase = PhaseOf(u) /\ job[u].claims = attempt[u]
      /\ job[u].outcomes = OutcomesOf(u)
  BY <1>3
<1>5. Jobs!Claim(u)
  BY <1>3, <1>4 DEF job, Jobs!Claim
<1>6. QED
  BY <1>5 DEF Jobs!Moves

\* A terminal result under a fresh id gives the current claim its outcome.
LEMMA FinishMove ==
    ASSUME NEW u \in StrictTasks, TypeOK, TaskInv(u), NEW r \in Runners,
           NEW k \in 0..MaxAttempts, NEW key \in ResultKeys, NEW report \in Outcome,
           SubmitTerminal(r, u, k, key, report)
    PROVE  Jobs!Moves(u)
<1> DEFINE row == [report |-> report, generation |-> attempt[u]]
<1> u \in Tasks /\ Strict(u)
  BY StrictTask
<1>1. status[u] \in Active /\ token[u] = attempt[u]
  BY VerifiedHolder DEF SubmitTerminal
<1>2. /\ status'[u] = report /\ attempt' = attempt
      /\ results[u][key] = NoResult
      /\ results'[u] = [results[u] EXCEPT ![key] = row]
  BY <1>1 DEF SubmitTerminal, RecordResult, TypeOK
<1>3. \A j \in ResultKeys : results'[u][j] = IF j = key THEN row ELSE results[u][j]
  BY <1>2 DEF TypeOK
<1>4. results[u][key].report \notin Outcome
  BY <1>2 DEF NoResult, Outcome
<1>5. OutcomesOf(u)' = OutcomesOf(u) \cup {row}
  BY <1>3, <1>4 DEF OutcomesOf
<1>6. /\ PhaseOf(u) = "held"
      /\ PhaseOf(u)' = IF report = "completed" THEN "done" ELSE "closed"
  BY <1>1, <1>2 DEF PhaseOf, Active, Outcome
<1>7. job[u] = JobOf(u) /\ job'[u] = JobOf(u)'
  BY DEF job
<1>8. /\ job[u].phase = "held" /\ job[u].claims = attempt[u]
      /\ job[u].outcomes = OutcomesOf(u)
  BY <1>6, <1>7 DEF JobOf
<1>9. job'[u] = [phase |-> IF report = "completed" THEN "done" ELSE "closed",
                 claims |-> job[u].claims, outcomes |-> job[u].outcomes \cup {row}]
  BY <1>2, <1>5, <1>6, <1>7, <1>8 DEF JobOf
<1>10. Jobs!Finish(u, report)
  BY <1>8, <1>9 DEF job, Jobs!Finish
<1>11. QED
  BY <1>10 DEF Jobs!Moves, Jobs!Results, Outcome

\* Every step of the queue moves a v2 task as a fenced job may move, or not at all.
LEMMA JobStep ==
    ASSUME TypeOK, [Next]_vars, NEW u \in StrictTasks, TaskInv(u)
    PROVE  Jobs!Moves(u) \/ job'[u] = job[u]
<1> USE RunnerTasksAssumption
<1> u \in Tasks /\ Strict(u)
  BY StrictTask
<1>1. CASE UNCHANGED vars
  BY <1>1, PhaseMove DEF vars, PhaseOf
<1>2. CASE Next
  <2>1. ASSUME NEW t \in Tasks, Enqueue(t) \/ RequeueTask(t)
        PROVE  Jobs!Moves(u) \/ job'[u] = job[u]
    <3>1. CASE t # u
      <4>1. status'[u] = status[u]
        BY <2>1, <3>1 DEF Enqueue, RequeueTask, TypeOK
      <4>2. QED
        BY <2>1, <4>1, PhaseMove DEF Enqueue, RequeueTask, PhaseOf
    <3>2. CASE t = u
      <4>1. status'[u] = "queued" /\ status[u] # "completed"
        BY <2>1, <3>2 DEF Enqueue, RequeueTask, TypeOK
      <4>2. PhaseOf(u)' = "pending"
        BY <4>1 DEF PhaseOf, Active
      <4>3. PhaseOf(u) \in {"unborn", "pending", "held", "closed", "dead"}
        BY <4>1 DEF PhaseOf
      <4>4. QED
        BY <2>1, <4>2, <4>3, PhaseMove DEF Enqueue, RequeueTask
    <3>3. QED
      BY <3>1, <3>2
  <2>2. ASSUME NEW t \in Tasks, CancelTask(t)
        PROVE  Jobs!Moves(u) \/ job'[u] = job[u]
    <3>1. CASE t # u
      <4>1. status'[u] = status[u]
        BY <2>2, <3>1 DEF CancelTask, TypeOK
      <4>2. QED
        BY <2>2, <4>1, PhaseMove DEF CancelTask, PhaseOf
    <3>2. CASE t = u
      <4>1. status'[u] = "cancelled" /\ status[u] \in Active \cup {"queued"}
        BY <2>2, <3>2 DEF CancelTask, TypeOK, Status
      <4>2. PhaseOf(u)' = "closed" /\ PhaseOf(u) \in {"pending", "held"}
        BY <4>1 DEF PhaseOf, Active
      <4>3. QED
        BY <2>2, <4>2, PhaseMove DEF CancelTask
    <3>3. QED
      BY <3>1, <3>2
  <2>3. ASSUME NEW r \in Runners, NEW limit \in 1..Cardinality(Tasks),
               PollRunnerTasks(r, limit)
        PROVE  Jobs!Moves(u) \/ job'[u] = job[u]
    <3> DEFINE st == AfterReclaim(TasksOf(r))
               reclaimed == Expired(TasksOf(r))
    <3>1. PICK C \in SUBSET Claimable(r, st) :
              /\ status' = [t \in Tasks |-> IF t \in C THEN "leased" ELSE st[t]]
              /\ attempt' = [t \in Tasks |-> IF t \in C THEN attempt[t] + 1 ELSE attempt[t]]
              /\ UNCHANGED results
      BY <2>3 DEF PollRunnerTasks
    <3>2. st[u] = IF u \in reclaimed
                  THEN IF attempt[u] >= MaxAttempts THEN "dead" ELSE "queued"
                  ELSE status[u]
      BY DEF AfterReclaim
    <3>3. u \in reclaimed => status[u] \in Active
      BY DEF Expired
    <3>4. u \in C => st[u] = "queued" /\ attempt[u] < MaxAttempts
      BY DEF Claimable
    <3> HIDE DEF st, reclaimed
    <3>5. CASE u \in C
      <4>1. status[u] \in Active \cup {"queued"} /\ status'[u] = "leased"
        BY <3>1, <3>2, <3>3, <3>4, <3>5
      <4>2. PhaseOf(u) \in {"pending", "held"} /\ PhaseOf(u)' = "held"
        BY <4>1 DEF PhaseOf, Active
      <4>3. QED
        BY <3>1, <3>4, <3>5, <4>2, ClaimMove
    <3>6. CASE u \notin C /\ u \in reclaimed
      <4>1. /\ status[u] \in Active
            /\ status'[u] = IF attempt[u] = MaxAttempts THEN "dead" ELSE "queued"
        BY <3>1, <3>2, <3>3, <3>6 DEF TypeOK
      <4>2. /\ PhaseOf(u) = "held"
            /\ PhaseOf(u)' = IF attempt[u] = MaxAttempts THEN "dead" ELSE "pending"
        BY <4>1 DEF PhaseOf, Active
      <4>3. QED
        BY <3>1, <3>6, <4>2, PhaseMove
    <3>7. CASE u \notin C /\ u \notin reclaimed
      BY <3>1, <3>2, <3>7, PhaseMove DEF PhaseOf
    <3>8. QED
      BY <3>5, <3>6, <3>7
  <2>4. ASSUME NEW r \in Runners, NEW t \in Tasks, NEW k \in 0..MaxAttempts,
               AcknowledgeRunnerTask(r, t, k)
        PROVE  Jobs!Moves(u) \/ job'[u] = job[u]
    <3>1. t = u => status[u] \in Active
      BY <2>4, VerifiedHolder DEF AcknowledgeRunnerTask
    <3>2. PhaseOf(u)' = PhaseOf(u)
      BY <2>4, <3>1 DEF AcknowledgeRunnerTask, PhaseOf, Active, TypeOK
    <3>3. QED
      BY <2>4, <3>2, PhaseMove DEF AcknowledgeRunnerTask
  <2>5. ASSUME NEW r \in Runners, NEW t \in Tasks, NEW k \in 0..MaxAttempts,
               RenewRunnerTask(r, t, k) \/ Tick
        PROVE  Jobs!Moves(u) \/ job'[u] = job[u]
    BY <2>5, PhaseMove DEF RenewRunnerTask, Tick, PhaseOf
  <2>6. ASSUME NEW r \in Runners, NEW t \in Tasks, NEW k \in 0..MaxAttempts,
               NEW key \in ResultKeys, SubmitPartial(r, t, k, key)
        PROVE  Jobs!Moves(u) \/ job'[u] = job[u]
    <3>1. CASE t # u
      BY <2>6, <3>1, PhaseMove DEF SubmitPartial, RecordResult, PhaseOf, TypeOK
    <3>2. CASE t = u
      <4>1. status[u] \in Active
        BY <2>6, <3>2, VerifiedHolder DEF SubmitPartial
      <4>2. PhaseOf(u)' = PhaseOf(u)
        BY <2>6, <3>2, <4>1 DEF SubmitPartial, PhaseOf, Active, TypeOK
      <4>3. OutcomesOf(u)' = OutcomesOf(u)
        <5>1. results[u][key].report \notin Outcome
          BY <2>6, <3>2 DEF SubmitPartial, NoResult, Outcome
        <5>2. \A j \in ResultKeys : j # key => results'[u][j] = results[u][j]
          BY <2>6, <3>2 DEF SubmitPartial, RecordResult, TypeOK
        <5>3. results'[u][key].report \notin Outcome
          BY <2>6, <3>2 DEF SubmitPartial, RecordResult, TypeOK, Outcome
        <5>4. QED
          BY <5>1, <5>2, <5>3 DEF OutcomesOf
      <4>4. JobOf(u)' = JobOf(u)
        BY <2>6, <4>2, <4>3 DEF SubmitPartial, JobOf
      <4>5. QED
        BY <4>4 DEF job
    <3>3. QED
      BY <3>1, <3>2
  <2>7. ASSUME NEW r \in Runners, NEW t \in Tasks, NEW k \in 0..MaxAttempts,
               NEW key \in ResultKeys, NEW report \in Outcome,
               SubmitTerminal(r, t, k, key, report)
        PROVE  Jobs!Moves(u) \/ job'[u] = job[u]
    <3>1. CASE t # u
      BY <2>7, <3>1, PhaseMove DEF SubmitTerminal, RecordResult, PhaseOf, TypeOK
    <3>2. CASE t = u
      BY <2>7, <3>2, FinishMove
    <3>3. QED
      BY <3>1, <3>2
  <2>8. ASSUME ReclaimExpired
        PROVE  Jobs!Moves(u) \/ job'[u] = job[u]
    <3>1. status'[u] = IF u \in Expired(Tasks)
                       THEN IF attempt[u] >= MaxAttempts THEN "dead" ELSE "queued"
                       ELSE status[u]
      BY <2>8 DEF ReclaimExpired, AfterReclaim
    <3>2. u \in Expired(Tasks) => status[u] \in Active
      BY DEF Expired
    <3>3. CASE u \in Expired(Tasks)
      <4>1. /\ PhaseOf(u) = "held"
            /\ PhaseOf(u)' = IF attempt[u] = MaxAttempts THEN "dead" ELSE "pending"
        BY <3>1, <3>2, <3>3 DEF PhaseOf, Active, TypeOK
      <4>2. QED
        BY <2>8, <4>1, PhaseMove DEF ReclaimExpired
    <3>4. CASE u \notin Expired(Tasks)
      BY <2>8, <3>1, <3>4, PhaseMove DEF ReclaimExpired, PhaseOf
    <3>5. QED
      BY <3>3, <3>4
  <2>9. QED
    BY <1>2, <2>1, <2>2, <2>3, <2>4, <2>5, <2>6, <2>7, <2>8, NextCases
<1>3. QED
  BY <1>1, <1>2

\* The task queue implements the fenced jobs (ImplementsFencedJobs), for every set
\* of tasks, Runners and result ids and all bounds.
THEOREM Implementation == Spec => ImplementsFencedJobs
<1>1. Init => Jobs!Init
  <2> SUFFICES ASSUME Init
               PROVE  \A u \in StrictTasks :
                         JobOf(u) = [phase |-> "unborn", claims |-> 0, outcomes |-> {}]
    BY DEF Jobs!Init
  <2> TAKE u \in StrictTasks
  <2>1. u \in Tasks
    BY StrictTask
  <2>2. PhaseOf(u) = "unborn" /\ attempt[u] = 0
    BY <2>1 DEF Init, PhaseOf, Active
  <2>3. OutcomesOf(u) = {}
    BY <2>1 DEF Init, OutcomesOf, NoResult, Outcome
  <2>4. QED
    BY <2>2, <2>3 DEF JobOf
<1>2. IInv => JobsTyped
  BY JobType, StrictTask DEF IInv
<1>3. IInv' => JobsTyped'
  BY <1>2, PTL
<1>4. IInv /\ IInv' /\ [Next]_vars => [Jobs!Next]_job
  <2> SUFFICES ASSUME IInv, IInv', [Next]_vars
               PROVE  Jobs!Next
    OBVIOUS
  <2>1. job' \in [StrictTasks -> Jobs!JobState]
    BY <1>3 DEF JobsTyped
  <2>2. \A u \in StrictTasks : Jobs!Moves(u) \/ job'[u] = job[u]
    BY JobStep, StrictTask DEF IInv
  <2>3. QED
    BY <2>1, <2>2 DEF Jobs!Next, job
<1>5. QED
  BY <1>1, <1>4, Invariance, PTL DEF Spec, ImplementsFencedJobs, Jobs!Spec, job

\* What FencedJobs keeps in mind of a job: no outcome is of a claim to come, and the
\* claim that holds the job has given none yet.
HoldIsFresh(u) ==
    /\ job[u] \in Jobs!JobState
    /\ \A o \in job[u].outcomes :
        /\ o.generation <= job[u].claims
        /\ job[u].phase = "held" => o.generation < job[u].claims
        /\ \A other \in job[u].outcomes : other.generation = o.generation => other = o

\* What is on record for a task says one thing of each claim.
OneReportPerClaim ==
    \A u \in StrictTasks : \A o, other \in OutcomesOf(u) :
        other.generation = o.generation => other = o

\* Whatever implements FencedJobs has at most one outcome on record per claim, and
\* takes back no completion: the abstract specification is strong enough to say so.
THEOREM FencedJobsSuffice ==
    ImplementsFencedJobs =>
        /\ []OneReportPerClaim
        /\ [][\A u \in StrictTasks : status[u] = "completed" => status'[u] = "completed"]_vars
<1> DEFINE Fresh == \A u \in StrictTasks : HoldIsFresh(u)
<1>1. Jobs!Init => Fresh
  <2> SUFFICES ASSUME Jobs!Init, NEW u \in StrictTasks PROVE HoldIsFresh(u)
    OBVIOUS
  <2>1. job[u] = [phase |-> "unborn", claims |-> 0, outcomes |-> {}]
    BY DEF Jobs!Init, job
  <2> QED
    BY <2>1, RunnerTasksAssumption DEF HoldIsFresh, Jobs!JobState, Jobs!Phase
<1>2. ASSUME NEW u \in StrictTasks, HoldIsFresh(u), Jobs!Next
      PROVE  HoldIsFresh(u)'
  <2> DEFINE old == job[u]
             new == job'[u]
  <2>1. /\ old \in Jobs!JobState /\ new \in Jobs!JobState
        /\ Jobs!Moves(u) \/ new = old
    BY <1>2 DEF HoldIsFresh, Jobs!Next, job
  <2>2. /\ old.claims \in Nat /\ new.claims \in Nat
        /\ \A o \in old.outcomes \cup new.outcomes : o.generation \in Nat
    BY <2>1, RunnerTasksAssumption DEF Jobs!JobState, Jobs!GivenOutcome
  <2>3. CASE new = old
    BY <1>2, <2>3 DEF HoldIsFresh
  <2>4. ASSUME NEW to, to # "held", new = [old EXCEPT !.phase = to]
        PROVE  HoldIsFresh(u)'
    <3>1. new.phase # "held" /\ new.claims = old.claims /\ new.outcomes = old.outcomes
      BY <2>1, <2>4 DEF Jobs!JobState
    <3> QED
      BY <1>2, <2>1, <3>1 DEF HoldIsFresh
  <2>5. CASE Jobs!Claim(u)
    <3>1. new.claims = old.claims + 1 /\ new.outcomes = old.outcomes
      BY <2>5 DEF Jobs!Claim, job
    <3> QED
      BY <1>2, <2>1, <2>2, <3>1 DEF HoldIsFresh
  <2>6. ASSUME NEW report \in Jobs!Results, Jobs!Finish(u, report)
        PROVE  HoldIsFresh(u)'
    <3> DEFINE given == [report |-> report, generation |-> old.claims]
    <3>1. /\ old.phase = "held" /\ new.phase # "held" /\ new.claims = old.claims
          /\ new.outcomes = old.outcomes \cup {given}
      BY <2>6 DEF Jobs!Finish, job
    <3>2. given.generation = old.claims
      OBVIOUS
    <3> HIDE DEF given
    <3> QED
      BY <1>2, <2>1, <2>2, <3>1, <3>2 DEF HoldIsFresh
  <2>7. \/ Jobs!Submit(u) \/ Jobs!Release(u) \/ Jobs!GiveUp(u) \/ Jobs!Cancel(u) \/ Jobs!Reopen(u)
        => \E to \in {"pending", "closed", "dead"} : new = [old EXCEPT !.phase = to]
    BY DEF Jobs!Submit, Jobs!Release, Jobs!GiveUp, Jobs!Cancel, Jobs!Reopen, Jobs!Goes, job
  <2> QED
    BY <2>1, <2>3, <2>4, <2>5, <2>6, <2>7 DEF Jobs!Moves
<1>3. Fresh /\ [Jobs!Next]_job => Fresh'
  <2>1. CASE job' = job
    BY <2>1 DEF HoldIsFresh
  <2> QED
    BY <1>2, <2>1
<1>4. Fresh => OneReportPerClaim
  BY DEF HoldIsFresh, OneReportPerClaim, job, JobOf
<1>5. ASSUME [Jobs!Next]_job, NEW u \in StrictTasks, status[u] = "completed"
      PROVE  status'[u] = "completed"
  <2>1. job[u].phase = PhaseOf(u) /\ job'[u].phase = PhaseOf(u)'
    BY DEF job, JobOf
  <2>2. PhaseOf(u) = "done"
    BY <1>5 DEF PhaseOf, Active
  <2>3. ~Jobs!Moves(u)
    BY <2>1, <2>2 DEF Jobs!Moves, Jobs!Submit, Jobs!Claim, Jobs!Release, Jobs!GiveUp, Jobs!Cancel,
                      Jobs!Reopen, Jobs!Goes, Jobs!Finish, job
  <2>4. PhaseOf(u)' = "done"
    BY <1>5, <2>1, <2>2, <2>3 DEF Jobs!Next, job
  <2> QED
    BY <2>4 DEF PhaseOf, Active
<1>6. [Jobs!Next]_job =>
        [\A u \in StrictTasks : status[u] = "completed" => status'[u] = "completed"]_vars
  BY <1>5
<1> QED
  BY <1>1, <1>3, <1>4, <1>6, PTL DEF ImplementsFencedJobs, Jobs!Spec, job

================================================================================
