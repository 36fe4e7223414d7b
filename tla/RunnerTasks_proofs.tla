-------------------------- MODULE RunnerTasks_proofs --------------------------
(***************************************************************************)
(* Theorems about the Runner task queue, for every number of tasks and     *)
(* Runners, every lease length, attempt limit and concurrency.             *)
(***************************************************************************)
EXTENDS RunnerTasks, FiniteSetTheorems, TLAPS

-----------------------------------------------------------------------------
(* Facts about the operators.                                              *)

LEMMA MinOfTwo ==
    ASSUME NEW a \in Int, NEW b \in Int
    PROVE  /\ Min({a, b}) \in {a, b}
           /\ Min({a, b}) <= a
           /\ Min({a, b}) <= b
<1>1. \E x \in {a, b} : \A y \in {a, b} : x <= y
  <2>1. CASE a <= b
    BY <2>1
  <2>2. CASE ~(a <= b)
    BY <2>2
  <2>3. QED
    BY <2>1, <2>2
<1>2. QED
  BY <1>1 DEF Min

LEMMA MaxOfTwo ==
    ASSUME NEW a \in Int, NEW b \in Int
    PROVE  /\ Max({a, b}) \in {a, b}
           /\ Max({a, b}) >= a
           /\ Max({a, b}) >= b
<1>1. \E x \in {a, b} : \A y \in {a, b} : x >= y
  <2>1. CASE a >= b
    BY <2>1
  <2>2. CASE ~(a >= b)
    BY <2>2
  <2>3. QED
    BY <2>1, <2>2
<1>2. QED
  BY <1>1 DEF Max

\* Every step of a Runner, an operator or the clock is one of these.
LEMMA NextCases ==
    ASSUME Next
    PROVE  \/ \E t \in Tasks : Enqueue(t)
           \/ \E t \in Tasks : RequeueTask(t)
           \/ \E t \in Tasks : CancelTask(t)
           \/ \E r \in Runners, limit \in 1..Cardinality(Tasks) : PollRunnerTasks(r, limit)
           \/ \E r \in Runners, t \in Tasks, k \in 0..MaxAttempts : AcknowledgeRunnerTask(r, t, k)
           \/ \E r \in Runners, t \in Tasks, k \in 0..MaxAttempts : RenewRunnerTask(r, t, k)
           \/ \E r \in Runners, t \in Tasks, k \in 0..MaxAttempts, key \in ResultKeys :
                 SubmitPartial(r, t, k, key)
           \/ \E r \in Runners, t \in Tasks, k \in 0..MaxAttempts, key \in ResultKeys,
                 report \in Outcome : SubmitTerminal(r, t, k, key, report)
           \/ ReclaimExpired
           \/ Tick
<1>1. ASSUME NEW r \in Runners, RunnerRequest(r)
      PROVE  \/ \E limit \in 1..Cardinality(Tasks) : PollRunnerTasks(r, limit)
             \/ \E t \in Tasks, k \in 0..MaxAttempts : AcknowledgeRunnerTask(r, t, k)
             \/ \E t \in Tasks, k \in 0..MaxAttempts : RenewRunnerTask(r, t, k)
             \/ \E t \in Tasks, k \in 0..MaxAttempts, key \in ResultKeys :
                   SubmitPartial(r, t, k, key)
             \/ \E t \in Tasks, k \in 0..MaxAttempts, key \in ResultKeys,
                   report \in Outcome : SubmitTerminal(r, t, k, key, report)
  <2>1. ASSUME NEW t \in Tasks, NEW k \in 0..MaxAttempts,
               NEW rid \in ResultIds \cup {NoResultId}, NEW report \in Report,
               SubmitRunnerTaskResult(r, t, k, rid, report)
        PROVE  \/ \E key \in ResultKeys : SubmitPartial(r, t, k, key)
               \/ \E key \in ResultKeys, rep \in Outcome : SubmitTerminal(r, t, k, key, rep)
    <3>1. EffectiveResultId(rid, report) \in ResultKeys
      BY DEF EffectiveResultId, ResultKeys
    <3>2. CASE report = "running"
      BY <2>1, <3>1, <3>2 DEF SubmitRunnerTaskResult
    <3>3. CASE report # "running"
      <4>1. report \in Outcome
        BY <3>3 DEF Report
      <4>2. QED
        BY <2>1, <3>1, <3>3, <4>1 DEF SubmitRunnerTaskResult
    <3>4. QED
      BY <3>2, <3>3
  <2>2. QED
    BY <1>1, <2>1 DEF RunnerRequest
<1>2. QED
  BY <1>1 DEF Next


-----------------------------------------------------------------------------
(* Type correctness.                                                       *)

LEMMA ReclaimType ==
    ASSUME TypeOK, NEW S \in SUBSET Tasks
    PROVE  AfterReclaim(S) \in [Tasks -> Status]
BY DEF AfterReclaim, TypeOK, Status, Terminal

LEMMA RecordType ==
    ASSUME TypeOK, NEW t \in Tasks, NEW key \in ResultKeys, NEW report \in Report,
           RecordResult(t, key, report)
    PROVE  /\ results' \in [Tasks -> [ResultKeys -> ResultRow]]
           /\ down' \in [Tasks -> Seq(Report)]
<1>1. [report |-> report, generation |-> token[t]] \in ResultRow
  BY DEF TypeOK, ResultRow
<1>2. results' \in [Tasks -> [ResultKeys -> ResultRow]]
  BY <1>1 DEF RecordResult, TypeOK
<1>3. down' \in [Tasks -> Seq(Report)]
  BY DEF RecordResult, TypeOK
<1>4. QED
  BY <1>2, <1>3

LEMMA TypeStep ==
    ASSUME TypeOK, [Next]_vars
    PROVE  TypeOK'
<1> USE RunnerTasksAssumption
<1>1. CASE UNCHANGED vars
  BY <1>1 DEF vars, TypeOK
<1>2. CASE Next
  <2>1. ASSUME NEW t \in Tasks, Enqueue(t)
        PROVE  TypeOK'
    BY <2>1 DEF Enqueue, TypeOK, Status
  <2>2. ASSUME NEW t \in Tasks, RequeueTask(t)
        PROVE  TypeOK'
    BY <2>2 DEF RequeueTask, TypeOK, Status, NoToken, NoLease
  <2>3. ASSUME NEW t \in Tasks, CancelTask(t)
        PROVE  TypeOK'
    BY <2>3 DEF CancelTask, TypeOK, Status, Terminal, NoToken, NoLease
  <2>4. ASSUME NEW r \in Runners, NEW limit \in 1..Cardinality(Tasks),
               PollRunnerTasks(r, limit)
        PROVE  TypeOK'
    <3> DEFINE st == AfterReclaim(TasksOf(r))
               reclaimed == Expired(TasksOf(r))
    <3>1. PICK C \in SUBSET Claimable(r, st) :
              /\ status' = [t \in Tasks |-> IF t \in C THEN "leased" ELSE st[t]]
              /\ attempt' = [t \in Tasks |-> IF t \in C THEN attempt[t] + 1 ELSE attempt[t]]
              /\ token' = [t \in Tasks |->
                              IF t \in C THEN attempt[t] + 1
                              ELSE IF t \in reclaimed THEN NoToken ELSE token[t]]
              /\ lease' = [t \in Tasks |->
                              IF t \in C THEN LeaseSec
                              ELSE IF t \in reclaimed THEN NoLease ELSE lease[t]]
              /\ UNCHANGED <<created, results, up, down>>
      BY <2>4 DEF PollRunnerTasks
    <3>2. st \in [Tasks -> Status]
      BY ReclaimType DEF TasksOf
    <3>3. \A t \in C : attempt[t] < MaxAttempts
      BY DEF Claimable
    <3> HIDE DEF st, reclaimed
    <3>4. status' \in [Tasks -> Status]
      BY <3>1, <3>2 DEF Status, Active
    <3>5. attempt' \in [Tasks -> 0..MaxAttempts] /\ token' \in [Tasks -> 0..MaxAttempts]
      BY <3>1, <3>3 DEF TypeOK, NoToken
    <3>6. lease' \in [Tasks -> NoLease..LeaseSec]
      BY <3>1 DEF TypeOK, NoLease
    <3>7. QED
      BY <3>1, <3>4, <3>5, <3>6 DEF TypeOK
  <2>5. ASSUME NEW r \in Runners, NEW t \in Tasks, NEW k \in 0..MaxAttempts,
               AcknowledgeRunnerTask(r, t, k)
        PROVE  TypeOK'
    BY <2>5 DEF AcknowledgeRunnerTask, TypeOK, Status, Active
  <2>6. ASSUME NEW r \in Runners, NEW t \in Tasks, NEW k \in 0..MaxAttempts,
               RenewRunnerTask(r, t, k)
        PROVE  TypeOK'
    BY <2>6 DEF RenewRunnerTask, TypeOK, NoLease
  <2>7. ASSUME NEW r \in Runners, NEW t \in Tasks, NEW k \in 0..MaxAttempts,
               NEW key \in ResultKeys, SubmitPartial(r, t, k, key)
        PROVE  TypeOK'
    <3>1. RecordResult(t, key, "running")
      BY <2>7 DEF SubmitPartial
    <3>2. results' \in [Tasks -> [ResultKeys -> ResultRow]] /\ down' \in [Tasks -> Seq(Report)]
      BY <3>1, RecordType DEF Report
    <3>3. status' \in [Tasks -> Status]
      BY <2>7 DEF SubmitPartial, TypeOK, Status, Active
    <3>4. QED
      BY <2>7, <3>2, <3>3 DEF SubmitPartial, TypeOK
  <2>8. ASSUME NEW r \in Runners, NEW t \in Tasks, NEW k \in 0..MaxAttempts,
               NEW key \in ResultKeys, NEW report \in Outcome,
               SubmitTerminal(r, t, k, key, report)
        PROVE  TypeOK'
    <3>1. RecordResult(t, key, report)
      BY <2>8 DEF SubmitTerminal
    <3>2. results' \in [Tasks -> [ResultKeys -> ResultRow]] /\ down' \in [Tasks -> Seq(Report)]
      BY <3>1, RecordType DEF Report
    <3>3. status' \in [Tasks -> Status]
      BY <2>8 DEF SubmitTerminal, TypeOK, Status, Outcome, Terminal
    <3>4. /\ token' \in [Tasks -> 0..MaxAttempts]
          /\ lease' \in [Tasks -> NoLease..LeaseSec]
      BY <2>8 DEF SubmitTerminal, TypeOK, NoToken, NoLease
    <3>5. up' \in [Tasks -> {"accepted", "delivered", "failed"}]
      BY <2>8 DEF SubmitTerminal, TypeOK
    <3>6. QED
      BY <2>8, <3>2, <3>3, <3>4, <3>5 DEF SubmitTerminal, TypeOK
  <2>9. CASE ReclaimExpired
    <3>1. status' \in [Tasks -> Status]
      BY <2>9, ReclaimType DEF ReclaimExpired
    <3>2. token' \in [Tasks -> 0..MaxAttempts] /\ lease' \in [Tasks -> NoLease..LeaseSec]
      BY <2>9 DEF ReclaimExpired, TypeOK, NoToken, NoLease
    <3>3. QED
      BY <2>9, <3>1, <3>2 DEF ReclaimExpired, TypeOK
  <2>10. CASE Tick
    BY <2>10, SMTT(30) DEF Tick, TypeOK, NoLease
  <2>11. QED
    BY <1>2, <2>1, <2>2, <2>3, <2>4, <2>5, <2>6, <2>7, <2>8, <2>9, <2>10, NextCases
<1>3. QED
  BY <1>1, <1>2

LEMMA TypeInit == Init => TypeOK
<1>1. NoResult \in ResultRow
  BY RunnerTasksAssumption DEF NoResult, ResultRow
<1>2. Cardinality(Tasks) \in Nat
  BY RunnerTasksAssumption, FS_CardinalityType
<1>3. QED
  BY <1>1, <1>2, RunnerTasksAssumption DEF Init, TypeOK, Status, NoToken, NoLease

\* Every reachable state has the types the columns allow: in particular no claim
\* exceeds max_attempts and no lease runs longer than the configured one.
THEOREM TypeCorrect == Spec => []TypeOK
<1>1. Init => TypeOK
  BY TypeInit
<1>2. TypeOK /\ [Next]_vars => TypeOK'
  BY TypeStep
<1>3. QED
  BY <1>1, <1>2, PTL DEF Spec


-----------------------------------------------------------------------------
(* The inductive invariant: what holds of the row of each v2 task.         *)

Held(t) ==
    /\ status[t] \in Active <=> token[t] # NoToken
    /\ status[t] \in Active <=> lease[t] # NoLease
    /\ token[t] \in {NoToken, attempt[t]}

\* Stored outcomes belong to claims already made, and never to the current one.
OutcomesArePast(t) ==
    \A k \in ResultKeys : results[t][k].report \in Outcome =>
        /\ results[t][k].generation \in 1..attempt[t]
        /\ token[t] # NoToken => results[t][k].generation < attempt[t]

OneOutcome(t) ==
    \A j, k \in ResultKeys :
        /\ results[t][j].report \in Outcome
        /\ results[t][k].report \in Outcome
        /\ results[t][j].generation = results[t][k].generation
        => j = k

Answered(t) ==
    status[t] = "completed" =>
        /\ \E k \in ResultKeys :
             results[t][k] = [report |-> "completed", generation |-> attempt[t]]
        /\ t \in ChatTasks =>
             /\ up[t] = "delivered"
             /\ Len(down[t]) > 0
             /\ down[t][Len(down[t])] = "completed"

\* A thread with a completed answer belongs to a completed task: it is closed.
ThreadClosed(t) ==
    \A i \in 1..Len(down[t]) : down[t][i] = "completed" =>
        /\ status[t] = "completed"
        /\ i = Len(down[t])

TaskInv(t) ==
    /\ Held(t)
    /\ OutcomesArePast(t)
    /\ OneOutcome(t)
    /\ Answered(t)
    /\ ThreadClosed(t)

IInv == TypeOK /\ \A t \in Tasks : Strict(t) => TaskInv(t)

\* A step that leaves the row, the results and the thread of a task alone.
LEMMA UntouchedTask ==
    ASSUME NEW t \in Tasks, TaskInv(t),
           status'[t] = status[t], attempt'[t] = attempt[t], token'[t] = token[t],
           lease'[t] = lease[t], results'[t] = results[t], up'[t] = up[t], down'[t] = down[t]
    PROVE  TaskInv(t)'
<1>1. Held(t)'
  BY DEF TaskInv, Held
<1>2. OutcomesArePast(t)' /\ OneOutcome(t)'
  BY DEF TaskInv, OutcomesArePast, OneOutcome
<1>3. Answered(t)' /\ ThreadClosed(t)'
  BY DEF TaskInv, Answered, ThreadClosed
<1>4. QED
  BY <1>1, <1>2, <1>3 DEF TaskInv

\* A step that takes the lease of a task away and leaves it open or cancelled.
LEMMA LeaseTaken ==
    ASSUME NEW t \in Tasks, TypeOK, TaskInv(t), status[t] # "completed",
           status'[t] \in Status \ (Active \cup {"completed"}),
           token'[t] = NoToken, lease'[t] = NoLease,
           attempt'[t] = attempt[t], results'[t] = results[t],
           up'[t] = up[t], down'[t] = down[t]
    PROVE  TaskInv(t)'
<1>1. Held(t)'
  BY DEF Held, NoToken, NoLease
<1>2. OutcomesArePast(t)' /\ OneOutcome(t)'
  BY DEF TaskInv, OutcomesArePast, OneOutcome
<1>3. Answered(t)'
  BY DEF Answered
<1>4. ThreadClosed(t)'
  BY DEF TaskInv, ThreadClosed
<1>5. QED
  BY <1>1, <1>2, <1>3, <1>4 DEF TaskInv

\* verifyTaskLease admits a v2 Runner only while it holds the current lease.
LEMMA VerifiedHolder ==
    ASSUME NEW t \in Tasks, TypeOK, TaskInv(t), Strict(t),
           NEW r \in Runners, NEW k \in 0..MaxAttempts, LeaseVerified(r, t, k)
    PROVE  /\ token[t] # NoToken
           /\ token[t] = attempt[t]
           /\ lease[t] > 0
           /\ status[t] \in Active
<1>1. k # NoToken /\ k = token[t] /\ lease[t] > 0
  BY DEF LeaseVerified, Strict
<1>2. QED
  BY <1>1 DEF TaskInv, Held


LEMMA PartialKeepsTask ==
    ASSUME NEW t \in Tasks, TypeOK, TaskInv(t), Strict(t),
           NEW r \in Runners, NEW k \in 0..MaxAttempts, NEW key \in ResultKeys,
           SubmitPartial(r, t, k, key)
    PROVE  TaskInv(t)'
<1>1. /\ status[t] \in Active
      /\ token[t] # NoToken
  BY VerifiedHolder DEF SubmitPartial
<1>2. /\ status'[t] = "running"
      /\ attempt' = attempt /\ token' = token /\ lease' = lease
      /\ results'[t] = [results[t] EXCEPT ![key] =
                          [report |-> "running", generation |-> token[t]]]
  BY DEF SubmitPartial, RecordResult, TypeOK
<1>3. Held(t)'
  BY <1>1, <1>2 DEF TaskInv, Held, Active
<1>4. \A j \in ResultKeys : results'[t][j].report \in Outcome => results'[t][j] = results[t][j]
  BY <1>2 DEF Outcome, TypeOK
<1>5. OutcomesArePast(t)' /\ OneOutcome(t)'
  BY <1>2, <1>4 DEF TaskInv, OutcomesArePast, OneOutcome
<1>6. Answered(t)'
  BY <1>2 DEF Answered
<1>7. ThreadClosed(t)'
  <2>1. \A i \in 1..Len(down[t]) : down[t][i] # "completed"
    BY <1>1 DEF TaskInv, ThreadClosed, Active
  <2>2. down'[t] = down[t] \/ down'[t] = Append(down[t], "running")
    BY DEF SubmitPartial, RecordResult, TypeOK
  <2>3. \A i \in 1..Len(down'[t]) : down'[t][i] # "completed"
    BY <2>1, <2>2 DEF TypeOK
  <2>4. QED
    BY <2>3 DEF ThreadClosed
<1>8. QED
  BY <1>3, <1>5, <1>6, <1>7 DEF TaskInv

LEMMA TerminalKeepsTask ==
    ASSUME NEW t \in Tasks, TypeOK, TaskInv(t), Strict(t),
           NEW r \in Runners, NEW k \in 0..MaxAttempts, NEW key \in ResultKeys,
           NEW report \in Outcome, SubmitTerminal(r, t, k, key, report)
    PROVE  TaskInv(t)'
<1> DEFINE row == [report |-> report, generation |-> token[t]]
<1>1. /\ status[t] \in Active
      /\ token[t] # NoToken
      /\ token[t] = attempt[t]
  BY VerifiedHolder DEF SubmitTerminal
<1>2. /\ status'[t] = report /\ attempt' = attempt
      /\ token'[t] = NoToken /\ lease'[t] = NoLease
      /\ results'[t] = [results[t] EXCEPT ![key] = row]
  BY DEF SubmitTerminal, RecordResult, TypeOK
<1>3. attempt[t] \in 1..MaxAttempts /\ row.generation = attempt[t] /\ row.report = report
  BY <1>1 DEF TypeOK, NoToken
<1>4. \A j \in ResultKeys : results'[t][j] = IF j = key THEN row ELSE results[t][j]
  BY <1>2 DEF TypeOK
<1>5. Held(t)'
  BY <1>2 DEF Held, Active, Outcome
<1>6. OutcomesArePast(t)'
  <2>1. \A j \in ResultKeys \ {key} : results[t][j].report \in Outcome =>
            results[t][j].generation \in 1..attempt[t]
    BY DEF TaskInv, OutcomesArePast
  <2>2. QED
    BY <1>2, <1>3, <1>4, <2>1 DEF OutcomesArePast
<1>7. OneOutcome(t)'
  <2>1. \A j \in ResultKeys \ {key} : results[t][j].report \in Outcome =>
            results[t][j].generation < attempt[t]
    BY <1>1 DEF TaskInv, OutcomesArePast
  <2>2. \A j \in ResultKeys \ {key} : results[t][j].report \in Outcome =>
            results[t][j].generation # attempt[t]
    BY <2>1, <1>3 DEF TypeOK, ResultRow
  <2>3. OneOutcome(t)
    BY DEF TaskInv
  <2>4. QED
    BY <1>3, <1>4, <2>2, <2>3 DEF OneOutcome
<1>8. \A i \in 1..Len(down[t]) : down[t][i] # "completed"
  BY <1>1 DEF TaskInv, ThreadClosed, Active
<1>9. down'[t] = IF t \in ChatTasks THEN Append(down[t], report) ELSE down[t]
  BY DEF SubmitTerminal, RecordResult, TypeOK
<1>10. down[t] \in Seq(Report) /\ report \in Report
  BY DEF TypeOK, Report
<1>11. Answered(t)'
  <2> SUFFICES ASSUME report = "completed"
               PROVE  /\ \E j \in ResultKeys : results'[t][j] =
                           [report |-> "completed", generation |-> attempt'[t]]
                      /\ t \in ChatTasks =>
                           /\ up'[t] = "delivered"
                           /\ Len(down'[t]) > 0
                           /\ down'[t][Len(down'[t])] = "completed"
    BY <1>2 DEF Answered
  <2>1. results'[t][key] = [report |-> "completed", generation |-> attempt'[t]]
    BY <1>1, <1>2, <1>4
  <2>2. t \in ChatTasks => up'[t] = "delivered"
    BY DEF SubmitTerminal, TypeOK
  <2>3. t \in ChatTasks => Len(down'[t]) > 0 /\ down'[t][Len(down'[t])] = "completed"
    BY <1>9, <1>10
  <2>4. QED
    BY <2>1, <2>2, <2>3
<1>12. ThreadClosed(t)'
  <2>1. \A i \in 1..Len(down'[t]) : down'[t][i] = "completed" =>
            report = "completed" /\ i = Len(down'[t])
    BY <1>8, <1>9, <1>10
  <2>2. QED
    BY <1>2, <2>1 DEF ThreadClosed
<1>13. QED
  BY <1>5, <1>6, <1>7, <1>11, <1>12 DEF TaskInv

\* A claim opens a generation no stored outcome belongs to.
LEMMA ClaimKeepsTask ==
    ASSUME NEW t \in Tasks, TypeOK, TaskInv(t), status[t] # "completed",
           attempt[t] < MaxAttempts,
           status'[t] = "leased", attempt'[t] = attempt[t] + 1,
           token'[t] = attempt[t] + 1, lease'[t] = LeaseSec,
           results'[t] = results[t], up'[t] = up[t], down'[t] = down[t]
    PROVE  TaskInv(t)'
<1>1. attempt[t] \in Nat /\ LeaseSec \in Nat \ {0}
  BY RunnerTasksAssumption DEF TypeOK
<1>2. Held(t)'
  BY <1>1 DEF Held, Active, NoToken, NoLease
<1>3. OutcomesArePast(t)'
  BY <1>1 DEF TaskInv, OutcomesArePast
<1>4. OneOutcome(t)'
  BY DEF TaskInv, OneOutcome
<1>5. Answered(t)'
  BY DEF Answered
<1>6. ThreadClosed(t)'
  BY DEF TaskInv, ThreadClosed
<1>7. QED
  BY <1>2, <1>3, <1>4, <1>5, <1>6 DEF TaskInv


LEMMA TaskStep ==
    ASSUME TypeOK, [Next]_vars, NEW u \in Tasks, Strict(u), TaskInv(u)
    PROVE  TaskInv(u)'
<1> USE RunnerTasksAssumption
<1>1. CASE UNCHANGED vars
  BY <1>1, UntouchedTask DEF vars
<1>2. CASE Next
  <2>1. ASSUME NEW t \in Tasks, Enqueue(t)
        PROVE  TaskInv(u)'
    <3>1. CASE t # u
      BY <2>1, <3>1, UntouchedTask DEF Enqueue, TypeOK
    <3>2. CASE t = u
      <4>1. status[u] \notin Active /\ status[u] # "completed"
        BY <2>1, <3>2 DEF Enqueue, Active
      <4>2. token[u] = NoToken /\ lease[u] = NoLease
        BY <4>1 DEF TaskInv, Held
      <4>3. status'[u] = "queued"
        BY <2>1, <3>2 DEF Enqueue, TypeOK
      <4>4. QED
        BY <2>1, <4>1, <4>2, <4>3, LeaseTaken DEF Enqueue, Status, Active, Terminal
    <3>3. QED
      BY <3>1, <3>2
  <2>2. ASSUME NEW t \in Tasks, RequeueTask(t)
        PROVE  TaskInv(u)'
    <3>1. CASE t # u
      BY <2>2, <3>1, UntouchedTask DEF RequeueTask, TypeOK
    <3>2. CASE t = u
      <4>1. /\ status'[u] = "queued" /\ token'[u] = NoToken /\ lease'[u] = NoLease
            /\ status[u] # "completed"
        BY <2>2, <3>2 DEF RequeueTask, TypeOK
      <4>2. QED
        BY <2>2, <4>1, LeaseTaken DEF RequeueTask, Status, Active, Terminal
    <3>3. QED
      BY <3>1, <3>2
  <2>3. ASSUME NEW t \in Tasks, CancelTask(t)
        PROVE  TaskInv(u)'
    <3>1. CASE t # u
      BY <2>3, <3>1, UntouchedTask DEF CancelTask, TypeOK
    <3>2. CASE t = u
      <4>1. /\ status'[u] = "cancelled" /\ token'[u] = NoToken /\ lease'[u] = NoLease
            /\ status[u] # "completed"
        BY <2>3, <3>2 DEF CancelTask, TypeOK, Terminal
      <4>2. QED
        BY <2>3, <4>1, LeaseTaken DEF CancelTask, Status, Active, Terminal
    <3>3. QED
      BY <3>1, <3>2
  <2>4. ASSUME NEW r \in Runners, NEW limit \in 1..Cardinality(Tasks),
               PollRunnerTasks(r, limit)
        PROVE  TaskInv(u)'
    <3> DEFINE st == AfterReclaim(TasksOf(r))
               reclaimed == Expired(TasksOf(r))
    <3>1. PICK C \in SUBSET Claimable(r, st) :
              /\ status' = [t \in Tasks |-> IF t \in C THEN "leased" ELSE st[t]]
              /\ attempt' = [t \in Tasks |-> IF t \in C THEN attempt[t] + 1 ELSE attempt[t]]
              /\ token' = [t \in Tasks |->
                              IF t \in C THEN attempt[t] + 1
                              ELSE IF t \in reclaimed THEN NoToken ELSE token[t]]
              /\ lease' = [t \in Tasks |->
                              IF t \in C THEN LeaseSec
                              ELSE IF t \in reclaimed THEN NoLease ELSE lease[t]]
              /\ UNCHANGED <<created, results, up, down>>
      BY <2>4 DEF PollRunnerTasks
    <3>2. st[u] = IF u \in reclaimed
                  THEN IF attempt[u] >= MaxAttempts THEN "dead" ELSE "queued"
                  ELSE status[u]
      BY DEF AfterReclaim
    <3>3. u \in reclaimed => status[u] \in Active
      BY DEF Expired
    <3>4. u \in C => st[u] = "queued" /\ attempt[u] < MaxAttempts
      BY DEF Claimable
    <3> HIDE DEF st, reclaimed
    <3>5. CASE u \in C
      <4>1. status[u] # "completed"
        BY <3>2, <3>3, <3>4, <3>5 DEF Active
      <4>2. QED
        BY <3>1, <3>4, <3>5, <4>1, ClaimKeepsTask
    <3>6. CASE u \notin C /\ u \in reclaimed
      <4>1. status'[u] \in {"dead", "queued"} /\ status[u] # "completed"
        BY <3>1, <3>2, <3>3, <3>6 DEF Active
      <4>2. QED
        BY <3>1, <3>6, <4>1, LeaseTaken DEF Status, Active, Terminal
    <3>7. CASE u \notin C /\ u \notin reclaimed
      BY <3>1, <3>2, <3>7, UntouchedTask
    <3>8. QED
      BY <3>5, <3>6, <3>7
  <2>5. ASSUME NEW r \in Runners, NEW t \in Tasks, NEW k \in 0..MaxAttempts,
               AcknowledgeRunnerTask(r, t, k)
        PROVE  TaskInv(u)'
    <3>1. CASE t # u
      BY <2>5, <3>1, UntouchedTask DEF AcknowledgeRunnerTask, TypeOK
    <3>2. CASE t = u
      <4>1. status[u] \in Active
        BY <2>5, <3>2, VerifiedHolder DEF AcknowledgeRunnerTask
      <4>2. status'[u] = "acknowledged"
        BY <2>5, <3>2 DEF AcknowledgeRunnerTask, TypeOK
      <4>3. Held(u)' /\ OutcomesArePast(u)' /\ OneOutcome(u)'
        BY <2>5, <4>1, <4>2
           DEF AcknowledgeRunnerTask, TaskInv, Held, OutcomesArePast, OneOutcome, Active
      <4>4. Answered(u)' /\ ThreadClosed(u)'
        BY <2>5, <4>1, <4>2 DEF AcknowledgeRunnerTask, TaskInv, Answered, ThreadClosed, Active
      <4>5. QED
        BY <4>3, <4>4 DEF TaskInv
    <3>3. QED
      BY <3>1, <3>2
  <2>6. ASSUME NEW r \in Runners, NEW t \in Tasks, NEW k \in 0..MaxAttempts,
               RenewRunnerTask(r, t, k)
        PROVE  TaskInv(u)'
    <3>1. CASE t # u
      BY <2>6, <3>1, UntouchedTask DEF RenewRunnerTask, TypeOK
    <3>2. CASE t = u
      <4>1. status[u] \in Active
        BY <2>6, <3>2, VerifiedHolder DEF RenewRunnerTask
      <4>2. lease'[u] # NoLease
        BY <2>6, <3>2 DEF RenewRunnerTask, TypeOK, NoLease
      <4>3. Held(u)' /\ OutcomesArePast(u)' /\ OneOutcome(u)'
        BY <2>6, <4>1, <4>2 DEF RenewRunnerTask, TaskInv, Held, OutcomesArePast, OneOutcome
      <4>4. Answered(u)' /\ ThreadClosed(u)'
        BY <2>6 DEF RenewRunnerTask, TaskInv, Answered, ThreadClosed
      <4>5. QED
        BY <4>3, <4>4 DEF TaskInv
    <3>3. QED
      BY <3>1, <3>2
  <2>7. ASSUME NEW r \in Runners, NEW t \in Tasks, NEW k \in 0..MaxAttempts,
               NEW key \in ResultKeys, SubmitPartial(r, t, k, key)
        PROVE  TaskInv(u)'
    <3>1. CASE t # u
      BY <2>7, <3>1, UntouchedTask DEF SubmitPartial, RecordResult, TypeOK
    <3>2. CASE t = u
      BY <2>7, <3>2, PartialKeepsTask
    <3>3. QED
      BY <3>1, <3>2
  <2>8. ASSUME NEW r \in Runners, NEW t \in Tasks, NEW k \in 0..MaxAttempts,
               NEW key \in ResultKeys, NEW report \in Outcome,
               SubmitTerminal(r, t, k, key, report)
        PROVE  TaskInv(u)'
    <3>1. CASE t # u
      BY <2>8, <3>1, UntouchedTask DEF SubmitTerminal, RecordResult, TypeOK
    <3>2. CASE t = u
      BY <2>8, <3>2, TerminalKeepsTask
    <3>3. QED
      BY <3>1, <3>2
  <2>9. CASE ReclaimExpired
    <3>1. CASE u \in Expired(Tasks)
      <4>1. status[u] # "completed" /\ status'[u] \in {"dead", "queued"}
        BY <2>9, <3>1 DEF ReclaimExpired, AfterReclaim, Expired, Active
      <4>2. token'[u] = NoToken /\ lease'[u] = NoLease
        BY <2>9, <3>1 DEF ReclaimExpired
      <4>3. QED
        BY <2>9, <4>1, <4>2, LeaseTaken DEF ReclaimExpired, Status, Active, Terminal
    <3>2. CASE u \notin Expired(Tasks)
      BY <2>9, <3>2, UntouchedTask DEF ReclaimExpired, AfterReclaim, TypeOK
    <3>3. QED
      BY <3>1, <3>2
  <2>10. CASE Tick
    <3>1. lease'[u] # NoLease <=> lease[u] # NoLease
      BY <2>10 DEF Tick, TypeOK, NoLease
    <3>2. Held(u)' /\ OutcomesArePast(u)' /\ OneOutcome(u)'
      BY <2>10, <3>1 DEF Tick, TaskInv, Held, OutcomesArePast, OneOutcome
    <3>3. Answered(u)' /\ ThreadClosed(u)'
      BY <2>10 DEF Tick, TaskInv, Answered, ThreadClosed
    <3>4. QED
      BY <3>2, <3>3 DEF TaskInv
  <2>11. QED
    BY <1>2, <2>1, <2>2, <2>3, <2>4, <2>5, <2>6, <2>7, <2>8, <2>9, <2>10, NextCases
<1>3. QED
  BY <1>1, <1>2

\* The inductive invariant holds of every reachable state.
THEOREM Invariance == Spec => []IInv
<1>1. Init => IInv
  <2> SUFFICES ASSUME Init, NEW t \in Tasks
               PROVE  TaskInv(t)
    BY TypeInit DEF IInv
  <2>1. QED
    BY DEF Init, TaskInv, Held, OutcomesArePast, OneOutcome, Answered, ThreadClosed,
           Active, NoToken, NoLease, NoResult, Outcome
<1>2. IInv /\ [Next]_vars => IInv'
  BY TypeStep, TaskStep DEF IInv, Strict
<1>3. QED
  BY <1>1, <1>2, PTL DEF Spec


\* No active task lacks a deadline, no idle one keeps a usable token.
THEOREM LeaseMatchesStatusHolds == Spec => []LeaseMatchesStatus
<1>1. IInv => LeaseMatchesStatus
  BY DEF IInv, TaskInv, Held, LeaseMatchesStatus
<1>2. QED
  BY <1>1, Invariance, PTL

\* Fencing: whatever requests of old executors still arrive, each claim of a task
\* leaves at most one terminal outcome.
THEOREM OneOutcomePerClaimHolds == Spec => []OneOutcomePerClaim
<1>1. IInv => OneOutcomePerClaim
  BY DEF IInv, TaskInv, OneOutcome, OneOutcomePerClaim
<1>2. QED
  BY <1>1, Invariance, PTL

\* Completion, its stored result, the message status and the answer agree.
THEOREM CompletionIsAnsweredHolds == Spec => []CompletionIsAnswered
<1>1. IInv => CompletionIsAnswered
  BY DEF IInv, TaskInv, Answered, CompletionIsAnswered
<1>2. QED
  BY <1>1, Invariance, PTL

\* Nothing follows a completed answer in the pet's thread.
THEOREM CompletedIsTheLastWordHolds == Spec => []CompletedIsTheLastWord
<1>1. IInv => CompletedIsTheLastWord
  BY DEF IInv, TaskInv, ThreadClosed, CompletedIsTheLastWord
<1>2. QED
  BY <1>1, Invariance, PTL

-----------------------------------------------------------------------------
(* Action properties.                                                      *)

\* Once expired, a lease can only be replaced by a new claim.
THEOREM ExpiredLeaseIsNeverRevivedHolds == Spec => ExpiredLeaseIsNeverRevived
<1>1. ASSUME IInv, [Next]_vars, NEW u \in Tasks, Strict(u), lease[u] = 0, lease'[u] > 0
      PROVE  attempt'[u] > attempt[u]
  <2> USE RunnerTasksAssumption
  <2>1. TypeOK /\ TaskInv(u)
    BY <1>1 DEF IInv
  <2>2. CASE UNCHANGED vars
    BY <1>1, <2>2 DEF vars
  <2>3. CASE Next
    <3>1. ASSUME NEW t \in Tasks, Enqueue(t) \/ RequeueTask(t) \/ CancelTask(t)
          PROVE  FALSE
      <4>1. lease' = lease \/ lease' = [lease EXCEPT ![t] = NoLease]
        BY <3>1 DEF Enqueue, RequeueTask, CancelTask
      <4>2. lease'[u] = lease[u] \/ lease'[u] = NoLease
        BY <2>1, <4>1 DEF TypeOK
      <4>3. QED
        BY <1>1, <4>2 DEF NoLease
    <3>2. ASSUME NEW r \in Runners, NEW limit \in 1..Cardinality(Tasks),
                 PollRunnerTasks(r, limit)
          PROVE  attempt'[u] > attempt[u]
      <4>1. PICK C \in SUBSET Claimable(r, AfterReclaim(TasksOf(r))) :
                /\ attempt' = [t \in Tasks |-> IF t \in C THEN attempt[t] + 1 ELSE attempt[t]]
                /\ lease' = [t \in Tasks |->
                                IF t \in C THEN LeaseSec
                                ELSE IF t \in Expired(TasksOf(r)) THEN NoLease ELSE lease[t]]
        BY <3>2 DEF PollRunnerTasks
      <4>2. u \in C
        BY <1>1, <4>1 DEF NoLease
      <4>3. QED
        BY <2>1, <4>1, <4>2 DEF TypeOK
    <3>3. ASSUME NEW r \in Runners, NEW t \in Tasks, NEW k \in 0..MaxAttempts,
                 \/ AcknowledgeRunnerTask(r, t, k)
                 \/ RenewRunnerTask(r, t, k)
                 \/ \E key \in ResultKeys : SubmitPartial(r, t, k, key)
                 \/ \E key \in ResultKeys, report \in Outcome : SubmitTerminal(r, t, k, key, report)
          PROVE  FALSE
      <4>1. CASE t # u
        BY <1>1, <2>1, <3>3, <4>1
           DEF AcknowledgeRunnerTask, RenewRunnerTask, SubmitPartial, SubmitTerminal, TypeOK
      <4>2. CASE t = u
        <5>1. LeaseVerified(r, u, k)
          BY <3>3, <4>2
             DEF AcknowledgeRunnerTask, RenewRunnerTask, SubmitPartial, SubmitTerminal
        <5>2. QED
          BY <1>1, <2>1, <5>1, VerifiedHolder
      <4>3. QED
        BY <4>1, <4>2
    <3>4. CASE ReclaimExpired
      BY <1>1, <3>4 DEF ReclaimExpired, NoLease
    <3>5. CASE Tick
      BY <1>1, <3>5 DEF Tick
    <3>6. QED
      BY <2>3, <3>1, <3>2, <3>3, <3>4, <3>5, NextCases
  <2>4. QED
    BY <1>1, <2>2, <2>3
<1>2. IInv /\ [Next]_vars =>
        [\A t \in Tasks : Strict(t) /\ lease[t] = 0 /\ lease'[t] > 0
            => attempt'[t] > attempt[t]]_vars
  BY <1>1
<1>3. QED
  BY <1>2, Invariance, PTL DEF Spec, ExpiredLeaseIsNeverRevived

\* Only an operator's requeue moves a terminal task, and nothing a completed one.
THEOREM TerminalLeavesByRequeueOnlyHolds == Spec => TerminalLeavesByRequeueOnly
<1>1. ASSUME IInv, [Next]_vars, NEW u \in Tasks, Strict(u),
             status[u] \in Terminal, status'[u] # status[u]
      PROVE  status[u] # "completed" /\ status'[u] = "queued"
  <2>1. TypeOK /\ TaskInv(u)
    BY <1>1 DEF IInv
  <2>2. status[u] \notin Active /\ status[u] \notin {"absent", "queued"}
    BY <1>1 DEF Terminal, Active
  <2>3. CASE UNCHANGED vars
    BY <1>1, <2>3 DEF vars
  <2>4. CASE Next
    <3>1. ASSUME NEW t \in Tasks, Enqueue(t) \/ CancelTask(t)
          PROVE  FALSE
      BY <1>1, <2>1, <2>2, <3>1 DEF Enqueue, CancelTask, TypeOK
    <3>2. ASSUME NEW t \in Tasks, RequeueTask(t)
          PROVE  status[u] # "completed" /\ status'[u] = "queued"
      BY <1>1, <2>1, <3>2 DEF RequeueTask, TypeOK
    <3>3. ASSUME NEW r \in Runners, NEW limit \in 1..Cardinality(Tasks),
                 PollRunnerTasks(r, limit)
          PROVE  FALSE
      <4> DEFINE st == AfterReclaim(TasksOf(r))
      <4>1. PICK C \in SUBSET Claimable(r, st) :
                status' = [t \in Tasks |-> IF t \in C THEN "leased" ELSE st[t]]
        BY <3>3 DEF PollRunnerTasks
      <4>2. st[u] = status[u]
        BY <2>2 DEF AfterReclaim, Expired
      <4>3. u \notin C
        BY <2>2, <4>2 DEF Claimable
      <4>4. QED
        BY <1>1, <4>1, <4>2, <4>3
    <3>4. ASSUME NEW r \in Runners, NEW t \in Tasks, NEW k \in 0..MaxAttempts,
                 \/ AcknowledgeRunnerTask(r, t, k)
                 \/ RenewRunnerTask(r, t, k)
                 \/ \E key \in ResultKeys : SubmitPartial(r, t, k, key)
                 \/ \E key \in ResultKeys, report \in Outcome : SubmitTerminal(r, t, k, key, report)
          PROVE  FALSE
      <4>1. CASE t # u
        BY <1>1, <2>1, <3>4, <4>1
           DEF AcknowledgeRunnerTask, RenewRunnerTask, SubmitPartial, SubmitTerminal, TypeOK
      <4>2. CASE t = u
        <5>1. LeaseVerified(r, u, k)
          BY <3>4, <4>2
             DEF AcknowledgeRunnerTask, RenewRunnerTask, SubmitPartial, SubmitTerminal
        <5>2. QED
          BY <1>1, <2>1, <2>2, <5>1, VerifiedHolder
      <4>3. QED
        BY <4>1, <4>2
    <3>5. CASE ReclaimExpired
      BY <1>1, <2>2, <3>5 DEF ReclaimExpired, AfterReclaim, Expired
    <3>6. CASE Tick
      BY <1>1, <3>6 DEF Tick
    <3>7. QED
      BY <2>4, <3>1, <3>2, <3>3, <3>4, <3>5, <3>6, NextCases
  <2>5. QED
    BY <1>1, <2>3, <2>4
<1>2. IInv /\ [Next]_vars =>
        [\A t \in Tasks : Strict(t) /\ status[t] \in Terminal /\ status'[t] # status[t]
            => status[t] # "completed" /\ status'[t] = "queued"]_vars
  BY <1>1
<1>3. QED
  BY <1>2, Invariance, PTL DEF Spec, TerminalLeavesByRequeueOnly

\* A task that used its last claim and is out of its Runner's hands is over: no
\* Runner holds it again, and neither its results nor what its pet was shown ever
\* change.  An operator can still requeue it (requeueTask asks nothing of the claims
\* made): it is then queued and never claimed.
UsedUp(t) == attempt[t] = MaxAttempts /\ status[t] \notin Active

LastClaimIsLast ==
    [][\A t \in Tasks : Strict(t) /\ UsedUp(t) =>
         /\ UsedUp(t)'
         /\ results'[t] = results[t] /\ up'[t] = up[t] /\ down'[t] = down[t]]_vars

\* No step of a Runner, an operator, the clock or a restart brings back a task whose
\* claims are used up (a claim asks attempt < max_attempts, a requeue keeps attempt,
\* verifyTaskLease finds no lease).
THEOREM LastClaimIsLastHolds == Spec => LastClaimIsLast
<1> DEFINE Over(u) == /\ status'[u] \notin Active
                      /\ attempt'[u] = attempt[u]
                      /\ results'[u] = results[u] /\ up'[u] = up[u] /\ down'[u] = down[u]
<1>1. ASSUME IInv, [Next]_vars, NEW u \in Tasks, Strict(u), UsedUp(u)
      PROVE  Over(u)
  <2>1. TypeOK /\ TaskInv(u)
    BY <1>1 DEF IInv
  <2>2. status[u] \notin Active /\ attempt[u] = MaxAttempts
    BY <1>1 DEF UsedUp
  <2>3. CASE UNCHANGED vars
    BY <2>2, <2>3 DEF vars
  <2>4. CASE Next
    <3>1. ASSUME NEW t \in Tasks, Enqueue(t) \/ RequeueTask(t) \/ CancelTask(t)
          PROVE  Over(u)
      <4>1. \/ status' = [status EXCEPT ![t] = "queued"]
            \/ status' = [status EXCEPT ![t] = "cancelled"]
        BY <3>1 DEF Enqueue, RequeueTask, CancelTask
      <4>2. status'[u] \notin Active
        BY <2>1, <2>2, <4>1 DEF TypeOK, Active
      <4>3. QED
        BY <3>1, <4>2 DEF Enqueue, RequeueTask, CancelTask
    <3>2. ASSUME NEW r \in Runners, NEW limit \in 1..Cardinality(Tasks),
                 PollRunnerTasks(r, limit)
          PROVE  Over(u)
      <4> DEFINE st == AfterReclaim(TasksOf(r))
      <4>1. PICK C \in SUBSET Claimable(r, st) :
                /\ status' = [t \in Tasks |-> IF t \in C THEN "leased" ELSE st[t]]
                /\ attempt' = [t \in Tasks |-> IF t \in C THEN attempt[t] + 1 ELSE attempt[t]]
                /\ UNCHANGED <<results, up, down>>
        BY <3>2 DEF PollRunnerTasks
      <4>2. st[u] = status[u]
        BY <2>2 DEF AfterReclaim, Expired
      <4>3. u \notin C
        BY <2>1, <2>2, <4>1, RunnerTasksAssumption DEF Claimable, TypeOK
      <4>4. QED
        BY <2>2, <4>1, <4>2, <4>3
    <3>3. ASSUME NEW r \in Runners, NEW t \in Tasks, NEW k \in 0..MaxAttempts,
                 \/ AcknowledgeRunnerTask(r, t, k)
                 \/ RenewRunnerTask(r, t, k)
                 \/ \E key \in ResultKeys : SubmitPartial(r, t, k, key)
                 \/ \E key \in ResultKeys, report \in Outcome : SubmitTerminal(r, t, k, key, report)
          PROVE  Over(u)
      <4>1. CASE t # u
        BY <2>1, <2>2, <3>3, <4>1
           DEF AcknowledgeRunnerTask, RenewRunnerTask, SubmitPartial, SubmitTerminal,
               RecordResult, TypeOK
      <4>2. CASE t = u
        <5>1. LeaseVerified(r, u, k)
          BY <3>3, <4>2
             DEF AcknowledgeRunnerTask, RenewRunnerTask, SubmitPartial, SubmitTerminal
        <5>2. QED
          BY <1>1, <2>1, <2>2, <5>1, VerifiedHolder
      <4>3. QED
        BY <4>1, <4>2
    <3>4. CASE ReclaimExpired
      BY <2>2, <3>4 DEF ReclaimExpired, AfterReclaim, Expired
    <3>5. CASE Tick
      BY <2>2, <3>5 DEF Tick
    <3>6. QED
      BY <2>4, <3>1, <3>2, <3>3, <3>4, <3>5, NextCases
  <2>5. QED
    BY <1>1, <2>3, <2>4
<1>2. ASSUME NEW u \in Tasks, UsedUp(u), Over(u)
      PROVE  UsedUp(u)'
  BY <1>2 DEF UsedUp
<1>3. IInv /\ [Next]_vars =>
        [\A t \in Tasks : Strict(t) /\ UsedUp(t) =>
           /\ UsedUp(t)'
           /\ results'[t] = results[t] /\ up'[t] = up[t] /\ down'[t] = down[t]]_vars
  BY <1>1, <1>2
<1>4. QED
  BY <1>3, Invariance, PTL DEF Spec, LastClaimIsLast

-----------------------------------------------------------------------------
(* The concurrency bound.                                                  *)

\* A step that makes no task live keeps the bound.
LEMMA NoNewLive ==
    ASSUME NEW r \in Runners \ V1Runners,
           Cardinality(Live(r, status)) <= MaxConcurrency[r],
           \A t \in TasksOf(r) : status'[t] \in Active /\ lease'[t] > 0
                                    => status[t] \in Active /\ lease[t] > 0
    PROVE  Cardinality(Live(r, status)') <= MaxConcurrency[r]
<1>1. Live(r, status)' \subseteq Live(r, status)
  BY DEF Live, TasksOf
<1>2. IsFiniteSet(Live(r, status))
  BY RunnerTasksAssumption, FS_Subset DEF Live, TasksOf
<1>3. /\ Cardinality(Live(r, status)) \in Nat
      /\ Cardinality(Live(r, status)') \in Nat
      /\ Cardinality(Live(r, status)') <= Cardinality(Live(r, status))
  BY <1>1, <1>2, FS_Subset, FS_CardinalityType
<1>4. QED
  BY <1>3, RunnerTasksAssumption

\* A poll claims no more than the slots left by the live leases it counted.
LEMMA PollKeepsBound ==
    ASSUME TypeOK, NEW r \in Runners, NEW limit \in 1..Cardinality(Tasks),
           PollRunnerTasks(r, limit), Cardinality(Live(r, status)) <= MaxConcurrency[r]
    PROVE  Cardinality(Live(r, status)') <= MaxConcurrency[r]
<1> DEFINE st == AfterReclaim(TasksOf(r))
           n == Cardinality(Live(r, st))
           S == Claimable(r, st)
<1>1. PICK C \in SUBSET S :
          /\ Oldest(C, S, Min({limit, Slots(r, st)}))
          /\ status' = [t \in Tasks |-> IF t \in C THEN "leased" ELSE st[t]]
          /\ lease' = [t \in Tasks |->
                          IF t \in C THEN LeaseSec
                          ELSE IF t \in Expired(TasksOf(r)) THEN NoLease ELSE lease[t]]
  BY DEF PollRunnerTasks
<1>2. Live(r, st) = Live(r, status)
  BY DEF Live, AfterReclaim, Expired, Active, TasksOf
<1>3. Live(r, status)' \subseteq Live(r, st) \cup C
  BY <1>1 DEF Live, TasksOf, NoLease
<1>4. /\ IsFiniteSet(Live(r, st)) /\ IsFiniteSet(C) /\ IsFiniteSet(S)
      /\ n \in Nat /\ Cardinality(C) \in Nat /\ Cardinality(S) \in Nat
      /\ limit \in Int /\ MaxConcurrency[r] \in Nat
  <2>1. Live(r, st) \subseteq Tasks /\ S \subseteq Tasks /\ C \subseteq Tasks
    BY <1>1 DEF Live, Claimable, TasksOf
  <2>2. /\ IsFiniteSet(Live(r, st)) /\ IsFiniteSet(C) /\ IsFiniteSet(S)
    BY <2>1, RunnerTasksAssumption, FS_Subset
  <2>3. QED
    BY <2>2, FS_CardinalityType, RunnerTasksAssumption
<1> HIDE DEF st, S
<1>5. Slots(r, st) \in Int /\ Slots(r, st) \in {0, MaxConcurrency[r] - n}
  <2> DEFINE free == MaxConcurrency[r] - n
  <2>1. free \in Int
    BY <1>4
  <2>2. Slots(r, st) = Max({0, free})
    BY DEF Slots
  <2> HIDE DEF free
  <2>3. Max({0, free}) \in {0, free}
    BY <2>1, MaxOfTwo
  <2>4. QED
    BY <2>1, <2>2, <2>3 DEF free
<1>6. Cardinality(C) <= Slots(r, st)
  <2>1. Min({limit, Slots(r, st)}) \in Int /\ Min({limit, Slots(r, st)}) <= Slots(r, st)
    BY <1>4, <1>5, MinOfTwo
  <2>2. Cardinality(C) = Min({Min({limit, Slots(r, st)}), Cardinality(S)})
    BY <1>1 DEF Oldest
  <2>3. Cardinality(C) <= Min({limit, Slots(r, st)})
    BY <1>4, <2>1, <2>2, MinOfTwo
  <2>4. QED
    BY <1>4, <1>5, <2>1, <2>3
<1>7. n + Cardinality(C) <= MaxConcurrency[r]
  BY <1>2, <1>4, <1>5, <1>6
<1>8. /\ IsFiniteSet(Live(r, st) \cup C)
      /\ Cardinality(Live(r, st) \cup C) <= n + Cardinality(C)
  <2>1. Cardinality(Live(r, st) \cap C) \in Nat
    BY <1>4, FS_Intersection, FS_CardinalityType
  <2>2. /\ IsFiniteSet(Live(r, st) \cup C)
        /\ Cardinality(Live(r, st) \cup C) =
              Cardinality(Live(r, st)) + Cardinality(C) - Cardinality(Live(r, st) \cap C)
    BY <1>4, FS_Union
  <2>3. QED
    BY <1>4, <2>1, <2>2
<1>9. /\ Cardinality(Live(r, status)') <= Cardinality(Live(r, st) \cup C)
      /\ Cardinality(Live(r, status)') \in Nat
      /\ Cardinality(Live(r, st) \cup C) \in Nat
  BY <1>3, <1>8, FS_Subset, FS_CardinalityType
<1>10. QED
  BY <1>4, <1>7, <1>8, <1>9

\* A v2 Runner never holds more live leases than its concurrency: an expired lease
\* leaves the count and cannot come back, so a poll may safely fill its slots.
THEOREM ConcurrencyBoundedHolds == Spec => []ConcurrencyBounded
<1>1. Init => ConcurrencyBounded
  <2> SUFFICES ASSUME Init, NEW r \in Runners \ V1Runners
               PROVE  Cardinality(Live(r, status)) <= MaxConcurrency[r]
    BY DEF ConcurrencyBounded
  <2>1. Live(r, status) = {}
    BY DEF Init, Live, TasksOf, Active
  <2>2. QED
    BY <2>1, FS_EmptySet, RunnerTasksAssumption
<1>2. IInv /\ ConcurrencyBounded /\ [Next]_vars => ConcurrencyBounded'
  <2> SUFFICES ASSUME IInv, ConcurrencyBounded, [Next]_vars, NEW q \in Runners \ V1Runners
               PROVE  Cardinality(Live(q, status)') <= MaxConcurrency[q]
    BY DEF ConcurrencyBounded
  <2> USE RunnerTasksAssumption
  <2>1. Cardinality(Live(q, status)) <= MaxConcurrency[q]
    BY DEF ConcurrencyBounded
  <2>2. \A u \in TasksOf(q) : u \in Tasks /\ Strict(u) /\ TaskInv(u)
    BY DEF TasksOf, Strict, IInv
  <2>3. TypeOK
    BY DEF IInv
  <2>4. CASE UNCHANGED vars
    BY <2>1, <2>4, NoNewLive DEF vars
  <2>5. CASE Next
    <3>1. ASSUME NEW t \in Tasks, Enqueue(t) \/ RequeueTask(t) \/ CancelTask(t)
          PROVE  Cardinality(Live(q, status)') <= MaxConcurrency[q]
      <4>1. \A u \in TasksOf(q) : status'[u] \in Active /\ lease'[u] > 0
                                    => status[u] \in Active /\ lease[u] > 0
        BY <2>2, <2>3, <3>1 DEF Enqueue, RequeueTask, CancelTask, TypeOK, Active
      <4>2. QED
        BY <2>1, <4>1, NoNewLive
    <3>2. ASSUME NEW r \in Runners, NEW limit \in 1..Cardinality(Tasks),
                 PollRunnerTasks(r, limit)
          PROVE  Cardinality(Live(q, status)') <= MaxConcurrency[q]
      <4>1. CASE r = q
        BY <2>1, <2>3, <3>2, <4>1, PollKeepsBound
      <4>2. CASE r # q
        <5>1. \A u \in TasksOf(q) : status'[u] = status[u] /\ lease'[u] = lease[u]
          <6>1. PICK C \in SUBSET Claimable(r, AfterReclaim(TasksOf(r))) :
                    /\ status' = [t \in Tasks |-> IF t \in C THEN "leased"
                                                  ELSE AfterReclaim(TasksOf(r))[t]]
                    /\ lease' = [t \in Tasks |->
                                    IF t \in C THEN LeaseSec
                                    ELSE IF t \in Expired(TasksOf(r)) THEN NoLease ELSE lease[t]]
            BY <3>2 DEF PollRunnerTasks
          <6>2. \A u \in TasksOf(q) : u \in Tasks /\ u \notin C /\ u \notin Expired(TasksOf(r))
            BY <4>2, <6>1 DEF Claimable, Expired, TasksOf
          <6>3. QED
            BY <6>1, <6>2 DEF AfterReclaim
        <5>2. QED
          BY <2>1, <5>1, NoNewLive
      <4>3. QED
        BY <4>1, <4>2
    <3>3. ASSUME NEW r \in Runners, NEW t \in Tasks, NEW k \in 0..MaxAttempts,
                 \/ AcknowledgeRunnerTask(r, t, k)
                 \/ RenewRunnerTask(r, t, k)
                 \/ \E key \in ResultKeys : SubmitPartial(r, t, k, key)
                 \/ \E key \in ResultKeys, report \in Outcome : SubmitTerminal(r, t, k, key, report)
          PROVE  Cardinality(Live(q, status)') <= MaxConcurrency[q]
      <4>1. LeaseVerified(r, t, k)
        BY <3>3 DEF AcknowledgeRunnerTask, RenewRunnerTask, SubmitPartial, SubmitTerminal
      <4>2. t \in TasksOf(q) => status[t] \in Active /\ lease[t] > 0
        BY <2>2, <2>3, <4>1, VerifiedHolder
      <4>3. \A u \in TasksOf(q) : u # t => status'[u] = status[u] /\ lease'[u] = lease[u]
        BY <2>2, <2>3, <3>3
           DEF AcknowledgeRunnerTask, RenewRunnerTask, SubmitPartial, SubmitTerminal, TypeOK
      <4>4. QED
        BY <2>1, <4>2, <4>3, NoNewLive
    <3>4. CASE ReclaimExpired
      <4>1. \A u \in TasksOf(q) : status'[u] \in Active /\ lease'[u] > 0
                                    => status[u] \in Active /\ lease[u] > 0
        BY <2>2, <3>4 DEF ReclaimExpired, AfterReclaim, Expired, Active, NoLease
      <4>2. QED
        BY <2>1, <4>1, NoNewLive
    <3>5. CASE Tick
      <4>1. \A u \in TasksOf(q) : status'[u] \in Active /\ lease'[u] > 0
                                    => status[u] \in Active /\ lease[u] > 0
        BY <2>2, <2>3, <3>5 DEF Tick, TypeOK
      <4>2. QED
        BY <2>1, <4>1, NoNewLive
    <3>6. QED
      BY <2>5, <3>1, <3>2, <3>3, <3>4, <3>5, NextCases
  <2>6. QED
    BY <2>4, <2>5
<1>3. QED
  BY <1>1, <1>2, Invariance, PTL DEF Spec

================================================================================
