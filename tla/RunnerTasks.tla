------------------------------ MODULE RunnerTasks ------------------------------
(***************************************************************************)
(* The relay's Runner task queue: the life of the rows of runner_tasks and *)
(* runner_task_results, from the moment a task is queued for a Runner      *)
(* until its last answer (src/src/relay/runners.js and                     *)
(* src/src/relay/services/taskQueueService.js).                            *)
(*                                                                         *)
(* A Runner polls, receives a fencing lease per claimed task, acknowledges *)
(* it, renews it while it works, and submits partial and terminal results. *)
(* An operator may requeue or cancel a task at any moment.  Every write is *)
(* one transaction of the single writer (db.js, writeTx), so every action  *)
(* below is one transaction; the interleaving of requests is the           *)
(* interleaving of actions.                                                *)
(*                                                                         *)
(* The Runners are the environment.  A Runner may use, at any time and any *)
(* number of times, every lease token it was ever handed: that covers slow *)
(* and duplicated requests, retries after a lost response, a Runner that   *)
(* restarts and a second process running under the same identity.          *)
(***************************************************************************)
EXTENDS Integers, FiniteSetsExt, Sequences

CONSTANTS
    Tasks,           \* task identifiers
    Runners,         \* registered Runner identities
    RunnerOf,        \* the Runner each task is queued for
    ChatTasks,       \* tasks created from a pet's chat message (up_message_id)
    MaxAttempts,     \* runner_tasks.max_attempts
    LeaseSec,        \* length of a lease, in clock ticks
    MaxConcurrency,  \* per Runner, how many live leases it may hold
    ResultIds,       \* result ids a Runner can choose
    V1Runners        \* Runners exempted from tokens by protocol v1 compatibility

ASSUME RunnerTasksAssumption ==
    /\ IsFiniteSet(Tasks)
    /\ RunnerOf \in [Tasks -> Runners]
    /\ ChatTasks \subseteq Tasks
    /\ MaxAttempts \in Nat \ {0}
    /\ LeaseSec \in Nat \ {0}
    /\ MaxConcurrency \in [Runners -> Nat \ {0}]
    /\ V1Runners \subseteq Runners

VARIABLES
    status,     \* runner_tasks.status
    attempt,    \* runner_tasks.attempt: how often the task was claimed
    token,      \* the lease_token_hash: the attempt that minted it, 0 = NULL
    lease,      \* seconds until lease_until, 0 = expired, NoLease = NULL
    created,    \* the order of created_at, in which polls serve the queue
    results,    \* runner_task_results, by result id
    up,         \* messages.status of the chat message that made the task
    down        \* the answers inserted for the pet, oldest first

vars == <<status, attempt, token, lease, created, results, up, down>>

-----------------------------------------------------------------------------
(* Values. *)

Active == {"leased", "acknowledged", "running"}
Terminal == {"completed", "failed", "cancelled", "dead"}
Status == {"absent", "queued"} \cup Active \cup Terminal

\* What a Runner reports: "running" (also for "accepted") keeps the task open.
Outcome == {"completed", "failed", "cancelled"}
Report == {"running"} \cup Outcome

NoLease == -1
NoToken == 0
NoResult == [report |-> "none", generation |-> 0]
NoResultId == "no result id"

\* A v1 result without an id is stored under an id derived from its report.
EffectiveResultId(rid, report) == IF rid = NoResultId THEN report ELSE rid
ResultKeys == ResultIds \cup Report

\* generation is history: the claim whose lease was current when it was stored.
ResultRow == [report : Report \cup {"none"}, generation : 0..MaxAttempts]

TasksOf(r) == {t \in Tasks : RunnerOf[t] = r}

TypeOK ==
    /\ status \in [Tasks -> Status]
    /\ attempt \in [Tasks -> 0..MaxAttempts]
    /\ token \in [Tasks -> 0..MaxAttempts]
    /\ lease \in [Tasks -> NoLease..LeaseSec]
    /\ created \in [Tasks -> 0..Cardinality(Tasks)]
    /\ results \in [Tasks -> [ResultKeys -> ResultRow]]
    /\ up \in [Tasks -> {"accepted", "delivered", "failed"}]
    /\ down \in [Tasks -> Seq(Report)]

Init ==
    /\ status = [t \in Tasks |-> "absent"]
    /\ attempt = [t \in Tasks |-> 0]
    /\ token = [t \in Tasks |-> NoToken]
    /\ lease = [t \in Tasks |-> NoLease]
    /\ created = [t \in Tasks |-> 0]
    /\ results = [t \in Tasks |-> [k \in ResultKeys |-> NoResult]]
    /\ up = [t \in Tasks |-> "accepted"]
    /\ down = [t \in Tasks |-> <<>>]

-----------------------------------------------------------------------------
(* Queueing. *)

\* created_at has the granularity of a second: a new task ties with the newest
\* one or follows it.  Queueing an id again changes nothing.
Enqueue(t) ==
    /\ status[t] = "absent"
    /\ status' = [status EXCEPT ![t] = "queued"]
    /\ \E c \in 0..Cardinality(Tasks) :
        /\ \A u \in Tasks : created[u] <= c
        /\ \E u \in Tasks : created[u] \in {c - 1, c}
        /\ created' = [created EXCEPT ![t] = c]
    /\ UNCHANGED <<attempt, token, lease, results, up, down>>

-----------------------------------------------------------------------------
(* Reclaiming expired leases. *)

\* Mutation: reclaiming forgets the tasks that were acknowledged.
ExpiredUnacknowledged(S) == {t \in S : status[t] = "leased" /\ lease[t] = 0}

Expired(S) == {t \in S : status[t] \in Active /\ lease[t] = 0}

AfterReclaim(S) ==
    [t \in Tasks |->
        IF t \in Expired(S)
        THEN IF attempt[t] >= MaxAttempts THEN "dead" ELSE "queued"
        ELSE status[t]]

\* The relay starts: every expired lease is reclaimed, whoever held it.
ReclaimExpired ==
    /\ Expired(Tasks) # {}
    /\ status' = AfterReclaim(Tasks)
    /\ token' = [t \in Tasks |-> IF t \in Expired(Tasks) THEN NoToken ELSE token[t]]
    /\ lease' = [t \in Tasks |-> IF t \in Expired(Tasks) THEN NoLease ELSE lease[t]]
    /\ UNCHANGED <<attempt, created, results, up, down>>

-----------------------------------------------------------------------------
(* A Runner polls: reclaim, count the live leases, claim the oldest tasks. *)

Live(r, st) == {t \in TasksOf(r) : st[t] \in Active /\ lease[t] > 0}

\* Mutation: a claim does not look at the attempts already made.
ClaimableAnyAttempt(r, st) == {t \in TasksOf(r) : st[t] = "queued"}

Claimable(r, st) == {t \in TasksOf(r) : st[t] = "queued" /\ attempt[t] < MaxAttempts}

\* C is what ORDER BY created_at LIMIT n can return of S.
Oldest(C, S, n) ==
    /\ C \subseteq S
    /\ Cardinality(C) = Min({n, Cardinality(S)})
    /\ \A t \in C, u \in S \ C : created[t] <= created[u]

\* Mutation: a poll does not count the leases already held.
SlotsIgnoringLive(r, st) == MaxConcurrency[r]

Slots(r, st) == Max({0, MaxConcurrency[r] - Cardinality(Live(r, st))})

PollRunnerTasks(r, limit) ==
    LET st == AfterReclaim(TasksOf(r))
        reclaimed == Expired(TasksOf(r))
    IN  \E C \in SUBSET Claimable(r, st) :
          /\ Oldest(C, Claimable(r, st), Min({limit, Slots(r, st)}))
          /\ status' = [t \in Tasks |-> IF t \in C THEN "leased" ELSE st[t]]
          /\ attempt' = [t \in Tasks |-> IF t \in C THEN attempt[t] + 1 ELSE attempt[t]]
          /\ token' = [t \in Tasks |->
                          IF t \in C THEN attempt[t] + 1
                          ELSE IF t \in reclaimed THEN NoToken ELSE token[t]]
          /\ lease' = [t \in Tasks |->
                          IF t \in C THEN LeaseSec
                          ELSE IF t \in reclaimed THEN NoLease ELSE lease[t]]
          /\ UNCHANGED <<created, results, up, down>>

-----------------------------------------------------------------------------
(* What the holder of a lease may do. *)

\* Mutation: the token is compared, the deadline is not.
LeaseVerifiedAnyDeadline(r, t, k) ==
    /\ RunnerOf[t] = r
    /\ \/ k = NoToken /\ r \in V1Runners
       \/ k # NoToken /\ k = token[t]

\* Mutation: the v1 exemption is a switch of the relay, not of the Runner.
LeaseVerifiedV1ForAll(r, t, k) ==
    /\ RunnerOf[t] = r
    /\ \/ k = NoToken /\ V1Runners # {}
       \/ k # NoToken /\ k = token[t] /\ lease[t] > 0

\* verifyTaskLease lets request token k of Runner r through.
LeaseVerified(r, t, k) ==
    /\ RunnerOf[t] = r
    /\ \/ k = NoToken /\ r \in V1Runners
       \/ k # NoToken /\ k = token[t] /\ lease[t] > 0

AcknowledgeRunnerTask(r, t, k) ==
    /\ status[t] # "absent"
    /\ LeaseVerified(r, t, k)
    /\ status[t] \notin Terminal
    /\ status' = [status EXCEPT ![t] = "acknowledged"]
    /\ UNCHANGED <<attempt, token, lease, created, results, up, down>>

RenewRunnerTask(r, t, k) ==
    /\ status[t] # "absent"
    /\ LeaseVerified(r, t, k)
    /\ status[t] \notin Terminal
    /\ lease' = [lease EXCEPT ![t] = LeaseSec]
    /\ UNCHANGED <<status, attempt, token, created, results, up, down>>

\* Every stored result inserts one answer for the pet, if a pet asked.
RecordResult(t, key, report) ==
    /\ results' = [results EXCEPT ![t][key] = [report |-> report, generation |-> token[t]]]
    /\ down' = IF t \in ChatTasks
               THEN [down EXCEPT ![t] = Append(@, report)]
               ELSE down

SubmitPartial(r, t, k, key) ==
    /\ status[t] # "absent"
    /\ results[t][key] = NoResult
    /\ LeaseVerified(r, t, k)
    /\ status' = [status EXCEPT ![t] = "running"]
    /\ RecordResult(t, key, "running")
    /\ UNCHANGED <<attempt, token, lease, created, up>>

\* Mutation: a terminal result leaves the lease in place.
SubmitTerminalKeepingLease(r, t, k, key, report) ==
    /\ status[t] # "absent"
    /\ results[t][key] = NoResult
    /\ LeaseVerified(r, t, k)
    /\ status' = [status EXCEPT ![t] = report]
    /\ RecordResult(t, key, report)
    /\ UNCHANGED <<attempt, token, lease, created, up>>

\* Mutation: only the first outcome reaches the chat message.
SubmitTerminalFirstWins(r, t, k, key, report) ==
    /\ status[t] # "absent"
    /\ results[t][key] = NoResult
    /\ LeaseVerified(r, t, k)
    /\ status[t] \notin {"completed", "failed", "cancelled"}
    /\ status' = [status EXCEPT ![t] = report]
    /\ token' = [token EXCEPT ![t] = NoToken]
    /\ lease' = [lease EXCEPT ![t] = NoLease]
    /\ RecordResult(t, key, report)
    /\ up' = IF t \in ChatTasks /\ up[t] = "accepted"
             THEN [up EXCEPT ![t] = IF report = "completed" THEN "delivered" ELSE "failed"]
             ELSE up
    /\ UNCHANGED <<attempt, created>>

SubmitTerminal(r, t, k, key, report) ==
    /\ status[t] # "absent"
    /\ results[t][key] = NoResult
    /\ LeaseVerified(r, t, k)
    /\ status[t] \notin {"completed", "failed", "cancelled"}
    /\ status' = [status EXCEPT ![t] = report]
    /\ token' = [token EXCEPT ![t] = NoToken]
    /\ lease' = [lease EXCEPT ![t] = NoLease]
    /\ RecordResult(t, key, report)
    /\ up' = IF t \in ChatTasks
             THEN [up EXCEPT ![t] = IF report = "completed" THEN "delivered" ELSE "failed"]
             ELSE up
    /\ UNCHANGED <<attempt, created>>

\* A result id already stored is answered from the stored row (duplicate) or
\* refused (RESULT_ID_CONFLICT); neither changes the state.
SubmitRunnerTaskResult(r, t, k, rid, report) ==
    /\ rid = NoResultId => r \in V1Runners
    /\ IF report = "running"
       THEN SubmitPartial(r, t, k, EffectiveResultId(rid, report))
       ELSE SubmitTerminal(r, t, k, EffectiveResultId(rid, report), report)

-----------------------------------------------------------------------------
(* What an operator may do. *)

\* Mutation: a requeue does not take the old executor's lease away.
RequeueTaskKeepingLease(t) ==
    /\ status[t] \notin {"absent", "completed"}
    /\ status' = [status EXCEPT ![t] = "queued"]
    /\ UNCHANGED <<attempt, token, lease, created, results, up, down>>

RequeueTask(t) ==
    /\ status[t] \notin {"absent", "completed"}
    /\ status' = [status EXCEPT ![t] = "queued"]
    /\ token' = [token EXCEPT ![t] = NoToken]
    /\ lease' = [lease EXCEPT ![t] = NoLease]
    /\ UNCHANGED <<attempt, created, results, up, down>>

\* Mutation: a cancellation does not take the lease away.
CancelTaskKeepingLease(t) ==
    /\ status[t] \notin Terminal \cup {"absent"}
    /\ status' = [status EXCEPT ![t] = "cancelled"]
    /\ UNCHANGED <<attempt, token, lease, created, results, up, down>>

CancelTask(t) ==
    /\ status[t] \notin Terminal \cup {"absent"}
    /\ status' = [status EXCEPT ![t] = "cancelled"]
    /\ token' = [token EXCEPT ![t] = NoToken]
    /\ lease' = [lease EXCEPT ![t] = NoLease]
    /\ UNCHANGED <<attempt, created, results, up, down>>

-----------------------------------------------------------------------------
(* A second passes. *)

Tick ==
    /\ \E t \in Tasks : lease[t] > 0
    /\ lease' = [t \in Tasks |-> IF lease[t] > 0 THEN lease[t] - 1 ELSE lease[t]]
    /\ UNCHANGED <<status, attempt, token, created, results, up, down>>

-----------------------------------------------------------------------------

RunnerRequest(r) ==
    \/ \E limit \in 1..Cardinality(Tasks) : PollRunnerTasks(r, limit)
    \/ \E t \in Tasks, k \in 0..MaxAttempts :
        \/ AcknowledgeRunnerTask(r, t, k)
        \/ RenewRunnerTask(r, t, k)
        \/ \E rid \in ResultIds \cup {NoResultId}, report \in Report :
              SubmitRunnerTaskResult(r, t, k, rid, report)

Next ==
    \/ \E t \in Tasks : Enqueue(t) \/ RequeueTask(t) \/ CancelTask(t)
    \/ \E r \in Runners : RunnerRequest(r)
    \/ ReclaimExpired
    \/ Tick

Spec == Init /\ [][Next]_vars

\* Runners poll in a loop (codex-runner.js, main) and time passes; nothing else
\* is owed to the queue: a Runner may never answer, an operator never look.
Fairness ==
    /\ WF_vars(Tick)
    /\ \A r \in Runners :
        WF_vars(\E limit \in 1..Cardinality(Tasks) : PollRunnerTasks(r, limit))

FairSpec == Spec /\ Fairness
-----------------------------------------------------------------------------
(* What the queue promises.  Runners on protocol v1 are exempted from tokens   *)
(* and from these promises; a v2 Runner keeps them whoever else is connected.  *)

Strict(t) == RunnerOf[t] \notin V1Runners

\* A task is in a Runner's hands exactly while it has a lease, and the lease is
\* the one minted by its latest claim: no active task can be left without a
\* deadline (it would never be reclaimed) and no idle one keeps a usable token.
LeaseMatchesStatus ==
    \A t \in Tasks : Strict(t) =>
        /\ status[t] \in Active <=> token[t] # NoToken
        /\ status[t] \in Active <=> lease[t] # NoLease
        /\ token[t] \in {NoToken, attempt[t]}

\* A Runner never holds more live leases than its concurrency, however claims,
\* renewals, expiries, requeues and reclaims interleave.
ConcurrencyBounded ==
    \A r \in Runners \ V1Runners : Cardinality(Live(r, status)) <= MaxConcurrency[r]

\* Each claim of a task yields at most one terminal outcome: a late, repeated or
\* superseded Runner adds none (runners.md: an old lease must not overwrite the
\* result of the new executor).
OneOutcomePerClaim ==
    \A t \in Tasks : Strict(t) =>
        \A j, k \in ResultKeys :
            /\ results[t][j].report \in Outcome
            /\ results[t][k].report \in Outcome
            /\ results[t][j].generation = results[t][k].generation
            => j = k

\* A completed task was completed by its latest claim, its result is stored, and
\* the pet that asked has the answer as the last word and sees its message
\* delivered.
CompletionIsAnswered ==
    \A t \in Tasks : Strict(t) /\ status[t] = "completed" =>
        /\ \E k \in ResultKeys :
             results[t][k] = [report |-> "completed", generation |-> attempt[t]]
        /\ t \in ChatTasks =>
             /\ up[t] = "delivered"
             /\ Len(down[t]) > 0
             /\ down[t][Len(down[t])] = "completed"

\* In the pet's thread nothing follows a completed answer: no second answer, no
\* late "running", no failure.
CompletedIsTheLastWord ==
    \A t \in Tasks : Strict(t) =>
        \A i \in 1..Len(down[t]) : down[t][i] = "completed" => i = Len(down[t])

\* A lease that expired stays expired until it is reclaimed: no acknowledgement,
\* renewal or result of a slow Runner revives it, whatever the order of the
\* requests; only a new claim starts a new lease.
ExpiredLeaseIsNeverRevived ==
    [][\A t \in Tasks : Strict(t) /\ lease[t] = 0 /\ lease'[t] > 0
            => attempt'[t] > attempt[t]]_vars

\* A terminal task is moved by an operator's requeue only; a completed one by
\* nothing.  In particular no request of a Runner reopens it.
TerminalLeavesByRequeueOnly ==
    [][\A t \in Tasks : Strict(t) /\ status[t] \in Terminal /\ status'[t] # status[t]
            => status[t] # "completed" /\ status'[t] = "queued"]_vars

\* Renewals stop at some point: the executor bounds every run by a timeout
\* (codexCliAdapter.js) and stops renewing when it gives up or crashes.
RenewalsStop ==
    <>[][~ \E r \in Runners, t \in Tasks, k \in 0..MaxAttempts : RenewRunnerTask(r, t, k)]_vars

\* No task stays in the hands of a Runner that fell silent, at whatever point
\* between claim, acknowledgement, partial result and final result it did: the
\* lease runs out and the next poll takes the task back.
SilentRunnerLosesTask ==
    RenewalsStop =>
        \A t \in Tasks : Strict(t) => (status[t] \in Active ~> status[t] \notin Active)

\* A queued task with claims left is not starved by the other tasks of its
\* Runner: it reaches a terminal status or uses its claims up.
QueuedTaskIsServed ==
    RenewalsStop =>
        \A t \in Tasks : Strict(t) =>
            (status[t] = "queued" /\ attempt[t] < MaxAttempts
                ~> status[t] \in Terminal \/ attempt[t] = MaxAttempts)

-----------------------------------------------------------------------------
(* A statement of the repository that the code does not meet. *)

\* runners.md answers 409 to a result for a task that is already terminal, for
\* every Runner: no Runner puts a terminal task back to work.
TerminalTaskIsNotReopened ==
    [][\A t \in Tasks : status[t] \in Terminal => status'[t] \notin Active]_vars

================================================================================
