------------------------------ MODULE CodexExecutor ------------------------------
(***************************************************************************)
(* Executors of one Runner and the time they take: scripts/codex-runner.js *)
(* polls for the task, acknowledges it, runs the Codex CLI as a child and  *)
(* renews the lease meanwhile; the relay keeps the lease by its own clock  *)
(* (src/src/relay/runners.js; RunnerTasks has that side with all its       *)
(* states, this module has one task of it with its deadline).              *)
(*                                                                         *)
(* Both clocks run at the same speed, in ticks.  A request is answered or  *)
(* fails within Delay ticks of being sent; the relay serves it at some     *)
(* moment in between, or never.  The Runner may be started twice, which    *)
(* gives it two executors with the same token.  Left out: the limit of     *)
(* attempts (RunnerTasks), the Codex thread that is resumed, and an        *)
(* executor that is killed, whose child nobody supervises.                 *)
(***************************************************************************)
EXTENDS Integers

CONSTANTS
    Executors,    \* processes that run with the Runner's token
    Lease,        \* ticks of a lease (runnerTaskLeaseSec)
    RenewEvery,   \* ticks between renewals: a third of the lease
    Delay,        \* ticks a request takes at most (requestTimeoutMs)
    Watch         \* ticks by which the check of the local deadline comes late

ASSUME CodexExecutorAssumption ==
    /\ {Lease, RenewEvery, Delay} \subseteq Nat \ {0}
    /\ RenewEvery = Lease \div 3
    /\ Watch \in Nat

VARIABLES
    holder,      \* whose token is current at the relay, Nobody if none is
    lease,       \* ticks until lease_until
    settled,     \* a terminal result is stored
    step,        \* where executeTask stands
    request,     \* the request under way: "none", not yet served, or its answer
    age,         \* its age
    deadline,    \* ticks until leaseExpiresAt; negative when it is past
    renewal,     \* ticks until the renew timer fires
    forced,      \* history: the operator has requeued the task
    together,    \* history: ticks for which two children have run
    failures     \* history: renewals that failed since the last one granted

executorVars == <<holder, lease, settled, step, request, age, deadline, renewal,
                  forced, together, failures>>
relayVars == <<holder, lease, settled>>
timerVars == <<deadline, renewal>>
historyVars == <<forced, together, failures>>

-----------------------------------------------------------------------------

Nobody == "nobody"
Running == {e \in Executors : step[e] = "running"}
Overlapping == \E d, e \in Running : d # e

\* The longest overlap: the answers to the poll and to the acknowledgement, and
\* the check.  A renewal has one answer only.
Slack == 2 * Delay + Watch

ExecutorTypeOK ==
    /\ holder \in Executors \cup {Nobody}
    /\ lease \in 0..Lease
    /\ settled \in BOOLEAN
    /\ step \in [Executors -> {"idle", "poll", "ack", "running", "submit"}]
    /\ request \in [Executors -> {"none", "sent", "granted", "refused"}]
    /\ age \in [Executors -> 0..Delay]
    /\ deadline \in [Executors -> (-Watch)..Lease]
    /\ renewal \in [Executors -> 0..RenewEvery]
    /\ forced \in BOOLEAN
    /\ together \in 0..(Lease + Slack + 1)
    /\ failures \in [Executors -> 0..3]

ExecutorInit ==
    /\ holder = Nobody
    /\ lease = 0
    /\ settled = FALSE
    /\ step = [e \in Executors |-> "idle"]
    /\ request = [e \in Executors |-> "none"]
    /\ age = [e \in Executors |-> 0]
    /\ deadline = [e \in Executors |-> 0]
    /\ renewal = [e \in Executors |-> 0]
    /\ forced = FALSE
    /\ together = 0
    /\ failures = [e \in Executors |-> 0]

-----------------------------------------------------------------------------
(* Requests. *)

\* e goes on to step s with a request that has just been sent.
Sends(e, s) ==
    /\ step' = [step EXCEPT ![e] = s]
    /\ request' = [request EXCEPT ![e] = "sent"]
    /\ age' = [age EXCEPT ![e] = 0]

\* e goes on to step s, and whatever was under way no longer matters.
GoesTo(e, s) ==
    /\ step' = [step EXCEPT ![e] = s]
    /\ request' = [request EXCEPT ![e] = "none"]
    /\ age' = [age EXCEPT ![e] = 0]

\* The child of e is gone, and its timers with it.
ChildGone(e) ==
    /\ deadline' = [deadline EXCEPT ![e] = 0]
    /\ renewal' = [renewal EXCEPT ![e] = 0]
    /\ failures' = [failures EXCEPT ![e] = 0]
    /\ together' = 0

Answers(e, granted) ==
    request' = [request EXCEPT ![e] = IF granted THEN "granted" ELSE "refused"]

\* verifyTaskLease, for the token e holds.
HoldsLease(e) == holder = e /\ lease > 0

Polls(e) ==
    /\ step[e] = "idle"
    /\ Sends(e, "poll")
    /\ UNCHANGED <<relayVars, timerVars, historyVars>>

\* The task is claimed if no lease on it is in force.
PollServed(e) ==
    /\ step[e] = "poll"
    /\ request[e] = "sent"
    /\ IF lease = 0 /\ ~settled
       THEN /\ holder' = e
            /\ lease' = Lease
            /\ Answers(e, TRUE)
       ELSE /\ Answers(e, FALSE)
            /\ UNCHANGED <<holder, lease>>
    /\ UNCHANGED <<settled, step, age, timerVars, historyVars>>

AckServed(e) ==
    /\ step[e] = "ack"
    /\ request[e] = "sent"
    /\ Answers(e, HoldsLease(e))
    /\ UNCHANGED <<relayVars, step, age, timerVars, historyVars>>

RenewServed(e) ==
    /\ step[e] = "running"
    /\ request[e] = "sent"
    /\ lease' = IF HoldsLease(e) THEN Lease ELSE lease
    /\ Answers(e, HoldsLease(e))
    /\ UNCHANGED <<holder, settled, step, age, timerVars, historyVars>>

ResultServed(e) ==
    /\ step[e] = "submit"
    /\ request[e] = "sent"
    /\ Answers(e, HoldsLease(e))
    /\ IF HoldsLease(e)
       THEN settled' = TRUE /\ holder' = Nobody /\ lease' = 0
       ELSE UNCHANGED relayVars
    /\ UNCHANGED <<step, age, timerVars, historyVars>>

-----------------------------------------------------------------------------
(* executeTask. *)

TaskPulled(e) ==
    /\ step[e] = "poll"
    /\ request[e] \in {"granted", "refused"}
    /\ IF request[e] = "granted" THEN Sends(e, "ack") ELSE GoesTo(e, "idle")
    /\ UNCHANGED <<relayVars, timerVars, historyVars>>

\* The child starts, and with it a lease of its own reckoning.
Starts(e) ==
    /\ step[e] = "ack"
    /\ request[e] = "granted"
    /\ GoesTo(e, "running")
    /\ deadline' = [deadline EXCEPT ![e] = Lease]
    /\ renewal' = [renewal EXCEPT ![e] = RenewEvery]
    /\ failures' = [failures EXCEPT ![e] = 0]
    /\ UNCHANGED <<relayVars, forced, together>>

\* The acknowledgement is refused, or there is no workspace: a result says so.
DoesNotStart(e) ==
    /\ step[e] = "ack"
    /\ \/ request[e] = "refused" /\ GoesTo(e, "idle")
       \/ request[e] = "granted" /\ Sends(e, "submit")
    /\ UNCHANGED <<relayVars, timerVars, historyVars>>

\* Mutation: a lease is renewed when it is nearly over.
RenewTimerLate(e) ==
    /\ step[e] = "running"
    /\ renewal[e] = 0
    /\ renewal' = [renewal EXCEPT ![e] = RenewEvery]
    /\ IF request[e] = "none" /\ deadline[e] <= RenewEvery
       THEN Sends(e, "running")
       ELSE UNCHANGED <<step, request, age>>
    /\ UNCHANGED <<relayVars, deadline, historyVars>>

\* The timer fires; a renewal still under way is left to finish.
RenewTimer(e) ==
    /\ step[e] = "running"
    /\ renewal[e] = 0
    /\ renewal' = [renewal EXCEPT ![e] = RenewEvery]
    /\ IF request[e] = "none" THEN Sends(e, "running") ELSE UNCHANGED <<step, request, age>>
    /\ UNCHANGED <<relayVars, deadline, historyVars>>

\* Granted: the local deadline moves.  Refused: the child is killed.
Renewed(e) ==
    /\ step[e] = "running"
    /\ \/ /\ request[e] = "granted"
          /\ GoesTo(e, "running")
          /\ deadline' = [deadline EXCEPT ![e] = Lease]
          /\ failures' = [failures EXCEPT ![e] = 0]
          /\ UNCHANGED <<renewal, together>>
       \/ /\ request[e] = "refused"
          /\ GoesTo(e, "idle")
          /\ ChildGone(e)
    /\ UNCHANGED <<relayVars, forced>>

\* leaseWatchdog: the local deadline is past, the child is killed.
Watchdog(e) ==
    /\ step[e] = "running"
    /\ deadline[e] <= 0
    /\ GoesTo(e, "idle")
    /\ ChildGone(e)
    /\ UNCHANGED <<relayVars, forced>>

\* The child ends by itself and its result is sent, or it could not be started.
ChildEnds(e, started) ==
    /\ step[e] = "running"
    /\ IF started THEN Sends(e, "submit") ELSE GoesTo(e, "idle")
    /\ ChildGone(e)
    /\ UNCHANGED <<relayVars, forced>>

\* 200 and 409 alike end the task for this executor.
ResultAnswered(e) ==
    /\ step[e] = "submit"
    /\ request[e] \in {"granted", "refused"}
    /\ GoesTo(e, "idle")
    /\ UNCHANGED <<relayVars, timerVars, historyVars>>

\* Mutation: a renewal that fails moves the local deadline like one that succeeds.
RequestFailsAsGranted(e) ==
    /\ request[e] # "none"
    /\ IF step[e] = "running"
       THEN /\ GoesTo(e, "running")
            /\ deadline' = [deadline EXCEPT ![e] = Lease]
            /\ failures' = [failures EXCEPT ![e] = IF @ < 3 THEN @ + 1 ELSE @]
       ELSE /\ GoesTo(e, "idle")
            /\ UNCHANGED <<deadline, failures>>
    /\ UNCHANGED <<relayVars, renewal, forced, together>>

\* A request times out, is not answered or is answered 5xx, served or not.  Only
\* the renewal is borne; the task is given up else.
RequestFails(e) ==
    /\ request[e] # "none"
    /\ IF step[e] = "running"
       THEN /\ GoesTo(e, "running")
            /\ failures' = [failures EXCEPT ![e] = IF @ < 3 THEN @ + 1 ELSE @]
       ELSE /\ GoesTo(e, "idle")
            /\ UNCHANGED failures
    /\ UNCHANGED <<relayVars, timerVars, forced, together>>

-----------------------------------------------------------------------------

\* requeueTask.
OperatorRequeues ==
    /\ holder # Nobody
    /\ holder' = Nobody
    /\ lease' = 0
    /\ forced' = TRUE
    /\ UNCHANGED <<settled, step, request, age, timerVars, together, failures>>

\* Timers do not fire late, but for the watchdog; no request outlives its timeout.
Tick ==
    /\ \A e \in Executors : request[e] # "none" => age[e] < Delay
    /\ \A e \in Running : renewal[e] > 0 /\ deadline[e] > -Watch
    /\ age' = [e \in Executors |-> IF request[e] = "none" THEN 0 ELSE age[e] + 1]
    /\ lease' = IF lease > 0 THEN lease - 1 ELSE 0
    /\ deadline' = [e \in Executors |-> IF e \in Running THEN deadline[e] - 1 ELSE deadline[e]]
    /\ renewal' = [e \in Executors |-> IF e \in Running THEN renewal[e] - 1 ELSE renewal[e]]
    /\ together' = IF Overlapping /\ together <= Lease + Slack THEN together + 1 ELSE together
    /\ UNCHANGED <<holder, settled, step, request, forced, failures>>

ExecutorSteps(e) ==
    \/ Polls(e) \/ TaskPulled(e) \/ Starts(e) \/ DoesNotStart(e) \/ RenewTimer(e)
    \/ Renewed(e) \/ Watchdog(e) \/ ResultAnswered(e) \/ RequestFails(e)
    \/ \E started \in BOOLEAN : ChildEnds(e, started)

RelayServes(e) == PollServed(e) \/ AckServed(e) \/ RenewServed(e) \/ ResultServed(e)

ExecutorNext ==
    \/ \E e \in Executors : ExecutorSteps(e) \/ RelayServes(e)
    \/ OperatorRequeues
    \/ Tick

ExecutorSpec == ExecutorInit /\ [][ExecutorNext]_executorVars

-----------------------------------------------------------------------------
(* What the leases are for. *)

\* Two children work on the task together for as long as answers and the check
\* of the local deadline may take, whatever requests are lost; where the operator
\* requeued it, for a lease more, as the old executor may be cut off.
BoundedOverlap == together <= IF forced THEN Lease + Slack ELSE Slack

\* One renewal in three may fail: an executor all of whose requests are answered
\* but for one does not lose the task to another one or kill its own child, if two
\* periods and the three requests since the claim are shorter than the lease.
OneFailureIsBorne ==
    3 * Delay + 2 * RenewEvery < Lease =>
        \A e \in Running : failures[e] <= 1 /\ ~forced /\ ~settled => HoldsLease(e)

(* The renew timer and the watchdog keep a child to its lease: it does not outlive *)
(* the lease by more than answers may take, and does not lose it to one failure.   *)
ChildKeepsToItsLease == BoundedOverlap /\ OneFailureIsBorne

================================================================================
