------------------------------ MODULE ChatMessages ------------------------------
(***************************************************************************)
(* A pet's chat message, from the request that stores it to its last       *)
(* answer (src/src/relay/handlers.js chat, messaging.js, delivery.js,      *)
(* services/dispatchService.js and the start of the relay in server.js).   *)
(*                                                                         *)
(* The row of messages is written first; then one worker looks for a place *)
(* to carry the message out: a local Runner, a Runner of another Site, or  *)
(* WorkPanel.  Where it goes is looked up anew each time (heartbeats,      *)
(* bindings and the directory change), so the way is chosen freely.        *)
(* WorkPanel knows no message ids: a request it carries out but whose      *)
(* answer is lost looks like a failure.  The relay may stop at any moment; *)
(* when it starts it delivers every row still "accepted" before it listens *)
(* again.                                                                  *)
(*                                                                         *)
(* The k-th remote command of a message has a correlation id of its own,   *)
(* written k here.  A queued task has the id of its message.               *)
(***************************************************************************)
EXTENDS Integers, FiniteSets

CONSTANTS
    Messages,      \* message ids chosen by the pets
    MaxAttempts,   \* deliverWithRetry's maxAttempts and markFailed's limit: 3
    MaxRestarts    \* bound: how often the relay stops

ASSUME ChatMessagesAssumption ==
    /\ IsFiniteSet(Messages)
    /\ MaxAttempts \in Nat \ {0}
    /\ MaxRestarts \in Nat

VARIABLES
    server,    \* "up", or "starting": the rows left over are delivered first
    pending,   \* the rows listPendingAccepted returned and not yet delivered
    status,    \* messages.status of the row, "absent" before it is stored
    retries,   \* messages.retries
    worker,    \* where the continuation that delivers the message stands
    attempt,   \* the round of deliverWithRetry's loop
    task,      \* the local Runner task: "none", "queued" or its outcome
    sent,      \* how many remote commands were put in the outbox
    terminal,  \* federation_run_terminals, by correlation id
    run,       \* runs.status of each remote command, "none" if there is no row
    thread,    \* per command, the write-back of its answer to the WorkPanel group
    posts,     \* history: how often WorkPanel carried the message out
    lost,      \* history: how often its answer did not arrive
    restarts   \* history: how often the relay stopped

rowVars == <<status, retries>>
workVars == <<worker, attempt>>
wayVars == <<task, sent>>
eventVars == <<terminal, run, thread>>
histVars == <<posts, lost, restarts>>
serverVars == <<server, pending>>
chatVars == <<serverVars, rowVars, workVars, wayVars, eventVars, histVars>>

-----------------------------------------------------------------------------

Commands == 1..(MaxRestarts + 1)
Outcome == {"completed", "failed"}
Settled == {"delivered", "failed"}

\* What a worker is about to do.  "tell" is the chat request's last step after
\* a remote command; the others are steps of deliverWithRetry.
WorkerStep == {"idle", "dispatch", "tell", "deliver", "post", "posted", "unposted", "pause"}

ChatTypeOK ==
    /\ server \in {"up", "starting"}
    /\ pending \in SUBSET Messages
    /\ status \in [Messages -> {"absent", "accepted"} \cup Settled]
    /\ retries \in [Messages -> 0..MaxAttempts]
    /\ worker \in [Messages -> WorkerStep]
    /\ attempt \in [Messages -> 0..MaxAttempts]
    /\ task \in [Messages -> {"none", "queued"} \cup Outcome]
    /\ sent \in [Messages -> 0..(MaxRestarts + 1)]
    /\ terminal \in [Messages -> [Commands -> {"none"} \cup Outcome]]
    /\ run \in [Messages -> [Commands -> {"none", "queued"} \cup Outcome]]
    /\ thread \in [Messages -> [Commands -> {"none", "due", "written"}]]
    /\ posts \in [Messages -> Nat]
    /\ lost \in [Messages -> Nat]
    /\ restarts \in 0..MaxRestarts

ChatInit ==
    /\ server = "up"
    /\ pending = {}
    /\ status = [m \in Messages |-> "absent"]
    /\ retries = [m \in Messages |-> 0]
    /\ worker = [m \in Messages |-> "idle"]
    /\ attempt = [m \in Messages |-> 0]
    /\ task = [m \in Messages |-> "none"]
    /\ sent = [m \in Messages |-> 0]
    /\ terminal = [m \in Messages |-> [c \in Commands |-> "none"]]
    /\ run = [m \in Messages |-> [c \in Commands |-> "none"]]
    /\ thread = [m \in Messages |-> [c \in Commands |-> "none"]]
    /\ posts = [m \in Messages |-> 0]
    /\ lost = [m \in Messages |-> 0]
    /\ restarts = 0

-----------------------------------------------------------------------------
(* The request. *)

\* acceptUpMessage stores the row.
AcceptUpMessage(m) == status' = [status EXCEPT ![m] = "accepted"]

\* Mutation: a repeated request is dispatched like the first one.
ChatAgain(m) ==
    /\ server = "up"
    /\ worker[m] = "idle"
    /\ status[m] \in {"absent", "accepted"}
    /\ AcceptUpMessage(m)
    /\ worker' = [worker EXCEPT ![m] = "dispatch"]
    /\ UNCHANGED <<serverVars, retries, attempt, wayVars, eventVars, histVars>>

\* A repeated request with the same id finds the row and is answered from it: it
\* changes nothing, whoever works on the first.
Chat(m) ==
    /\ server = "up"
    /\ status[m] = "absent"
    /\ AcceptUpMessage(m)
    /\ worker' = [worker EXCEPT ![m] = "dispatch"]
    /\ UNCHANGED <<serverVars, retries, attempt, wayVars, eventVars, histVars>>

-----------------------------------------------------------------------------
(* dispatchToRunnerIfBound, from the chat request or from deliverOnce. *)

\* The target is bound to a local Runner whose heartbeat is fresh.  A task that
\* has this id already is left alone.
ToLocalRunner(m) ==
    /\ worker[m] \in {"dispatch", "deliver"}
    /\ task' = [task EXCEPT ![m] = IF @ = "none" THEN "queued" ELSE @]
    /\ worker' = [worker EXCEPT ![m] = "idle"]
    /\ UNCHANGED <<serverVars, rowVars, attempt, sent, eventVars, histVars>>

\* The target belongs to another Site: a new envelope, with new ids, is put in
\* the outbox and the outbox is flushed, answered or not.
ToRemoteSite(m) ==
    /\ worker[m] \in {"dispatch", "deliver"}
    /\ sent' = [sent EXCEPT ![m] = @ + 1]
    /\ worker' = [worker EXCEPT ![m] = IF @ = "dispatch" THEN "tell" ELSE "idle"]
    /\ UNCHANGED <<serverVars, rowVars, attempt, task, eventVars, histVars>>

\* The chat request inserts the row of runs, or overwrites the one an early
\* answer inserted while the outbox was being flushed.
UpsertRun(m) ==
    /\ worker[m] = "tell"
    /\ run' = [run EXCEPT ![m][sent[m]] = "queued"]
    /\ worker' = [worker EXCEPT ![m] = "idle"]
    /\ UNCHANGED <<serverVars, rowVars, attempt, wayVars, terminal, thread, histVars>>

\* The bound Runner's heartbeat is stale: the pet is refused, the row stays.
RunnerOffline(m) ==
    /\ worker[m] = "dispatch"
    /\ worker' = [worker EXCEPT ![m] = "idle"]
    /\ UNCHANGED <<serverVars, rowVars, attempt, wayVars, eventVars, histVars>>

\* No Runner is bound: the message is for WorkPanel.
NotBound(m) ==
    /\ worker[m] = "dispatch"
    /\ worker' = [worker EXCEPT ![m] = "deliver"]
    /\ attempt' = [attempt EXCEPT ![m] = 1]
    /\ UNCHANGED <<serverVars, rowVars, wayVars, eventVars, histVars>>

-----------------------------------------------------------------------------
(* deliverOnce and deliverWithRetry. *)

\* deliverOnce gives up for good: the Runner bound meanwhile is offline, the agent
\* instance or its backend is gone, or prod is forbidden.
DeadLetter(m) ==
    /\ worker[m] = "deliver"
    /\ status' = [status EXCEPT ![m] = "failed"]
    /\ retries' = [retries EXCEPT ![m] = MaxAttempts]
    /\ worker' = [worker EXCEPT ![m] = "pause"]
    /\ UNCHANGED <<serverVars, attempt, wayVars, eventVars, histVars>>

StillNotBound(m) ==
    /\ worker[m] = "deliver"
    /\ worker' = [worker EXCEPT ![m] = "post"]
    /\ UNCHANGED <<serverVars, rowVars, attempt, wayVars, eventVars, histVars>>

\* dispatchWorkPanel: the request is refused or never reaches WorkPanel.
PostFails(m) ==
    /\ worker[m] = "post"
    /\ worker' = [worker EXCEPT ![m] = "unposted"]
    /\ UNCHANGED <<serverVars, rowVars, attempt, wayVars, eventVars, histVars>>

\* WorkPanel carries it out; the answer may be lost or come after the timeout.
PostExecuted(m, answered) ==
    /\ worker[m] = "post"
    /\ posts' = [posts EXCEPT ![m] = @ + 1]
    /\ lost' = IF answered THEN lost ELSE [lost EXCEPT ![m] = @ + 1]
    /\ worker' = [worker EXCEPT ![m] = IF answered THEN "posted" ELSE "unposted"]
    /\ UNCHANGED <<serverVars, rowVars, attempt, wayVars, eventVars, restarts>>

MarkDelivered(m) ==
    /\ worker[m] = "posted"
    /\ status' = [status EXCEPT ![m] = "delivered"]
    /\ worker' = [worker EXCEPT ![m] = "idle"]
    /\ UNCHANGED <<serverVars, retries, attempt, wayVars, eventVars, histVars>>

\* Mutation: the number of tries is kept in the loop, not in the row.
MarkFailedUncounted(m) ==
    /\ worker[m] = "unposted"
    /\ status' = [status EXCEPT ![m] = IF attempt[m] >= MaxAttempts THEN "failed" ELSE "accepted"]
    /\ worker' = [worker EXCEPT ![m] = "pause"]
    /\ UNCHANGED <<serverVars, retries, attempt, wayVars, eventVars, histVars>>

MarkFailed(m) ==
    /\ worker[m] = "unposted"
    /\ retries' = [retries EXCEPT ![m] = @ + 1]
    /\ status' = [status EXCEPT ![m] =
                     IF retries[m] + 1 >= MaxAttempts THEN "failed" ELSE "accepted"]
    /\ worker' = [worker EXCEPT ![m] = "pause"]
    /\ UNCHANGED <<serverVars, attempt, wayVars, eventVars, histVars>>

\* The loop ends at its limit, or when the row it reloads is settled.
TryAgain(m) ==
    /\ worker[m] = "pause"
    /\ IF status[m] # "accepted" \/ attempt[m] = MaxAttempts
       THEN /\ worker' = [worker EXCEPT ![m] = "idle"]
            /\ UNCHANGED attempt
       ELSE /\ worker' = [worker EXCEPT ![m] = "deliver"]
            /\ attempt' = [attempt EXCEPT ![m] = @ + 1]
    /\ UNCHANGED <<serverVars, rowVars, wayVars, eventVars, histVars>>

-----------------------------------------------------------------------------
(* Answers. *)

\* Mutation: the relay listens while it delivers what was left over.
ListeningAlways == TRUE

\* Requests are served, and the federation loop runs, when the relay listens.
Listening == server = "up"

\* The Runner reports on the task (RunnerTasks has the whole of it).
RunnerTaskResult(m, report) ==
    /\ Listening
    /\ task[m] = "queued"
    /\ task' = [task EXCEPT ![m] = report]
    /\ status' = [status EXCEPT ![m] = IF report = "completed" THEN "delivered" ELSE "failed"]
    /\ UNCHANGED <<serverVars, retries, workVars, sent, eventVars, histVars>>

\* Mutation: every run.event is projected.
EventIsNewAlways(m, c) == TRUE

\* federation_run_terminals has no answer to this command yet.
EventIsNew(m, c) == terminal[m][c] = "none"

\* A run.event of command c arrives, once or several times, in agreement or not.
\* The first one is projected on the message and is then due in the WorkPanel group.
ProcessRunEvent(m, c, report) ==
    /\ Listening
    /\ c <= sent[m]
    /\ EventIsNew(m, c)
    /\ terminal' = [terminal EXCEPT ![m][c] = report]
    /\ run' = [run EXCEPT ![m][c] = report]
    /\ status' = [status EXCEPT ![m] = IF report = "completed" THEN "delivered" ELSE "failed"]
    /\ thread' = [thread EXCEPT ![m][c] = "due"]
    /\ UNCHANGED <<serverVars, retries, workVars, wayVars, histVars>>

\* postAsAgent: one try, whose failure is only logged.
WriteBack(m, c) ==
    /\ thread[m][c] = "due"
    /\ thread' = [thread EXCEPT ![m][c] = "written"]
    /\ UNCHANGED <<serverVars, rowVars, workVars, wayVars, terminal, run, histVars>>

-----------------------------------------------------------------------------
(* The relay stops and starts. *)

Accepted == {m \in Messages : status[m] = "accepted"}

\* Every continuation is gone, a write-back that was due too: the event is a
\* duplicate when it is processed again.
Restart ==
    /\ restarts < MaxRestarts
    /\ server' = "starting"
    /\ pending' = Accepted
    /\ worker' = [m \in Messages |-> "idle"]
    /\ attempt' = [m \in Messages |-> 0]
    /\ thread' = [m \in Messages |-> [c \in Commands |->
                     IF thread[m][c] = "due" THEN "none" ELSE thread[m][c]]]
    /\ restarts' = restarts + 1
    /\ UNCHANGED <<rowVars, wayVars, terminal, run, posts, lost>>

NobodyWorks == \A m \in Messages : worker[m] = "idle"

\* resumePending takes the rows one after the other.
Resume(m) ==
    /\ server = "starting"
    /\ NobodyWorks
    /\ m \in pending
    /\ pending' = pending \ {m}
    /\ worker' = [worker EXCEPT ![m] = "deliver"]
    /\ attempt' = [attempt EXCEPT ![m] = 1]
    /\ UNCHANGED <<server, rowVars, wayVars, eventVars, histVars>>

\* Mutation: the relay listens when no message is left to deliver.
ListenWhenNoneAccepted ==
    /\ server = "starting"
    /\ NobodyWorks
    /\ pending = {} /\ Accepted = {}
    /\ server' = "up"
    /\ UNCHANGED <<pending, rowVars, workVars, wayVars, eventVars, histVars>>

Listen ==
    /\ server = "starting"
    /\ NobodyWorks
    /\ pending = {}
    /\ server' = "up"
    /\ UNCHANGED <<pending, rowVars, workVars, wayVars, eventVars, histVars>>

-----------------------------------------------------------------------------

WorkerSteps(m) ==
    \/ ToLocalRunner(m) \/ ToRemoteSite(m) \/ UpsertRun(m) \/ RunnerOffline(m) \/ NotBound(m)
    \/ DeadLetter(m) \/ StillNotBound(m) \/ PostFails(m)
    \/ \E answered \in BOOLEAN : PostExecuted(m, answered)
    \/ MarkDelivered(m) \/ MarkFailed(m) \/ TryAgain(m)

ChatNext ==
    \/ \E m \in Messages :
        \/ Chat(m) \/ WorkerSteps(m) \/ Resume(m)
        \/ \E report \in Outcome :
            \/ RunnerTaskResult(m, report)
            \/ \E c \in Commands : ProcessRunEvent(m, c, report)
        \/ \E c \in Commands : WriteBack(m, c)
    \/ Restart
    \/ Listen

ChatSpec == ChatInit /\ [][ChatNext]_chatVars

\* Every await of a worker ends: requests have a timeout, the pauses are timers.
ChatFairness ==
    /\ \A m \in Messages : WF_chatVars(WorkerSteps(m)) /\ WF_chatVars(Resume(m))
    /\ \A m \in Messages, c \in Commands : WF_chatVars(WriteBack(m, c))
    /\ WF_chatVars(Listen)

FairChatSpec == ChatSpec /\ ChatFairness

-----------------------------------------------------------------------------
(* What the pet is promised. *)

\* The separate times the message was handed to somebody who carries it out.
Handovers(m) == posts[m] + (IF task[m] = "none" THEN 0 ELSE 1) + sent[m]

\* A message is carried out once, and once more only for an answer of WorkPanel
\* that was lost or for a stop of the relay in between: not for a repeated
\* request, not for a retry that finds another way than the try before.
CarriedOutOnce == \A m \in Messages : Handovers(m) <= 1 + lost[m] + restarts

\* The limit of tries holds across restarts: the row counts them, and a stop can
\* hide at most the one that was under way.
TriesAreCounted == \A m \in Messages : posts[m] <= MaxAttempts + restarts

\* Both: neither pets that repeat requests, nor ways that change between tries, nor
\* stops of the relay make WorkPanel or a Runner do the work again and again.
BoundedHandovers == CarriedOutOnce /\ TriesAreCounted

\* A settled message is not taken up again: no retry, and no delivery of what a
\* stop left over, puts it back.  What was delivered stays so, whatever answers
\* come late, twice or in conflict, unless it was handed over twice.
AnswerStands ==
    [][\A m \in Messages :
        /\ status[m] \in Settled => status'[m] \in Settled
        /\ status[m] = "delivered" /\ Handovers(m) = 1 => status'[m] = "delivered"]_chatVars

\* Every worker comes to its end, the relay listens again after each stop, and a
\* remote answer is written to the WorkPanel group unless a stop comes in between.
WorkEnds ==
    /\ \A m \in Messages : worker[m] # "idle" ~> worker[m] = "idle"
    /\ server = "starting" ~> server = "up"
    /\ \A m \in Messages, c \in Commands :
        terminal[m][c] # "none" ~> thread[m][c] = "written" \/ restarts > 0

================================================================================
