--------------------------- MODULE WorkpanelDispatch ---------------------------
(***************************************************************************)
(* The life of a provider dispatch: its row, the requests that create and  *)
(* cancel it, the command and the cancellation on their way to the Site    *)
(* that executes it, the task there, and the run events that come back     *)
(* (src/src/relay/services/workpanelDispatchService.js and                 *)
(* workpanelDispatchProjection.js, with the code of federationSite.js,     *)
(* federationHost.js and handlers.js that they meet).                      *)
(*                                                                         *)
(* The relay of the provider is a Site or the Host, and the task runs in   *)
(* the same relay (a local dispatch) or at another Site (a remote one).    *)
(* An action is a transaction, or the stretch of code between two awaits.  *)
(* The task is the job of FencedJobs, as its Runner and operators see it;  *)
(* the way of a message is what FederationDelivery shows of it: carried    *)
(* out, perhaps more than once, or given up.                               *)
(***************************************************************************)
EXTENDS Integers

CONSTANTS
    Dispatches,  \* (service_id, idempotency_key), which dispatchId and messageIds derive from
    Requests,    \* provider requests that can be under way at once
    Events       \* messageIds of run events, a new one for each

VARIABLES
    role,        \* hostRole(config) of the provider's relay
    target,      \* where the route of the dispatch ends
    row,         \* workpanel_dispatches
    request,     \* the local variables of a request under way
    command,     \* the chat.command of the dispatch in outbox, Host and inbox
    cancel,      \* its run.cancel
    task,        \* runner_tasks.status at the executing Site
    requeued,    \* an operator has requeued the task (at most once)
    cancelling,  \* the local variables of processRunCancel
    event        \* run events: what they report and how far they got

provider == <<row, request>>
post == <<command, cancel>>
site == <<task, requeued, cancelling>>
vars == <<role, target, row, request, post, task, requeued, cancelling, event>>

-----------------------------------------------------------------------------
(* Values. *)

\* What a run event can report, and the last word on a dispatch.
Final == {"completed", "failed", "cancelled"}

\* TERMINAL: what a cancellation takes for an end.
Terminal == Final \cup {"dead"}
TaskStatus == Terminal \cup {"absent", "open"}

Row == [status : TaskStatus \cup {"preparing", "federating", "cancel_requested"},
        message : {"none", "command", "cancel"},   \* federation_message_id
        linked : BOOLEAN,                          \* task_id is set
        result : {"none"} \cup Final]              \* result_json

NoRow == [status |-> "absent", message |-> "none", linked |-> FALSE, result |-> "none"]

Request == [step : {"idle", "create", "created", "fail", "cancel", "cancelled"},
            of : Dispatches \cup {"none"}, seen : TaskStatus]

NoRequest == [step |-> "idle", of |-> "none", seen |-> "absent"]

\* "over": carried out for the last time, or given up.
Way == {"none", "queued", "over"}

Event == [report : {"none"} \cup Final, way : {"none", "pending", "queued", "done", "lost"}]
NoEvent == [report |-> "none", way |-> "none"]

TypeOK ==
    /\ role \in {"site", "host"}
    /\ target \in [Dispatches -> {"local", "remote"}]
    /\ row \in [Dispatches -> Row]
    /\ request \in [Requests -> Request]
    /\ command \in [Dispatches -> Way]
    /\ cancel \in [Dispatches -> Way]
    /\ task \in [Dispatches -> TaskStatus]
    /\ requeued \in [Dispatches -> BOOLEAN]
    /\ cancelling \in [Dispatches -> {"idle", "cancelled", "processed"}]
    /\ event \in [Dispatches -> [Events -> Event]]

Init ==
    /\ role \in {"site", "host"}
    /\ target \in [Dispatches -> {"local", "remote"}]
    /\ row = [d \in Dispatches |-> NoRow]
    /\ request = [r \in Requests |-> NoRequest]
    /\ command = [d \in Dispatches |-> "none"]
    /\ cancel = [d \in Dispatches |-> "none"]
    /\ task = [d \in Dispatches |-> "absent"]
    /\ requeued = [d \in Dispatches |-> FALSE]
    /\ cancelling = [d \in Dispatches |-> "idle"]
    /\ event = [d \in Dispatches |-> [e \in Events |-> NoEvent]]

\* dispatchDto: a local dispatch shows its task.
Shown(d) ==
    IF row[d].linked /\ target[d] = "local" THEN task[d] ELSE row[d].status

-----------------------------------------------------------------------------
(* createWorkpanelDispatch. *)

Answered(r) == request' = [request EXCEPT ![r] = NoRequest]

GoesOn(r, step) ==
    request' = [request EXCEPT ![r] =
        [step |-> step, of |-> request[r].of, seen |-> request[r].seen]]

\* reserveDispatch: the first request makes the row; any that finds it still
\* "preparing" goes on with it, the others are answered with what it says.
ReserveDispatch(r, d) ==
    /\ request[r].step = "idle"
    /\ row[d].status \in {"absent", "preparing"}
    /\ row' = [row EXCEPT ![d].status = "preparing"]
    /\ request' = [request EXCEPT ![r] = [step |-> "create", of |-> d, seen |-> "absent"]]
    /\ UNCHANGED <<role, target, post, site, event>>

EnqueueLocally(r, d) ==
    /\ request[r].step = "create" /\ request[r].of = d
    /\ target[d] = "local"
    /\ task' = [task EXCEPT ![d] = IF @ = "absent" THEN "open" ELSE @]
    /\ request' = [request EXCEPT ![r] = [step |-> "created", of |-> d, seen |-> task'[d]]]
    /\ UNCHANGED <<role, target, row, post, requeued, cancelling, event>>

\* enqueueRemoteEnvelope: a Site keeps the envelope it has under this messageId.
\* On the Host a second envelope is a conflict, unless it was made in the same
\* millisecond and is the same.
\* Mutation: the request goes on although nothing was stored.
EnqueueCommandUnstored(r, d) ==
    /\ request[r].step = "create" /\ request[r].of = d
    /\ target[d] = "remote"
    /\ GoesOn(r, "created")
    /\ UNCHANGED <<role, target, row, post, site, event>>

EnqueueCommand(r, d) ==
    /\ request[r].step = "create" /\ request[r].of = d
    /\ target[d] = "remote"
    /\ command' = [command EXCEPT ![d] = IF @ = "none" THEN "queued" ELSE @]
    /\ GoesOn(r, "created")
    /\ UNCHANGED <<role, target, row, cancel, site, event>>

\* No binding, federation off, policy, quota, keys, or a conflict of messageIds.
EnqueueThrows(r, d) ==
    /\ request[r].step = "create" /\ request[r].of = d
    /\ GoesOn(r, "fail")
    /\ UNCHANGED <<role, target, row, post, site, event>>

\* updateDispatch writes by id, whatever the row says by now.
UpdateCreated(r, d) ==
    /\ request[r].step = "created" /\ request[r].of = d
    /\ row' = [row EXCEPT ![d] =
         IF target[d] = "local"
         THEN [status |-> request[r].seen, message |-> row[d].message,
               linked |-> TRUE, result |-> row[d].result]
         ELSE [status |-> "federating", message |-> "command",
               linked |-> row[d].linked, result |-> row[d].result]]
    /\ Answered(r)
    /\ UNCHANGED <<role, target, post, site, event>>

\* Mutation: the error is stored as a result.
UpdateFailedWithResult(r, d) ==
    /\ request[r].step = "fail" /\ request[r].of = d
    /\ row' = [row EXCEPT ![d].status = "failed", ![d].result = "error"]
    /\ Answered(r)
    /\ UNCHANGED <<role, target, post, site, event>>

UpdateFailed(r, d) ==
    /\ request[r].step = "fail" /\ request[r].of = d
    /\ row' = [row EXCEPT ![d].status = "failed"]
    /\ Answered(r)
    /\ UNCHANGED <<role, target, post, site, event>>

-----------------------------------------------------------------------------
(* cancelWorkpanelDispatch. *)

ReadForCancel(r, d) ==
    /\ request[r].step = "idle"
    /\ row[d].status # "absent"
    /\ Shown(d) \notin Terminal
    /\ request' = [request EXCEPT ![r] = [step |-> "cancel", of |-> d, seen |-> "absent"]]
    /\ UNCHANGED <<role, target, row, post, site, event>>

\* cancelTask, as the provider and the target of a run.cancel call it.
\* Mutation: any task but a completed one is cancelled.
CancellableUnlessCompleted == {"open", "cancelled", "failed", "dead"}

Cancellable == {"open", "cancelled"}

CancelLocally(r, d) ==
    /\ request[r].step = "cancel" /\ request[r].of = d
    /\ target[d] = "local"
    /\ IF task[d] \in Cancellable
       THEN /\ task' = [task EXCEPT ![d] = "cancelled"]
            /\ GoesOn(r, "cancelled")
       ELSE Answered(r) /\ UNCHANGED task
    /\ UNCHANGED <<role, target, row, post, requeued, cancelling, event>>

EnqueueCancel(r, d) ==
    /\ request[r].step = "cancel" /\ request[r].of = d
    /\ target[d] = "remote"
    /\ cancel' = [cancel EXCEPT ![d] = IF @ = "none" THEN "queued" ELSE @]
    /\ GoesOn(r, "cancelled")
    /\ UNCHANGED <<role, target, row, command, site, event>>

EnqueueCancelThrows(r, d) ==
    /\ request[r].step = "cancel" /\ request[r].of = d
    /\ target[d] = "remote"
    /\ Answered(r)
    /\ UNCHANGED <<role, target, row, post, site, event>>

UpdateCancelled(r, d) ==
    /\ request[r].step = "cancelled" /\ request[r].of = d
    /\ row' = [row EXCEPT ![d] =
         IF target[d] = "local"
         THEN [status |-> "cancelled", message |-> row[d].message,
               linked |-> row[d].linked, result |-> row[d].result]
         ELSE [status |-> "cancel_requested", message |-> "cancel",
               linked |-> row[d].linked, result |-> row[d].result]]
    /\ Answered(r)
    /\ UNCHANGED <<role, target, post, site, event>>

ProviderRestarts ==
    /\ request' = [r \in Requests |-> NoRequest]
    /\ UNCHANGED <<role, target, row, post, site, event>>

-----------------------------------------------------------------------------
(* The Site that executes a remote dispatch.  A message may be carried out  *)
(* again: the row of the inbox, or an answer, can be lost after the effect. *)

\* processChatCommand, with the transaction of enqueueRunnerTask.
ProcessChatCommand(d) ==
    /\ command[d] = "queued"
    /\ task' = [task EXCEPT ![d] = IF @ = "absent" THEN "open" ELSE @]
    /\ UNCHANGED <<role, target, provider, post, requeued, cancelling, event>>

\* enqueueFederationRunEvent: an event of its own for each call.
Unused(d) == {e \in Events : event[d][e].way = "none"}
NewEvent(d, report, way) ==
    /\ Unused(d) # {}
    /\ event' = [event EXCEPT ![d] = [event[d] EXCEPT
                    ![CHOOSE e \in Unused(d) : TRUE] = [report |-> report, way |-> way]]]

Goes(d, e, way) ==
    event' = [event EXCEPT ![d] =
        [event[d] EXCEPT ![e] = [report |-> event[d][e].report, way |-> way]]]

\* processRunCancel; it throws, and is tried again, while there is no task.
ProcessRunCancel(d) ==
    /\ cancel[d] = "queued"
    /\ cancelling[d] = "idle"
    /\ task[d] # "absent"
    /\ IF task[d] \in Cancellable
       THEN /\ task' = [task EXCEPT ![d] = "cancelled"]
            /\ cancelling' = [cancelling EXCEPT ![d] = "cancelled"]
       ELSE /\ cancelling' = [cancelling EXCEPT ![d] = "processed"]
            /\ UNCHANGED task
    /\ UNCHANGED <<role, target, provider, post, requeued, event>>

SendCancelled(d) ==
    /\ cancelling[d] = "cancelled"
    /\ cancelling' = [cancelling EXCEPT ![d] = "processed"]
    /\ NewEvent(d, "cancelled", "queued")
    /\ UNCHANGED <<role, target, provider, post, task, requeued>>

\* The policy refuses the event: it throws after the task is cancelled.
SendCancelledThrows(d) ==
    /\ cancelling[d] = "cancelled"
    /\ cancelling' = [cancelling EXCEPT ![d] = "idle"]
    /\ UNCHANGED <<role, target, provider, post, task, requeued, event>>

RecordCancelled(d) ==
    /\ cancelling[d] = "processed"
    /\ cancelling' = [cancelling EXCEPT ![d] = "idle"]
    /\ cancel' = [cancel EXCEPT ![d] = "over"]
    /\ UNCHANGED <<role, target, provider, command, task, requeued, event>>

\* The command is recorded as processed, or the outbox, the Host or the inbox gives
\* a message up: expired, refused for good, or out of attempts.
MessageIsOver(d) ==
    /\ \/ /\ command[d] = "queued"
          /\ command' = [command EXCEPT ![d] = "over"]
          /\ UNCHANGED cancel
       \/ /\ cancel[d] = "queued" /\ cancelling[d] = "idle"
          /\ cancel' = [cancel EXCEPT ![d] = "over"]
          /\ UNCHANGED command
    /\ UNCHANGED <<role, target, provider, site, event>>

-----------------------------------------------------------------------------
(* The task and its Runner, and the operators of its Site. *)

\* submitRunnerTaskResult commits; agentTaskResult still has to enqueue the event.
TaskEnds(d, report) ==
    /\ task[d] = "open"
    /\ task' = [task EXCEPT ![d] = report]
    /\ IF target[d] = "local"
       THEN UNCHANGED event
       ELSE NewEvent(d, report, "pending")
    /\ UNCHANGED <<role, target, provider, post, requeued, cancelling>>

\* reclaimExpiredTasksTx after the last attempt: nobody is told.
TaskDies(d) ==
    /\ task[d] = "open"
    /\ task' = [task EXCEPT ![d] = "dead"]
    /\ UNCHANGED <<role, target, provider, post, requeued, cancelling, event>>

\* cancelTask of an operator: nobody is told.
OperatorCancels(d) ==
    /\ task[d] = "open"
    /\ task' = [task EXCEPT ![d] = "cancelled"]
    /\ UNCHANGED <<role, target, provider, post, requeued, cancelling, event>>

\* Mutation: a completed task is requeued like any other.
RequeueAnyTask(d) ==
    /\ task[d] \in Terminal
    /\ ~requeued[d]
    /\ task' = [task EXCEPT ![d] = "open"]
    /\ requeued' = [requeued EXCEPT ![d] = TRUE]
    /\ UNCHANGED <<role, target, provider, post, cancelling, event>>

\* Bound: an operator requeues a task once.
RequeueTask(d) ==
    /\ task[d] \in Terminal \ {"completed"}
    /\ ~requeued[d]
    /\ task' = [task EXCEPT ![d] = "open"]
    /\ requeued' = [requeued EXCEPT ![d] = TRUE]
    /\ UNCHANGED <<role, target, provider, post, cancelling, event>>

\* The second half of agentTaskResult.
EnqueueRunEvent(d, e) ==
    /\ event[d][e].way = "pending"
    /\ Goes(d, e, "queued")
    /\ UNCHANGED <<role, target, provider, post, site>>

\* What was on the stack is gone: a result that is committed is not announced by
\* a repetition of the request, which is a duplicate.
SiteRestarts(d) ==
    /\ event' = [event EXCEPT ![d] = [e \in Events |->
         IF event[d][e].way = "pending"
         THEN [report |-> event[d][e].report, way |-> "lost"] ELSE event[d][e]]]
    /\ cancelling' = [cancelling EXCEPT ![d] = "idle"]
    /\ UNCHANGED <<role, target, provider, post, task, requeued>>

-----------------------------------------------------------------------------
(* The way back.  An event may be processed again, like any message. *)

\* Mutation: every relay compares the causation with federation_message_id.
MatchesEverywhere(d) == row[d].message = "command"

\* acceptHostTargetMessage: the Host takes only what answers federation_message_id,
\* and a run event names the command.
Matches(d) == role = "host" => row[d].message = "command"

\* Mutation: the latest word wins.
ProjectedAlways(d, report) ==
    [status |-> report, message |-> row[d].message,
     linked |-> row[d].linked, result |-> report]

\* completeWorkpanelDispatchFromFederation: the first last word stays.
Projected(d, report) ==
    IF row[d].status \in Final
    THEN row[d]
    ELSE [status |-> report, message |-> row[d].message,
          linked |-> row[d].linked, result |-> report]

ProcessRunEvent(d, e) ==
    /\ event[d][e].way = "queued"
    /\ Matches(d)
    /\ row' = [row EXCEPT ![d] = Projected(d, event[d][e].report)]
    /\ \E way \in {"queued", "done"} : Goes(d, e, way)
    /\ UNCHANGED <<role, target, request, post, site>>

\* Refused by a policy, expired, or out of attempts.
EventIsLost(d, e) ==
    /\ event[d][e].way \in {"pending", "queued"}
    /\ Goes(d, e, "lost")
    /\ UNCHANGED <<role, target, provider, post, site>>

-----------------------------------------------------------------------------
ProviderRequest(r, d) ==
    \/ ReserveDispatch(r, d)
    \/ EnqueueLocally(r, d)
    \/ EnqueueCommand(r, d)
    \/ EnqueueThrows(r, d)
    \/ UpdateCreated(r, d)
    \/ UpdateFailed(r, d)
    \/ ReadForCancel(r, d)
    \/ CancelLocally(r, d)
    \/ EnqueueCancel(r, d)
    \/ EnqueueCancelThrows(r, d)
    \/ UpdateCancelled(r, d)

SiteStep(d) ==
    \/ ProcessChatCommand(d)
    \/ ProcessRunCancel(d)
    \/ SendCancelled(d)
    \/ SendCancelledThrows(d)
    \/ RecordCancelled(d)
    \/ MessageIsOver(d)
    \/ \E report \in Final : TaskEnds(d, report)
    \/ TaskDies(d)
    \/ OperatorCancels(d)
    \/ RequeueTask(d)
    \/ SiteRestarts(d)

EventStep(d, e) ==
    \/ EnqueueRunEvent(d, e)
    \/ ProcessRunEvent(d, e)
    \/ EventIsLost(d, e)

Next ==
    \/ \E r \in Requests, d \in Dispatches : ProviderRequest(r, d)
    \/ ProviderRestarts
    \/ \E d \in Dispatches : SiteStep(d)
    \/ \E d \in Dispatches, e \in Events : EventStep(d, e)

Spec == Init /\ [][Next]_vars

\* A handler that goes on comes to its end, and the loops of outbox and inbox
\* get to every event that is neither refused nor given up.
FairSpec ==
    /\ Spec
    /\ \A d \in Dispatches, e \in Events :
        /\ WF_vars(EnqueueRunEvent(d, e))
        /\ WF_vars(ProcessRunEvent(d, e))

-----------------------------------------------------------------------------
(* Properties. *)

\* A dispatch shown as under way has its command, its task or its cancellation
\* stored where a restart of the provider cannot lose it: updateDispatch comes
\* after the enqueueing, and a retry finds "preparing" until then.
UnderWayIsStored ==
    \A d \in Dispatches :
        /\ row[d].linked => task[d] # "absent"
        /\ row[d].message = "command" => command[d] # "none"
        /\ row[d].message = "cancel" => cancel[d] # "none"
        /\ row[d].status = "federating" => command[d] # "none"
        /\ row[d].status = "cancel_requested" => cancel[d] # "none"

\* What a provider reads as completed was completed by the task, and stays so for
\* the executing Site, whatever was requeued, retried or reported twice.
CompletedIsCompleted ==
    \A d \in Dispatches : Shown(d) = "completed" => task[d] = "completed"

\* Unless an operator interferes, the projection and the task agree: a result on
\* record is the outcome of the task, and a dispatch shown as cancelled will not
\* be executed.
ResultIsTheTasks ==
    \A d \in Dispatches : ~requeued[d] =>
        /\ row[d].result # "none" => task[d] = row[d].result
        /\ Shown(d) = "cancelled" => task[d] = "cancelled"

\* Once the last word on a dispatch is written and no request is under way, neither
\* a run event nor a new request takes it back.
SettledStays ==
    [][\A d \in Dispatches :
        row[d].status \in Final /\ (\A r \in Requests : request[r].of # d)
            => row'[d].status = row[d].status]_vars

\* A Site's dispatch is told of the completion of its task unless the event was
\* lost: at some time since then a result is on record, or the dispatch shows an
\* enqueueing that had failed.
Executed(d) == role = "site" /\ target[d] = "remote" /\ task[d] = "completed"
Told(d) ==
    \/ row[d].result # "none" \/ row[d].status = "failed"
    \/ \E e \in Events : event[d][e] = [report |-> "completed", way |-> "lost"]
CompletionIsTold ==
    \A d \in Dispatches : <>Executed(d) => <>(Executed(d) /\ Told(d))

\* docs/architecture.md:45 says that first-terminal-wins prevents a terminal status
\* from being overwritten: a projected last word stays.
FirstTerminalWins ==
    [][\A d \in Dispatches :
        row[d].result # "none" /\ row[d].status = row[d].result
            => row'[d].status = row[d].status]_vars
================================================================================
