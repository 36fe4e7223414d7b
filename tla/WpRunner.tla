-------------------------------- MODULE WpRunner --------------------------------
(***************************************************************************)
(* The Runner that carries tasks out in WorkPanel (scripts/wp-runner.js,   *)
(* with dispatchWorkPanel and wpListGroupMessages of workpanelClient.js):  *)
(* it pulls one task, acknowledges it, posts the prompt in the group,      *)
(* reports that it runs, waits for the agent's reply, renews the lease     *)
(* once and reports the reply.  It looks at no answer of the relay but the *)
(* one to the acknowledgement, and any request that throws ends it.        *)
(*                                                                         *)
(* The relay's side is one task with its lease (RunnerTasks has the whole  *)
(* of it); the k-th claim of the task is known by k, and so are the run    *)
(* WorkPanel starts for it and the reply to that run.  Time is in ticks; a *)
(* step of the Runner takes at most its limit, the clocks run alike.  Left *)
(* out: a relay that answers 5xx to a renewal or a result.                 *)
(***************************************************************************)
EXTENDS Integers

CONSTANTS
    Workers,       \* processes that run with the Runner's token
    MaxClaims,     \* attempts the relay grants (maxAttempts)
    LeaseTime,     \* ticks of a lease
    RequestTime,   \* bound: ticks a request to the relay takes at most (jsonFetch has none)
    DispatchTime,  \* ticks dispatchWorkPanel takes at most
    WaitTime       \* ticks the Runner waits for the reply (CONNECTER_WP_WAIT_MS)

ASSUME WpRunnerAssumption ==
    {MaxClaims, LeaseTime, RequestTime, DispatchTime, WaitTime} \subseteq Nat \ {0}

VARIABLES
    taskStatus,  \* runner_tasks.status
    attempt,     \* runner_tasks.attempt
    leaseLeft,   \* ticks until lease_until of the last claim, 0 if there is no lease
    stored,      \* history: the claim and the text of the result the relay stored
    at,          \* where main stands
    spent,       \* ticks spent there
    held,        \* the claim whose lease token the process holds, 0 if none
    knowsRun,    \* WorkPanel told a run id for the prompt
    text,        \* the text to report: the run it answers, SaidElse, or NoText
    posts,       \* history: how often each claim's prompt was posted
    replied      \* the runs whose agent has replied in the group

taskVars == <<taskStatus, attempt, leaseLeft, stored>>
placeVars == <<at, spent, held>>
replyVars == <<knowsRun, text>>
groupVars == <<posts, replied>>
runnerVars == <<taskVars, placeVars, replyVars, groupVars>>

-----------------------------------------------------------------------------

Attempts == 1..MaxClaims
Over == {"completed", "failed", "dead"}
NoText == 0
SaidElse == -1    \* what somebody else said in the group meanwhile
Texts == Attempts \cup {NoText, SaidElse}
Places == {"idle", "pulled", "ack", "dispatch", "running", "unsent", "wait", "renew",
           "report", "fail"}
NothingStored == [claim |-> 0, text |-> NoText]

LimitOf(s) ==
    CASE s = "dispatch" -> DispatchTime
      [] s = "wait" -> WaitTime
      [] OTHER -> RequestTime

RunnerTypeOK ==
    /\ taskStatus \in {"queued", "dispatched", "acknowledged", "running"} \cup Over
    /\ attempt \in 0..MaxClaims
    /\ leaseLeft \in 0..LeaseTime
    /\ stored \in [claim: 0..MaxClaims, text: Texts]
    /\ at \in [Workers -> Places]
    /\ \A p \in Workers : spent[p] \in 0..LimitOf(at[p])
    /\ held \in [Workers -> 0..MaxClaims]
    /\ knowsRun \in [Workers -> BOOLEAN]
    /\ text \in [Workers -> Texts]
    /\ posts \in [Attempts -> Nat]
    /\ replied \subseteq Attempts

RunnerInit ==
    /\ taskStatus = "queued" /\ attempt = 0 /\ leaseLeft = 0 /\ stored = NothingStored
    /\ at = [p \in Workers |-> "idle"]
    /\ spent = [p \in Workers |-> 0]
    /\ held = [p \in Workers |-> 0]
    /\ knowsRun = [p \in Workers |-> FALSE]
    /\ text = [p \in Workers |-> NoText]
    /\ posts = [c \in Attempts |-> 0]
    /\ replied = {}

WorkerGoesOn(p, s) ==
    /\ at' = [at EXCEPT ![p] = s]
    /\ spent' = [spent EXCEPT ![p] = 0]

\* The task is over for p, which looks for the next one.
WorkerLeaves(p) ==
    /\ WorkerGoesOn(p, "idle")
    /\ held' = [held EXCEPT ![p] = 0]
    /\ knowsRun' = [knowsRun EXCEPT ![p] = FALSE]
    /\ text' = [text EXCEPT ![p] = NoText]

-----------------------------------------------------------------------------
(* Requests to the relay. *)

\* verifyTaskLease: the token of p is the row's, and its lease is in force.
InForce(p) == held[p] = attempt /\ leaseLeft > 0

\* The task is claimed if no lease on it is in force, or dies of its attempts.
Pull(p) ==
    /\ at[p] = "idle"
    /\ taskStatus \notin Over /\ leaseLeft = 0
    /\ \/ /\ attempt < MaxClaims
          /\ attempt' = attempt + 1
          /\ held' = [held EXCEPT ![p] = attempt + 1]
          /\ taskStatus' = "dispatched"
          /\ leaseLeft' = LeaseTime
          /\ WorkerGoesOn(p, "pulled")
       \/ /\ attempt = MaxClaims
          /\ taskStatus' = "dead"
          /\ UNCHANGED <<attempt, leaseLeft, placeVars>>
    /\ UNCHANGED <<stored, replyVars, groupVars>>

\* The answer to the pull has come.
Pulled(p) ==
    /\ at[p] = "pulled"
    /\ WorkerGoesOn(p, "ack")
    /\ UNCHANGED <<taskVars, held, replyVars, groupVars>>

\* Refused, or there is no backend for the task's environment: no dispatch.
Acknowledge(p, backend) ==
    /\ at[p] = "ack"
    /\ \/ /\ InForce(p)
          /\ taskStatus' = "acknowledged"
          /\ WorkerGoesOn(p, IF backend THEN "dispatch" ELSE "fail")
          /\ UNCHANGED <<attempt, leaseLeft, stored, held, replyVars, groupVars>>
       \/ /\ ~InForce(p)
          /\ WorkerLeaves(p)
          /\ UNCHANGED <<taskVars, groupVars>>

\* The partial result changes the status and leaves the lease as it is.
ReportRunning(p) ==
    /\ at[p] \in {"running", "unsent"}
    /\ taskStatus' = IF InForce(p) THEN "running" ELSE taskStatus
    /\ WorkerGoesOn(p, IF at[p] = "running" THEN "wait" ELSE "fail")
    /\ UNCHANGED <<attempt, leaseLeft, stored, held, replyVars, groupVars>>

\* Mutation: the lease is not renewed before the result is reported.
RenewNot(p) ==
    /\ at[p] = "renew"
    /\ WorkerGoesOn(p, "report")
    /\ UNCHANGED <<taskVars, held, replyVars, groupVars>>

Renew(p) ==
    /\ at[p] = "renew"
    /\ leaseLeft' = IF InForce(p) THEN LeaseTime ELSE leaseLeft
    /\ WorkerGoesOn(p, "report")
    /\ UNCHANGED <<taskStatus, attempt, stored, held, replyVars, groupVars>>

\* Whatever the relay answers, the task is over for p.
Report(p) ==
    /\ at[p] \in {"report", "fail"}
    /\ IF InForce(p)
       THEN /\ taskStatus' = IF text[p] = NoText THEN "failed" ELSE "completed"
            /\ stored' = [claim |-> held[p], text |-> text[p]]
            /\ leaseLeft' = 0
       ELSE UNCHANGED <<taskStatus, stored, leaseLeft>>
    /\ WorkerLeaves(p)
    /\ UNCHANGED <<attempt, groupVars>>

-----------------------------------------------------------------------------
(* WorkPanel. *)

\* Mutation: a prompt whose answer was lost is posted again.
DispatchUntilAnswered(p, executed, answered, told) ==
    /\ at[p] = "dispatch"
    /\ posts' = IF executed THEN [posts EXCEPT ![held[p]] = @ + 1] ELSE posts
    /\ executed /\ posts[held[p]] > 0 => answered
    /\ knowsRun' = [knowsRun EXCEPT ![p] = executed /\ answered /\ told]
    /\ WorkerGoesOn(p, CASE executed /\ answered -> "running"
                          [] executed /\ ~answered -> "dispatch"
                          [] OTHER -> "unsent")
    /\ UNCHANGED <<taskVars, held, text, replied>>

\* dispatchWorkPanel: posted or not, answered or not, with a run id or without; a
\* failure of any kind comes back as a value.
Dispatch(p, executed, answered, told) ==
    /\ at[p] = "dispatch"
    /\ posts' = IF executed THEN [posts EXCEPT ![held[p]] = @ + 1] ELSE posts
    /\ knowsRun' = [knowsRun EXCEPT ![p] = executed /\ answered /\ told]
    /\ WorkerGoesOn(p, IF executed /\ answered THEN "running" ELSE "unsent")
    /\ UNCHANGED <<taskVars, held, text, replied>>

AgentReplies(c) ==
    /\ posts[c] > 0
    /\ replied' = replied \cup {c}
    /\ UNCHANGED <<taskVars, placeVars, replyVars, posts>>

\* Mutation: the newest message of the group is taken for the reply.
AnyReply(p) == replied \cup {SaidElse}

\* What waitForAgentReply accepts: with a run id the reply to that run, without
\* one whatever was said in the group since.
AcceptedReplies(p) ==
    IF knowsRun[p] THEN replied \cap {held[p]} ELSE replied \cup {SaidElse}

WaitEnds(p) ==
    /\ at[p] = "wait"
    /\ \/ \E heard \in AcceptedReplies(p) : text' = [text EXCEPT ![p] = heard]
       \/ /\ spent[p] = WaitTime
          /\ text' = [text EXCEPT ![p] = NoText]
    /\ WorkerGoesOn(p, "renew")
    /\ UNCHANGED <<taskVars, held, knowsRun, groupVars>>

-----------------------------------------------------------------------------

\* A request throws, and main with it; somebody starts the process again.
Dies(p) ==
    /\ at[p] # "idle"
    /\ WorkerLeaves(p)
    /\ UNCHANGED <<taskVars, groupVars>>

TimePasses ==
    /\ \A p \in Workers : at[p] # "idle" => spent[p] < LimitOf(at[p])
    /\ spent' = [p \in Workers |-> IF at[p] = "idle" THEN 0 ELSE spent[p] + 1]
    /\ leaseLeft' = IF leaseLeft > 0 THEN leaseLeft - 1 ELSE 0
    /\ UNCHANGED <<taskStatus, attempt, stored, at, held, replyVars, groupVars>>

RunnerNext ==
    \/ \E p \in Workers :
        \/ Pull(p) \/ Pulled(p) \/ ReportRunning(p) \/ Renew(p) \/ Report(p)
        \/ \E backend \in BOOLEAN : Acknowledge(p, backend)
        \/ \E executed, answered, told \in BOOLEAN : Dispatch(p, executed, answered, told)
        \/ WaitEnds(p) \/ Dies(p)
    \/ \E c \in Attempts : AgentReplies(c)
    \/ TimePasses

RunnerSpec == RunnerInit /\ [][RunnerNext]_runnerVars

-----------------------------------------------------------------------------

(* WorkPanel, which knows no task ids, gets the prompt once for each claim:  *)
(* an answer that was lost ends the claim and is not a reason to post again. *)
PostedOncePerClaim == \A c \in Attempts : posts[c] <= 1

(* The text stored with the result is the agent's reply to the prompt of the *)
(* claim that reports it: not the reply to an earlier claim, although that   *)
(* may come into the same group late, whenever WorkPanel tells run ids.      *)
ReplyIsItsOwn ==
    \A p \in Workers :
        at[p] \in {"renew", "report"} /\ knowsRun[p] => text[p] \in {NoText, held[p]}

(* A reply in time counts: the process that waited for it still has its      *)
(* lease, if dispatch, wait and the four requests around them are shorter    *)
(* than that.                                                                *)
ReplyInTimeCounts ==
    4 * RequestTime + DispatchTime + WaitTime < LeaseTime =>
        \A p \in Workers : at[p] = "report" => InForce(p)

(* All three: one prompt, one reply, and the reply is heard.                 *)
OnePromptOneReply == PostedOncePerClaim /\ ReplyIsItsOwn /\ ReplyInTimeCounts
=============================================================================
