--------------------------- MODULE FederationDelivery ---------------------------
(***************************************************************************)
(* The journey of a federated message: the origin Site's outbox, the       *)
(* Host's deliveries and the target Site's inbox                           *)
(* (src/src/relay/federationSite.js, federationHost.js, hostJoin.js).      *)
(*                                                                         *)
(* Three databases, and requests from the Sites to the Host between them.  *)
(* A request may be lost, and so may its answer; a Site may stop at every  *)
(* await and start again with what its database holds; several flushes of  *)
(* the outbox may run at once, the target's loop runs one at a time.  An   *)
(* action is a stretch of code between two awaits, or a request handled    *)
(* by the Host.                                                            *)
(***************************************************************************)
EXTENDS Integers

CONSTANTS
    Messages,           \* messages, by (origin_site, message_id)
    Flushes,            \* flushes of the outbox that can run at once
    OutboxMaxAttempts,  \* federation.outboxMaxAttempts
    MaxAttempts,        \* federation.maxAttempts: leases of a delivery
    InboxMaxAttempts,   \* federation.inboxMaxAttempts
    MaxLosses           \* how often the Host may lose its database

ASSUME FederationDeliveryAssumption ==
    /\ OutboxMaxAttempts \in Nat \ {0}
    /\ MaxAttempts \in Nat \ {0}
    /\ InboxMaxAttempts \in Nat \ {0}
    /\ MaxLosses \in Nat

VARIABLES
    outbox,    \* federation_outbox: status and attempt
    flight,    \* per flush and message, the row read and the Host's answer to it
    delivery,  \* federation_deliveries: status, attempt and lease_token_hash
    minted,    \* how many lease tokens were minted for the message (history)
    verdicts,  \* how many federation_receipts were written for it
    inbox,     \* federation_inbox: status, host_lease_token and attempt
    executed,  \* the message had its effect at the target
    batch,     \* the tokens of messages pulled and not stored yet
    work,      \* what the target's loop is doing with the message
    expired,   \* the messages whose expiresAt has passed
    losses     \* databases the Host has lost

originVars == <<outbox, flight>>
hostVars == <<delivery, minted, verdicts, losses>>
targetVars == <<inbox, executed, batch, work>>
vars == <<originVars, hostVars, targetVars, expired>>

-----------------------------------------------------------------------------
(* Values. *)

\* Mutation: an accepted message is not asked about again.
UnsentOrRefused == {"queued", "retry"}

Unsent == {"queued", "retry", "accepted"}
Settled == {"delivered", "failed", "expired", "dead"}
OutboxRow == [status : {"absent"} \cup Unsent \cup Settled, attempt : 0..OutboxMaxAttempts]

NoFlight == [step |-> "none", attempt |-> 0, answer |-> "none"]
Flight == [step : {"none", "read", "answered"}, attempt : 0..OutboxMaxAttempts,
           answer : {"none", "open", "error"} \cup Settled]

\* A token is named by the number of its minting; 0 is NULL.
NoToken == 0
Token == Nat

Verdict == {"delivered", "failed"}
Absent == [status |-> "absent", attempt |-> 0, token |-> NoToken]
Delivery == [status : {"absent", "queued", "leased", "acknowledged", "dead", "expired"} \cup Verdict,
             attempt : 0..MaxAttempts, token : Token]

InboxRow == [status : {"absent", "awaiting_ack", "received", "processing", "retry",
                       "processed", "dead"} \cup Verdict,
             attempt : 0..InboxMaxAttempts, token : Token]

Step == {"none", "ack", "acked", "unacked", "execute", "executed", "threw",
         "reported", "unreported"}

TypeOK ==
    /\ outbox \in [Messages -> OutboxRow]
    /\ flight \in [Flushes -> [Messages -> Flight]]
    /\ delivery \in [Messages -> Delivery]
    /\ minted \in [Messages -> Token]
    /\ verdicts \in [Messages -> Nat]
    /\ inbox \in [Messages -> InboxRow]
    /\ executed \in [Messages -> BOOLEAN]
    /\ batch \in [Messages -> Token]
    /\ work \in [Messages -> Step]
    /\ expired \subseteq Messages
    /\ losses \in 0..MaxLosses

Init ==
    /\ outbox = [m \in Messages |-> [status |-> "absent", attempt |-> 0]]
    /\ flight = [f \in Flushes |-> [m \in Messages |-> NoFlight]]
    /\ delivery = [m \in Messages |-> Absent]
    /\ minted = [m \in Messages |-> 0]
    /\ verdicts = [m \in Messages |-> 0]
    /\ inbox = [m \in Messages |-> Absent]
    /\ executed = [m \in Messages |-> FALSE]
    /\ batch = [m \in Messages |-> NoToken]
    /\ work = [m \in Messages |-> "none"]
    /\ expired = {}
    /\ losses = 0

-----------------------------------------------------------------------------
(* The origin: flushFederationOutboxOnce. *)

EnqueueFederationEnvelope(m) ==
    /\ outbox[m].status = "absent"
    /\ outbox' = [outbox EXCEPT ![m].status = "queued"]
    /\ UNCHANGED <<flight, hostVars, targetVars, expired>>

\* A flush reads the rows that are due and then takes them one by one.
FlushRead(f) ==
    /\ flight[f] = [m \in Messages |-> NoFlight]
    /\ \E due \in SUBSET {m \in Messages : outbox[m].status \in Unsent} :
        /\ due # {}
        /\ flight' = [flight EXCEPT ![f] =
             [m \in Messages |->
                IF m \in due
                THEN [step |-> "read", attempt |-> outbox[m].attempt, answer |-> "none"]
                ELSE NoFlight]]
    /\ UNCHANGED <<outbox, hostVars, targetVars, expired>>

Takes(f, m) ==
    /\ flight[f][m].step = "read"
    /\ \A n \in Messages : flight[f][n].step # "answered"

FlushExpired(f, m) ==
    /\ Takes(f, m)
    /\ m \in expired
    /\ outbox' = [outbox EXCEPT ![m].status = "expired"]
    /\ flight' = [flight EXCEPT ![f][m] = NoFlight]
    /\ UNCHANGED <<hostVars, targetVars, expired>>

Answer(status) == IF status \in Settled THEN status ELSE "open"

Answered(f, m, answer) ==
    [flight EXCEPT ![f][m] =
        [step |-> "answered", attempt |-> flight[f][m].attempt, answer |-> answer]]

\* acceptFederationMessage: insert the message and its delivery, or tell how the
\* delivery stands.
HostAccepts(f, m, answered) ==
    LET d == IF delivery[m] = Absent THEN [Absent EXCEPT !.status = "queued"] ELSE delivery[m]
    IN  /\ Takes(f, m)
        /\ m \notin expired
        /\ delivery' = [delivery EXCEPT ![m] = d]
        /\ flight' = Answered(f, m, IF answered THEN Answer(d.status) ELSE "error")
        /\ UNCHANGED <<outbox, minted, verdicts, losses, targetVars, expired>>

\* The request is lost, or refused: a quota, a policy, an expiry on the way.
HostRefuses(f, m) ==
    /\ Takes(f, m)
    /\ m \notin expired
    /\ flight' = Answered(f, m, "error")
    /\ UNCHANGED <<outbox, hostVars, targetVars, expired>>

\* An attempt is only ever compared with its maximum: it is counted up to there.
OneMore(attempt, max) == IF attempt < max THEN attempt + 1 ELSE attempt

\* The row is written as the answer says, whatever became of it meanwhile.
FlushUpdate(f, m) ==
    LET answer == flight[f][m].answer
        lastAttempt == flight[f][m].attempt + 1 >= OutboxMaxAttempts
        status == IF answer = "open" THEN "accepted"
                  ELSE IF answer # "error" THEN answer
                  ELSE IF lastAttempt THEN "dead" ELSE "retry"
    IN  /\ flight[f][m].step = "answered"
        /\ outbox' = [outbox EXCEPT ![m] =
             [status |-> status, attempt |-> OneMore(outbox[m].attempt, OutboxMaxAttempts)]]
        /\ flight' = [flight EXCEPT ![f][m] = NoFlight]
        /\ UNCHANGED <<hostVars, targetVars, expired>>

\* An operator sends a dead or failed entry again.
RequeueFederationOutbox(m) ==
    /\ outbox[m].status \in {"dead", "failed"}
    /\ outbox' = [outbox EXCEPT ![m] = [status |-> "queued", attempt |-> 0]]
    /\ UNCHANGED <<flight, hostVars, targetVars, expired>>

OriginRestarts ==
    /\ \E f \in Flushes, m \in Messages : flight[f][m] # NoFlight
    /\ flight' = [f \in Flushes |-> [m \in Messages |-> NoFlight]]
    /\ UNCHANGED <<outbox, hostVars, targetVars, expired>>

-----------------------------------------------------------------------------
(* The target pulls: pullFederationInboxOnce and the Host's pullOnce. *)

Idle ==
    /\ batch = [m \in Messages |-> NoToken]
    /\ work = [m \in Messages |-> "none"]

Held == {m \in Messages : delivery[m].status \in {"leased", "acknowledged"}}

\* Mutation: a lapsed lease is queued again without end.
ReclaimedForEver(d) == [status |-> "queued", attempt |-> d.attempt, token |-> NoToken]

Reclaimed(d) == [status |-> IF d.attempt >= MaxAttempts THEN "dead" ELSE "queued",
                 attempt |-> d.attempt, token |-> NoToken]

\* Mutation: whatever has expired is swept out.
SweptWhateverItsStatus(m, lapsed) ==
    LET d == IF m \in lapsed THEN Reclaimed(delivery[m]) ELSE delivery[m]
    IN  IF m \in expired /\ d.status # "absent" THEN [d EXCEPT !.status = "expired"] ELSE d

\* The delivery after a pull reclaimed the lapsed leases and swept out the expired
\* messages: a lease that has not lapsed stays on an expired delivery.
Swept(m, lapsed) ==
    LET d == IF m \in lapsed THEN Reclaimed(delivery[m]) ELSE delivery[m]
    IN  IF m \in expired /\ d.status \in {"queued", "leased"}
        THEN [d EXCEPT !.status = "expired"]
        ELSE d

PullFederationMessages(lapsed, answered) ==
    LET leased == {m \in Messages : Swept(m, lapsed).status = "queued"}
    IN  /\ Idle
        /\ delivery' = [m \in Messages |->
             IF m \in leased
             THEN [status |-> "leased", attempt |-> Swept(m, lapsed).attempt + 1,
                   token |-> minted[m] + 1]
             ELSE Swept(m, lapsed)]
        /\ minted' = [m \in Messages |-> IF m \in leased THEN minted[m] + 1 ELSE minted[m]]
        /\ batch' = IF answered
                    THEN [m \in Messages |-> IF m \in leased THEN minted[m] + 1 ELSE NoToken]
                    ELSE batch
        /\ UNCHANGED <<originVars, verdicts, losses, inbox, executed, work, expired>>

\* Mutation: a message leased again is received again.
StoreInboxAfresh(m) ==
    /\ work = [n \in Messages |-> "none"]
    /\ batch[m] # NoToken
    /\ inbox' = [inbox EXCEPT ![m] = [status |-> "received", attempt |-> 0, token |-> batch[m]]]
    /\ batch' = [batch EXCEPT ![m] = NoToken]
    /\ work' = [work EXCEPT ![m] = "ack"]
    /\ UNCHANGED <<originVars, hostVars, executed, expired>>

\* A message is stored once; a later lease only replaces the token.
StoreInbox(m) ==
    /\ work = [n \in Messages |-> "none"]
    /\ batch[m] # NoToken
    /\ inbox' = [inbox EXCEPT ![m] =
         [status |-> IF inbox[m].status = "absent" THEN "received" ELSE inbox[m].status,
          attempt |-> inbox[m].attempt, token |-> batch[m]]]
    /\ batch' = [batch EXCEPT ![m] = NoToken]
    /\ work' = [work EXCEPT ![m] = "ack"]
    /\ UNCHANGED <<originVars, hostVars, executed, expired>>

\* reconcileFederationAcknowledgementsOnce
ReconcileAcknowledgement(m) ==
    /\ Idle
    /\ inbox[m].status = "awaiting_ack"
    /\ work' = [work EXCEPT ![m] = "ack"]
    /\ UNCHANGED <<originVars, hostVars, inbox, executed, batch, expired>>

\* findDeliveryForLease lets the target through with its token.
FindsDelivery(m) ==
    \/ delivery[m].status \in Verdict
    \/ delivery[m].status # "absent" /\ inbox[m].token = delivery[m].token

\* ackFederationMessage; "acked" if the target learns of it.
HostAcknowledges(m, answered) ==
    /\ work[m] = "ack"
    /\ FindsDelivery(m)
    /\ delivery' = IF delivery[m].status \in Verdict THEN delivery
                   ELSE [delivery EXCEPT ![m].status = "acknowledged"]
    /\ work' = [work EXCEPT ![m] = IF answered THEN "acked" ELSE "unacked"]
    /\ UNCHANGED <<originVars, minted, verdicts, losses, inbox, executed, batch, expired>>

AcknowledgementFails(m) ==
    /\ work[m] = "ack"
    /\ work' = [work EXCEPT ![m] = "unacked"]
    /\ UNCHANGED <<originVars, hostVars, inbox, executed, batch, expired>>

RecordAcknowledgement(m) ==
    /\ work[m] \in {"acked", "unacked"}
    /\ inbox' = IF inbox[m].status \notin {"received", "awaiting_ack"} THEN inbox
                ELSE [inbox EXCEPT ![m].status =
                        IF work[m] = "acked" THEN "received" ELSE "awaiting_ack"]
    /\ work' = [work EXCEPT ![m] = "none"]
    /\ UNCHANGED <<originVars, hostVars, executed, batch, expired>>

-----------------------------------------------------------------------------
(* The target processes its inbox and reports. *)

Claimed(row) == [status |-> "processing", attempt |-> OneMore(row.attempt, InboxMaxAttempts),
                 token |-> row.token]

\* Mutation: the rows of a loop that stopped do not return.
ClaimInboxRowLosingOrphans(m) ==
    /\ Idle
    /\ inbox[m].status \in {"received", "retry"}
    /\ inbox' = [inbox EXCEPT ![m] = Claimed(inbox[m])]
    /\ work' = [work EXCEPT ![m] = "execute"]
    /\ UNCHANGED <<originVars, hostVars, executed, batch, expired>>

\* claimInboxRow: rows of a loop that stopped return once their time is up.
ClaimInboxRow(m) ==
    /\ Idle
    /\ \E orphans \in SUBSET {n \in Messages : inbox[n].status = "processing"} :
        LET rows == [n \in Messages |->
                       IF n \in orphans THEN [inbox[n] EXCEPT !.status = "retry"] ELSE inbox[n]]
        IN  /\ rows[m].status \in {"received", "retry"}
            /\ inbox' = [rows EXCEPT ![m] = Claimed(rows[m])]
    /\ work' = [work EXCEPT ![m] = "execute"]
    /\ UNCHANGED <<originVars, hostVars, executed, batch, expired>>

\* processInboxEnvelope has its effect, which is idempotent, or throws.
ProcessInboxEnvelope(m) ==
    /\ work[m] = "execute"
    /\ \/ executed' = [executed EXCEPT ![m] = TRUE] /\ work' = [work EXCEPT ![m] = "executed"]
       \/ executed' = executed /\ work' = [work EXCEPT ![m] = "threw"]
    /\ UNCHANGED <<originVars, hostVars, inbox, batch, expired>>

RecordProcessing(m) ==
    /\ work[m] \in {"executed", "threw"}
    /\ inbox' = [inbox EXCEPT ![m].status =
                   IF work[m] = "executed" THEN "processed"
                   ELSE IF inbox[m].attempt >= InboxMaxAttempts THEN "dead" ELSE "retry"]
    /\ work' = [work EXCEPT ![m] = "none"]
    /\ UNCHANGED <<originVars, hostVars, executed, batch, expired>>

\* Mutation: a row is reported as soon as it is claimed.
ReportableOnceClaimed(m) == inbox[m].status \in {"processing", "processed", "dead"}

Reportable(m) == inbox[m].status \in {"processed", "dead"}

\* Mutation: a verdict already given is given again.
HostCompletesAgain(m, answered) ==
    /\ Idle
    /\ Reportable(m)
    /\ FindsDelivery(m)
    /\ delivery' = [delivery EXCEPT ![m] =
             [status |-> IF inbox[m].status = "dead" THEN "failed" ELSE "delivered",
              attempt |-> delivery[m].attempt, token |-> NoToken]]
    /\ verdicts' = [verdicts EXCEPT ![m] = verdicts[m] + 1]
    /\ work' = [work EXCEPT ![m] = IF answered THEN "reported" ELSE "unreported"]
    /\ UNCHANGED <<originVars, minted, losses, inbox, executed, batch, expired>>

\* completeFederationMessage; "reported" if the target learns of it.
HostCompletes(m, answered) ==
    /\ Idle
    /\ Reportable(m)
    /\ FindsDelivery(m)
    /\ IF delivery[m].status \in Verdict
       THEN UNCHANGED <<delivery, verdicts>>
       ELSE /\ delivery' = [delivery EXCEPT ![m] =
                 [status |-> IF inbox[m].status = "dead" THEN "failed" ELSE "delivered",
                  attempt |-> delivery[m].attempt, token |-> NoToken]]
            /\ verdicts' = [verdicts EXCEPT ![m] = verdicts[m] + 1]
    /\ work' = [work EXCEPT ![m] = IF answered THEN "reported" ELSE "unreported"]
    /\ UNCHANGED <<originVars, minted, losses, inbox, executed, batch, expired>>

\* The report is lost, or refused: the token is not the Host's.
ReportFails(m) ==
    /\ Idle
    /\ Reportable(m)
    /\ work' = [work EXCEPT ![m] = "unreported"]
    /\ UNCHANGED <<originVars, hostVars, inbox, executed, batch, expired>>

\* Mutation: the row becomes final when it was reported, answered or not.
RecordReportUnanswered(m) ==
    /\ work[m] \in {"reported", "unreported"}
    /\ inbox' = [inbox EXCEPT ![m].status =
                          IF inbox[m].status = "dead" THEN "failed" ELSE "delivered"]
    /\ work' = [work EXCEPT ![m] = "none"]
    /\ UNCHANGED <<originVars, hostVars, executed, batch, expired>>

\* The row becomes final when the Host has answered, and else stays to be reported.
RecordReport(m) ==
    /\ work[m] \in {"reported", "unreported"}
    /\ inbox' = IF work[m] = "unreported" THEN inbox
                ELSE [inbox EXCEPT ![m].status =
                          IF inbox[m].status = "dead" THEN "failed" ELSE "delivered"]
    /\ work' = [work EXCEPT ![m] = "none"]
    /\ UNCHANGED <<originVars, hostVars, executed, batch, expired>>

TargetRestarts ==
    /\ ~Idle
    /\ batch' = [m \in Messages |-> NoToken]
    /\ work' = [m \in Messages |-> "none"]
    /\ UNCHANGED <<originVars, hostVars, inbox, executed, expired>>

-----------------------------------------------------------------------------
(* Time and disaster. *)

Expire(m) ==
    /\ m \notin expired
    /\ outbox[m].status # "absent"
    /\ expired' = expired \cup {m}
    /\ UNCHANGED <<originVars, hostVars, targetVars>>

HostLosesDatabase ==
    /\ losses < MaxLosses
    /\ \E m \in Messages : delivery[m] # Absent
    /\ delivery' = [m \in Messages |-> Absent]
    /\ losses' = losses + 1
    /\ UNCHANGED <<originVars, minted, verdicts, targetVars, expired>>

-----------------------------------------------------------------------------

OriginStep ==
    \/ \E m \in Messages : EnqueueFederationEnvelope(m) \/ RequeueFederationOutbox(m)
    \/ \E f \in Flushes : FlushRead(f)
    \/ \E f \in Flushes, m \in Messages :
        \/ FlushExpired(f, m) \/ HostRefuses(f, m) \/ FlushUpdate(f, m)
        \/ \E answered \in BOOLEAN : HostAccepts(f, m, answered)
    \/ OriginRestarts

TargetStep ==
    \* Time is abstract: any lease may have run out by the time of a pull.
    \/ \E lapsed \in SUBSET Held, answered \in BOOLEAN : PullFederationMessages(lapsed, answered)
    \/ \E m \in Messages :
        \/ StoreInbox(m) \/ ReconcileAcknowledgement(m)
        \/ AcknowledgementFails(m) \/ RecordAcknowledgement(m)
        \/ ClaimInboxRow(m) \/ ProcessInboxEnvelope(m) \/ RecordProcessing(m)
        \/ ReportFails(m) \/ RecordReport(m)
        \/ \E answered \in BOOLEAN : HostAcknowledges(m, answered) \/ HostCompletes(m, answered)
    \/ TargetRestarts

Next == OriginStep \/ TargetStep \/ HostLosesDatabase \/ \E m \in Messages : Expire(m)

Spec == Init /\ [][Next]_vars

\* A lease whose token the target does not have runs out: nobody extends it.
Unusable == {m \in Held : delivery[m].token # inbox[m].token}

\* The loops run again and again and come to every row, the Sites are up in the end,
\* the Host now and then takes a request and answers it, and time passes.
Fairness ==
    /\ <>[][~OriginRestarts /\ ~TargetRestarts]_vars
    /\ \A f \in Flushes : WF_vars(FlushRead(f))
    /\ \A f \in Flushes, m \in Messages :
        WF_vars(FlushExpired(f, m)) /\ WF_vars(FlushUpdate(f, m))
    /\ SF_vars(PullFederationMessages(Unusable, TRUE))
    /\ \A m \in Messages :
        /\ WF_vars(Expire(m))
        /\ WF_vars(StoreInbox(m)) /\ SF_vars(ReconcileAcknowledgement(m))
        /\ WF_vars(HostAcknowledges(m, TRUE) \/ AcknowledgementFails(m))
        /\ SF_vars(HostAcknowledges(m, TRUE)) /\ WF_vars(RecordAcknowledgement(m))
        /\ SF_vars(ClaimInboxRow(m)) /\ WF_vars(ProcessInboxEnvelope(m))
        /\ WF_vars(RecordProcessing(m))
        /\ SF_vars(HostCompletes(m, TRUE)) /\ WF_vars(RecordReport(m))

FairSpec == Spec /\ Fairness

-----------------------------------------------------------------------------
(* What the three databases promise together. *)

Vouched(m, verdict) ==
    /\ verdict = "delivered" => executed[m] /\ inbox[m].status \in {"processed", "delivered"}
    /\ verdict = "failed" => inbox[m].status \in {"dead", "failed"}

\* A verdict shown to the origin is the target's own: a message is "delivered" in
\* the outbox or at the Host only if the target carried it out, "failed" only if
\* the target gave it up, with any number of lost answers, restarts and flushes.
VerdictIsTheTargets ==
    \A m \in Messages : Vouched(m, outbox[m].status) /\ Vouched(m, delivery[m].status)

\* The Host writes one receipt for a message, however often it is reported; a
\* second one only after it lost the first.
OneReceipt == \A m \in Messages : verdicts[m] <= losses + 1

\* Once the target is done with a message the Host agrees with it for good: no
\* reclaim, sweep, repeated request or old token takes the verdict back.
FinalRowsAgree ==
    losses = 0 =>
        \A m \in Messages : inbox[m].status \in Verdict => delivery[m].status = inbox[m].status

\* What the Host gave up or gave a verdict on stays so until it loses its data.
HostVerdictStands ==
    [][\A m \in Messages :
        delivery[m].status \in Verdict \cup {"dead"} /\ delivery'[m] # delivery[m]
            => losses' > losses]_vars

Done == {"processed", "delivered", "dead", "failed"}

\* A message the target is done with is not carried out again: not when its lease is
\* reclaimed and it is pulled once more, and not when the Host lost its database.
DoneOnce ==
    [][\A m \in Messages : inbox[m].status \in Done =>
        inbox'[m].status \in Done /\ executed'[m] = executed[m]]_vars

\* Every message of the outbox gets an end there, whatever the Host and the target do.
OutboxSettles == \A m \in Messages : outbox[m].status # "absent" ~> outbox[m].status \in Settled

\* Every message of the inbox is finished, or the Host has given it up.
InboxSettles ==
    \A m \in Messages : inbox[m].status # "absent" ~>
        inbox[m].status \in Verdict \/ delivery[m].status \in {"dead", "expired"}

\* federation-e2e.js: all federation backlogs drain.
InboxDrains == \A m \in Messages : inbox[m].status # "absent" ~> inbox[m].status \in Verdict

\* federation-v1.md: expired messages are never dispatched.  A message the Host
\* swept out as expired, and told the origin so, is not carried out after all.
ExpiredIsNotExecuted ==
    [][\A m \in Messages :
        delivery[m].status = "expired" /\ executed'[m] => executed[m]]_vars

================================================================================
