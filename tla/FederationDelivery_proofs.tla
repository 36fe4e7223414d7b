----------------------- MODULE FederationDelivery_proofs -----------------------
(***************************************************************************)
(* Theorems about FederationDelivery, for all messages, flushes and        *)
(* bounds.  The inductive invariant says, message by message, what the     *)
(* three databases and the requests between them know of each other.       *)
(***************************************************************************)
EXTENDS FederationDeliveryRefinement, TLAPS

\* What is known of a verdict travels with it: from the inbox row to the report, to
\* the delivery, to the answer a flush holds and to the outbox.
MessageInv(m) ==
    /\ Vouched(m, outbox[m].status)
    /\ Vouched(m, delivery[m].status)
    /\ \A f \in Flushes :
        /\ Vouched(m, flight[f][m].answer)
        /\ flight[f][m].step = "answered" => flight[f][m].answer # "none"
    /\ inbox[m].status \in {"processed", "delivered"} => executed[m]
    /\ work[m] \in {"execute", "executed", "threw"} => inbox[m].status = "processing"
    /\ work[m] = "executed" => executed[m]
    /\ work[m] \in {"reported", "unreported"} => Reportable(m)
    /\ work[m] = "ack" => inbox[m].status # "absent"
    /\ inbox[m].status # "absent" => inbox[m].token # NoToken
    /\ delivery[m].status = "queued" => delivery[m].attempt < MaxAttempts
    /\ delivery[m].status = "dead" => delivery[m].token = NoToken
    /\ losses = 0 /\ work[m] = "reported" =>
        delivery[m].status = IF inbox[m].status = "dead" THEN "failed" ELSE "delivered"
    /\ losses = 0 /\ inbox[m].status \in Verdict => delivery[m].status = inbox[m].status
    /\ verdicts[m] <= losses + (IF delivery[m].status \in Verdict THEN 1 ELSE 0)

IInv == TypeOK /\ \A m \in Messages : MessageInv(m)

-----------------------------------------------------------------------------
(* The steps. *)

\* A claim moves unfinished rows only, and leaves every token alone.
LEMMA ClaimedRows ==
    ASSUME FederationDeliveryAssumption, TypeOK, NEW m \in Messages, ClaimInboxRow(m)
    PROVE  /\ inbox' \in [Messages -> InboxRow]
           /\ inbox'[m].status = "processing"
           /\ \A n \in Messages :
                /\ inbox'[n].token = inbox[n].token
                /\ \/ inbox'[n].status = inbox[n].status
                   \/ /\ inbox[n].status \in {"received", "retry", "processing"}
                      /\ inbox'[n].status \in {"retry", "processing"}
<1> DEFINE rows(orphans) == [n \in Messages |->
              IF n \in orphans THEN [inbox[n] EXCEPT !.status = "retry"] ELSE inbox[n]]
<1>1. PICK orphans \in SUBSET {n \in Messages : inbox[n].status = "processing"} :
         /\ rows(orphans)[m].status \in {"received", "retry"}
         /\ inbox' = [rows(orphans) EXCEPT ![m] = Claimed(rows(orphans)[m])]
  BY DEF ClaimInboxRow
<1>2. ASSUME NEW row \in InboxRow
      PROVE  /\ [row EXCEPT !.status = "retry"] \in InboxRow
             /\ Claimed(row) \in InboxRow
             /\ Claimed(row).status = "processing" /\ Claimed(row).token = row.token
  BY DEF FederationDeliveryAssumption, Claimed, OneMore, InboxRow
<1>3. inbox \in [Messages -> InboxRow]
  BY DEF TypeOK
<1>4. ASSUME NEW n \in Messages
      PROVE  /\ rows(orphans)[n] \in InboxRow
             /\ rows(orphans)[n].token = inbox[n].token
             /\ \/ rows(orphans)[n].status = inbox[n].status
                \/ inbox[n].status = "processing" /\ rows(orphans)[n].status = "retry"
  BY <1>2, <1>3 DEF InboxRow
<1>5. rows(orphans) \in [Messages -> InboxRow]
  BY <1>4
<1>6. ASSUME NEW n \in Messages
      PROVE  inbox'[n] = IF n = m THEN Claimed(rows(orphans)[m]) ELSE rows(orphans)[n]
  BY <1>1
<1> HIDE DEF rows
<1>7. inbox' \in [Messages -> InboxRow]
  BY <1>1, <1>2, <1>5
<1>8. inbox'[m].status = "processing"
  <2>1. inbox'[m] = Claimed(rows(orphans)[m]) /\ rows(orphans)[m] \in InboxRow
    BY <1>4, <1>6
  <2>2. QED
    BY <1>2, <2>1
<1>9. ASSUME NEW n \in Messages
      PROVE  /\ inbox'[n].token = inbox[n].token
             /\ \/ inbox'[n].status = inbox[n].status
                \/ /\ inbox[n].status \in {"received", "retry", "processing"}
                   /\ inbox'[n].status \in {"retry", "processing"}
  <2>1. CASE n = m
    <3>1. Claimed(rows(orphans)[m]).token = rows(orphans)[m].token
      BY <1>2, <1>4
    <3>2. inbox[m].status \in {"received", "retry", "processing"}
      BY <1>1, <1>4
    <3>3. QED
      BY <1>4, <1>6, <1>8, <2>1, <3>1, <3>2
  <2>2. CASE n # m
    BY <1>4, <1>6, <2>2
  <2>3. QED
    BY <2>1, <2>2
<1>10. QED
  BY <1>7, <1>8, <1>9

\* Every step keeps every variable to its type.
LEMMA TypeStep ==
    ASSUME IInv, [Next]_vars
    PROVE  TypeOK'
<1>0. TypeOK /\ \A m \in Messages : MessageInv(m)
  BY DEF IInv
<1> USE FederationDeliveryAssumption, <1>0
    DEF Unsent, Settled, OutboxRow, Flight, NoFlight, Absent, Verdict, Delivery, InboxRow,
        Step, Token, NoToken, originVars, hostVars, targetVars
<1>1. CASE UNCHANGED vars
  BY <1>1 DEF vars, TypeOK
<1>2. ASSUME NEW m \in Messages, EnqueueFederationEnvelope(m)
      PROVE  TypeOK'
  <2>1. \A row \in OutboxRow : [row EXCEPT !.status = "queued"] \in OutboxRow
    OBVIOUS
  <2>2. outbox' \in [Messages -> OutboxRow]
    BY <1>2, <2>1 DEF EnqueueFederationEnvelope, TypeOK
  <2>3. QED
    BY <1>2, <2>2 DEF EnqueueFederationEnvelope, TypeOK
<1>3. ASSUME NEW m \in Messages, RequeueFederationOutbox(m)
      PROVE  TypeOK'
  BY <1>3 DEF RequeueFederationOutbox, TypeOK
<1>4. ASSUME NEW f \in Flushes, FlushRead(f)
      PROVE  TypeOK'
  BY <1>4 DEF FlushRead, TypeOK
<1>5. ASSUME NEW f \in Flushes, NEW m \in Messages, FlushExpired(f, m)
      PROVE  TypeOK'
  <2>1. \A row \in OutboxRow : [row EXCEPT !.status = "expired"] \in OutboxRow
    OBVIOUS
  <2>2. outbox' \in [Messages -> OutboxRow]
    BY <1>5, <2>1 DEF FlushExpired, TypeOK
  <2>3. QED
    BY <1>5, <2>2 DEF FlushExpired, TypeOK
<1>6. ASSUME NEW f \in Flushes, NEW m \in Messages, HostRefuses(f, m)
      PROVE  TypeOK'
  BY <1>6 DEF HostRefuses, Answered, TypeOK
<1>7. ASSUME NEW f \in Flushes, NEW m \in Messages, FlushUpdate(f, m)
      PROVE  TypeOK'
  <2>0. flight[f][m] \in Flight /\ outbox[m] \in OutboxRow
    BY <1>7 DEF TypeOK
  <2>1. outbox'[m].status \in Unsent \cup Settled /\ outbox'[m] \in OutboxRow
    <3>1. outbox' = [outbox EXCEPT ![m] = outbox'[m]]
      BY <1>7 DEF FlushUpdate, TypeOK
    <3>2. OneMore(outbox[m].attempt, OutboxMaxAttempts) \in 0..OutboxMaxAttempts
      BY <2>0 DEF OneMore
    <3>3. outbox'[m].status \in Unsent \cup Settled
      <4>1. flight[f][m].answer # "none"
        BY <1>7 DEF FlushUpdate, MessageInv
      <4>2. QED
        BY <1>7, <2>0, <4>1 DEF FlushUpdate, TypeOK
    <3>4. QED
      BY <1>7, <3>2, <3>3 DEF FlushUpdate, TypeOK
  <2>2. outbox' \in [Messages -> OutboxRow]
    BY <1>7, <2>1 DEF FlushUpdate, TypeOK
  <2>3. flight' \in [Flushes -> [Messages -> Flight]]
    BY <1>7 DEF FlushUpdate, TypeOK
  <2>4. QED
    BY <1>7, <2>2, <2>3 DEF FlushUpdate, TypeOK
<1>8. ASSUME NEW f \in Flushes, NEW m \in Messages, NEW answered \in BOOLEAN,
               HostAccepts(f, m, answered)
      PROVE  TypeOK'
  <2>1. delivery[m] \in Delivery /\ flight[f][m] \in Flight
    BY DEF TypeOK
  <2>2. [Absent EXCEPT !.status = "queued"] \in Delivery
    OBVIOUS
  <2>3. delivery' \in [Messages -> Delivery]
    BY <1>8, <2>1, <2>2 DEF HostAccepts, TypeOK
  <2>4. \A d \in Delivery : Answer(d.status) \in {"none", "open", "error"} \cup Settled
    BY DEF Answer
  <2>5. PICK answer \in {"none", "open", "error"} \cup Settled : flight' = Answered(f, m, answer)
    BY <1>8, <2>1, <2>2, <2>4 DEF HostAccepts
  <2>6. flight' \in [Flushes -> [Messages -> Flight]]
    BY <2>1, <2>5 DEF Answered, TypeOK
  <2>7. QED
    BY <1>8, <2>3, <2>6 DEF HostAccepts, TypeOK
<1>9. ASSUME OriginRestarts
      PROVE  TypeOK'
  BY <1>9 DEF OriginRestarts, TypeOK
<1>10. ASSUME NEW lapsed \in SUBSET Held, NEW answered \in BOOLEAN,
               PullFederationMessages(lapsed, answered)
      PROVE  TypeOK'
  <2>1. ASSUME NEW n \in Messages
        PROVE  Swept(n, lapsed) \in Delivery
    <3>1. delivery[n] \in Delivery /\ Reclaimed(delivery[n]) \in Delivery
      BY DEF TypeOK, Reclaimed
    <3>2. ASSUME NEW d \in Delivery
          PROVE  [d EXCEPT !.status = "expired"] \in Delivery
      OBVIOUS
    <3>3. QED
      BY <3>1, <3>2 DEF Swept
  <2>2. ASSUME NEW n \in Messages, Swept(n, lapsed).status = "queued"
        PROVE  Swept(n, lapsed).attempt + 1 \in 0..MaxAttempts
    <3>1. Swept(n, lapsed).attempt < MaxAttempts
      BY <2>2 DEF Swept, Reclaimed, MessageInv, TypeOK
    <3>2. QED
      BY <2>1, <3>1
  <2>3. QED
    BY <1>10, <2>1, <2>2 DEF PullFederationMessages, TypeOK
<1>11. ASSUME NEW m \in Messages, StoreInbox(m)
      PROVE  TypeOK'
  BY <1>11 DEF StoreInbox, TypeOK
<1>12. ASSUME NEW m \in Messages, ReconcileAcknowledgement(m)
      PROVE  TypeOK'
  BY <1>12 DEF ReconcileAcknowledgement, TypeOK
<1>13. ASSUME NEW m \in Messages, AcknowledgementFails(m)
      PROVE  TypeOK'
  BY <1>13 DEF AcknowledgementFails, TypeOK
<1>14. ASSUME NEW m \in Messages, RecordAcknowledgement(m)
      PROVE  TypeOK'
  <2>1. \A row \in InboxRow : \A s \in {"received", "awaiting_ack"} :
           [row EXCEPT !.status = s] \in InboxRow
    OBVIOUS
  <2>2. inbox' \in [Messages -> InboxRow]
    BY <1>14, <2>1 DEF RecordAcknowledgement, TypeOK
  <2>3. QED
    BY <1>14, <2>2 DEF RecordAcknowledgement, TypeOK
<1>15. ASSUME NEW m \in Messages, ClaimInboxRow(m)
      PROVE  TypeOK'
  <2>1. inbox' \in [Messages -> InboxRow]
    BY <1>15, ClaimedRows
  <2>2. QED
    BY <1>15, <2>1 DEF ClaimInboxRow, TypeOK
<1>16. ASSUME NEW m \in Messages, ProcessInboxEnvelope(m)
      PROVE  TypeOK'
  BY <1>16 DEF ProcessInboxEnvelope, TypeOK
<1>17. ASSUME NEW m \in Messages, RecordProcessing(m)
      PROVE  TypeOK'
  <2>1. \A s \in {"processed", "dead", "retry"} : [inbox[m] EXCEPT !.status = s] \in InboxRow
    BY ZenonT(30) DEF TypeOK
  <2>2. inbox' \in [Messages -> InboxRow]
    BY <1>17, <2>1 DEF RecordProcessing, TypeOK
  <2>3. QED
    BY <1>17, <2>2 DEF RecordProcessing, TypeOK
<1>18. ASSUME NEW m \in Messages, ReportFails(m)
      PROVE  TypeOK'
  BY <1>18 DEF ReportFails, TypeOK
<1>19. ASSUME NEW m \in Messages, RecordReport(m)
      PROVE  TypeOK'
  <2>1. \A s \in Verdict : [inbox[m] EXCEPT !.status = s] \in InboxRow
    BY ZenonT(30) DEF TypeOK
  <2>2. inbox' \in [Messages -> InboxRow]
    BY <1>19, <2>1 DEF RecordReport, TypeOK
  <2>3. QED
    BY <1>19, <2>2 DEF RecordReport, TypeOK
<1>20. ASSUME NEW m \in Messages, NEW answered \in BOOLEAN,
               HostAcknowledges(m, answered)
      PROVE  TypeOK'
  BY <1>20, SMTT(30) DEF HostAcknowledges, TypeOK
<1>21. ASSUME NEW m \in Messages, NEW answered \in BOOLEAN,
               HostCompletes(m, answered)
      PROVE  TypeOK'
  <2>1. delivery' \in [Messages -> Delivery]
    <3>1. \A s \in Verdict :
            [status |-> s, attempt |-> delivery[m].attempt, token |-> NoToken] \in Delivery
      BY DEF TypeOK
    <3>2. \/ delivery' = delivery
          \/ \E s \in Verdict : delivery' = [delivery EXCEPT ![m] =
                [status |-> s, attempt |-> delivery[m].attempt, token |-> NoToken]]
      BY <1>21 DEF HostCompletes
    <3>3. \/ delivery' = delivery
          \/ \E row \in Delivery : delivery' = [delivery EXCEPT ![m] = row]
      BY <3>1, <3>2
    <3>4. QED
      BY <3>3 DEF TypeOK
  <2>2. verdicts' \in [Messages -> Nat]
    <3>1. verdicts[m] + 1 \in Nat
      BY DEF TypeOK
    <3>2. verdicts' = verdicts \/ verdicts' = [verdicts EXCEPT ![m] = verdicts[m] + 1]
      BY <1>21 DEF HostCompletes
    <3>3. QED
      BY <3>1, <3>2 DEF TypeOK
  <2>3. QED
    BY <1>21, <2>1, <2>2 DEF HostCompletes, TypeOK
<1>22. ASSUME TargetRestarts
      PROVE  TypeOK'
  BY <1>22 DEF TargetRestarts, TypeOK
<1>23. ASSUME HostLosesDatabase
      PROVE  TypeOK'
  BY <1>23 DEF HostLosesDatabase, TypeOK
<1>24. ASSUME NEW m \in Messages, Expire(m)
      PROVE  TypeOK'
  BY <1>24 DEF Expire, TypeOK
<1>25. QED
  BY ONLY [Next]_vars, <1>1, <1>2, <1>3, <1>4, <1>5, <1>6, <1>7, <1>8, <1>9, <1>10, <1>11, <1>12,
     <1>13, <1>14, <1>15, <1>16, <1>17, <1>18, <1>19, <1>20, <1>21, <1>22, <1>23,
     <1>24
  DEF Next, OriginStep, TargetStep

\* Every step keeps what is known of each message.
LEMMA MessageStep ==
    ASSUME IInv, [Next]_vars, NEW n \in Messages
    PROVE  MessageInv(n)'
<1>0. TypeOK /\ \A m \in Messages : MessageInv(m)
  BY DEF IInv
<1> USE FederationDeliveryAssumption, <1>0
    DEF MessageInv, Vouched, Reportable, Verdict, NoToken, NoFlight, Absent, Idle, FindsDelivery,
        Takes, TypeOK, Delivery, InboxRow, Token, Settled, originVars, hostVars, targetVars
<1>1. CASE UNCHANGED vars
  BY <1>1 DEF vars
<1>2. ASSUME NEW m \in Messages, EnqueueFederationEnvelope(m)
      PROVE  MessageInv(n)'
  BY <1>2 DEF EnqueueFederationEnvelope
<1>3. ASSUME NEW m \in Messages, RequeueFederationOutbox(m)
      PROVE  MessageInv(n)'
  BY <1>3 DEF RequeueFederationOutbox
<1>4. ASSUME NEW f \in Flushes, FlushRead(f)
      PROVE  MessageInv(n)'
  BY <1>4 DEF FlushRead
<1>5. ASSUME NEW f \in Flushes, NEW m \in Messages, FlushExpired(f, m)
      PROVE  MessageInv(n)'
  BY <1>5 DEF FlushExpired
<1>6. ASSUME NEW f \in Flushes, NEW m \in Messages, HostRefuses(f, m)
      PROVE  MessageInv(n)'
  BY <1>6 DEF HostRefuses, Answered
<1>7. ASSUME NEW f \in Flushes, NEW m \in Messages, FlushUpdate(f, m)
      PROVE  MessageInv(n)'
  BY <1>7 DEF FlushUpdate, OneMore
<1>8. ASSUME NEW f \in Flushes, NEW m \in Messages, NEW answered \in BOOLEAN,
               HostAccepts(f, m, answered)
      PROVE  MessageInv(n)'
  BY <1>8 DEF HostAccepts, Answered, Answer
<1>9. ASSUME OriginRestarts
      PROVE  MessageInv(n)'
  BY <1>9 DEF OriginRestarts
<1>10. ASSUME NEW lapsed \in SUBSET Held, NEW answered \in BOOLEAN,
               PullFederationMessages(lapsed, answered)
      PROVE  MessageInv(n)'
  BY <1>10 DEF PullFederationMessages, Swept, Reclaimed, Held
<1>11. ASSUME NEW m \in Messages, StoreInbox(m)
      PROVE  MessageInv(n)'
  BY <1>11 DEF StoreInbox
<1>12. ASSUME NEW m \in Messages, ReconcileAcknowledgement(m)
      PROVE  MessageInv(n)'
  BY <1>12 DEF ReconcileAcknowledgement
<1>13. ASSUME NEW m \in Messages, AcknowledgementFails(m)
      PROVE  MessageInv(n)'
  BY <1>13 DEF AcknowledgementFails
<1>14. ASSUME NEW m \in Messages, RecordAcknowledgement(m)
      PROVE  MessageInv(n)'
  BY <1>14 DEF RecordAcknowledgement
<1>15. ASSUME NEW m \in Messages, ClaimInboxRow(m)
      PROVE  MessageInv(n)'
  <2>1. /\ work' = [work EXCEPT ![m] = "execute"]
        /\ UNCHANGED <<originVars, hostVars, executed>>
    BY <1>15 DEF ClaimInboxRow
  <2>2. /\ inbox'[m].status = "processing"
        /\ inbox'[n].token = inbox[n].token
        /\ \/ inbox'[n].status = inbox[n].status
           \/ /\ inbox[n].status \in {"received", "retry", "processing"}
              /\ inbox'[n].status \in {"retry", "processing"}
    BY <1>15, ClaimedRows
  <2>3. work[n] = "none"
    BY <1>15 DEF ClaimInboxRow
  <2>4. QED
    BY <2>1, <2>2, <2>3
<1>16. ASSUME NEW m \in Messages, ProcessInboxEnvelope(m)
      PROVE  MessageInv(n)'
  BY <1>16 DEF ProcessInboxEnvelope
<1>17. ASSUME NEW m \in Messages, RecordProcessing(m)
      PROVE  MessageInv(n)'
  BY <1>17 DEF RecordProcessing
<1>18. ASSUME NEW m \in Messages, ReportFails(m)
      PROVE  MessageInv(n)'
  BY <1>18 DEF ReportFails
<1>19. ASSUME NEW m \in Messages, RecordReport(m)
      PROVE  MessageInv(n)'
  BY <1>19 DEF RecordReport
<1>20. ASSUME NEW m \in Messages, NEW answered \in BOOLEAN,
               HostAcknowledges(m, answered)
      PROVE  MessageInv(n)'
  BY <1>20 DEF HostAcknowledges
<1>21. ASSUME NEW m \in Messages, NEW answered \in BOOLEAN,
               HostCompletes(m, answered)
      PROVE  MessageInv(n)'
  BY <1>21 DEF HostCompletes
<1>22. ASSUME TargetRestarts
      PROVE  MessageInv(n)'
  BY <1>22 DEF TargetRestarts
<1>23. ASSUME HostLosesDatabase
      PROVE  MessageInv(n)'
  BY <1>23 DEF HostLosesDatabase
<1>24. ASSUME NEW m \in Messages, Expire(m)
      PROVE  MessageInv(n)'
  BY <1>24 DEF Expire
<1>25. QED
  BY ONLY [Next]_vars, <1>1, <1>2, <1>3, <1>4, <1>5, <1>6, <1>7, <1>8, <1>9, <1>10, <1>11, <1>12,
     <1>13, <1>14, <1>15, <1>16, <1>17, <1>18, <1>19, <1>20, <1>21, <1>22, <1>23,
     <1>24
  DEF Next, OriginStep, TargetStep

-----------------------------------------------------------------------------
(* The theorems. *)

\* Nothing has been sent.
LEMMA InitIInv == Init => IInv
<1> USE FederationDeliveryAssumption
    DEF Init, Unsent, Settled, OutboxRow, Flight, NoFlight, Absent, Verdict, Delivery, InboxRow,
        Step, Token, NoToken
<1>1. Init => TypeOK
  BY DEF TypeOK
<1>2. ASSUME Init, NEW m \in Messages
      PROVE  MessageInv(m)
  BY <1>2 DEF MessageInv, Vouched, Reportable
<1>3. QED
  BY <1>1, <1>2 DEF IInv

\* The three databases and the requests between them never contradict each other.
THEOREM Invariance == Spec => []IInv
<1>1. IInv /\ [Next]_vars => IInv'
  BY TypeStep, MessageStep DEF IInv
<1>2. QED
  BY InitIInv, <1>1, PTL DEF Spec

\* Every variable keeps to its type.
THEOREM TypeCorrect == Spec => []TypeOK
<1>1. IInv => TypeOK
  BY DEF IInv
<1>2. QED
  BY Invariance, <1>1, PTL

\* A verdict shown to the origin is the target's own (HostCompletes, HostAccepts and
\* FlushUpdate only pass it on), whatever is lost, repeated or stopped on the way.
THEOREM VerdictIsTheTargetsHolds == Spec => []VerdictIsTheTargets
<1>1. IInv => VerdictIsTheTargets
  BY DEF IInv, MessageInv, VerdictIsTheTargets
<1>2. QED
  BY Invariance, <1>1, PTL

\* A report repeated because its answer was lost adds no receipt
\* (completeFederationMessage); only a lost database makes room for another.
THEOREM OneReceiptHolds == Spec => []OneReceipt
<1>1. IInv => OneReceipt
  <2>1. ASSUME IInv, NEW m \in Messages
        PROVE  verdicts[m] <= losses + 1
    <3>1. verdicts[m] \in Nat /\ losses \in Nat
      BY <2>1, FederationDeliveryAssumption DEF IInv, TypeOK
    <3>2. verdicts[m] <= losses + (IF delivery[m].status \in Verdict THEN 1 ELSE 0)
      BY <2>1 DEF IInv, MessageInv
    <3>3. QED
      BY <3>1, <3>2
  <2>2. QED
    BY <2>1 DEF OneReceipt
<1>2. QED
  BY Invariance, <1>1, PTL

\* Once the target is done the Host agrees with it, while it keeps its database.
THEOREM FinalRowsAgreeHolds == Spec => []FinalRowsAgree
<1>1. IInv => FinalRowsAgree
  BY DEF IInv, MessageInv, FinalRowsAgree
<1>2. QED
  BY Invariance, <1>1, PTL

HostKeeps(m) ==
    delivery[m].status \in Verdict \cup {"dead"} /\ delivery'[m] # delivery[m] => losses' > losses

TargetKeeps(m) ==
    inbox[m].status \in Done => inbox'[m].status \in Done /\ executed'[m] = executed[m]

\* No step but the loss of the database moves a delivery that has its verdict.
LEMMA VerdictStep ==
    ASSUME IInv, [Next]_vars, NEW n \in Messages
    PROVE  HostKeeps(n)
<1>0. TypeOK /\ MessageInv(n)
  BY DEF IInv
<1> USE FederationDeliveryAssumption, <1>0
    DEF MessageInv, Reportable, Verdict, NoToken, Absent, FindsDelivery, TypeOK, Delivery, Token,
        HostKeeps, originVars, hostVars, targetVars
<1>1. CASE UNCHANGED vars
  BY <1>1 DEF vars
<1>2. ASSUME NEW m \in Messages, EnqueueFederationEnvelope(m)
      PROVE  HostKeeps(n)
  BY <1>2 DEF EnqueueFederationEnvelope
<1>3. ASSUME NEW m \in Messages, RequeueFederationOutbox(m)
      PROVE  HostKeeps(n)
  BY <1>3 DEF RequeueFederationOutbox
<1>4. ASSUME NEW f \in Flushes, FlushRead(f)
      PROVE  HostKeeps(n)
  BY <1>4 DEF FlushRead
<1>5. ASSUME NEW f \in Flushes, NEW m \in Messages, FlushExpired(f, m)
      PROVE  HostKeeps(n)
  BY <1>5 DEF FlushExpired
<1>6. ASSUME NEW f \in Flushes, NEW m \in Messages, HostRefuses(f, m)
      PROVE  HostKeeps(n)
  BY <1>6 DEF HostRefuses, Answered
<1>7. ASSUME NEW f \in Flushes, NEW m \in Messages, FlushUpdate(f, m)
      PROVE  HostKeeps(n)
  BY <1>7 DEF FlushUpdate, OneMore
<1>8. ASSUME NEW f \in Flushes, NEW m \in Messages, NEW answered \in BOOLEAN,
               HostAccepts(f, m, answered)
      PROVE  HostKeeps(n)
  BY <1>8 DEF HostAccepts, Answered, Answer
<1>9. ASSUME OriginRestarts
      PROVE  HostKeeps(n)
  BY <1>9 DEF OriginRestarts
<1>10. ASSUME NEW lapsed \in SUBSET Held, NEW answered \in BOOLEAN,
               PullFederationMessages(lapsed, answered)
      PROVE  HostKeeps(n)
  BY <1>10 DEF PullFederationMessages, Swept, Reclaimed, Held
<1>11. ASSUME NEW m \in Messages, StoreInbox(m)
      PROVE  HostKeeps(n)
  BY <1>11 DEF StoreInbox
<1>12. ASSUME NEW m \in Messages, ReconcileAcknowledgement(m)
      PROVE  HostKeeps(n)
  BY <1>12 DEF ReconcileAcknowledgement
<1>13. ASSUME NEW m \in Messages, AcknowledgementFails(m)
      PROVE  HostKeeps(n)
  BY <1>13 DEF AcknowledgementFails
<1>14. ASSUME NEW m \in Messages, RecordAcknowledgement(m)
      PROVE  HostKeeps(n)
  BY <1>14 DEF RecordAcknowledgement
<1>15. ASSUME NEW m \in Messages, ClaimInboxRow(m)
      PROVE  HostKeeps(n)
  BY <1>15 DEF ClaimInboxRow
<1>16. ASSUME NEW m \in Messages, ProcessInboxEnvelope(m)
      PROVE  HostKeeps(n)
  BY <1>16 DEF ProcessInboxEnvelope
<1>17. ASSUME NEW m \in Messages, RecordProcessing(m)
      PROVE  HostKeeps(n)
  BY <1>17 DEF RecordProcessing
<1>18. ASSUME NEW m \in Messages, ReportFails(m)
      PROVE  HostKeeps(n)
  BY <1>18 DEF ReportFails
<1>19. ASSUME NEW m \in Messages, RecordReport(m)
      PROVE  HostKeeps(n)
  BY <1>19 DEF RecordReport
<1>20. ASSUME NEW m \in Messages, NEW answered \in BOOLEAN,
               HostAcknowledges(m, answered)
      PROVE  HostKeeps(n)
  BY <1>20 DEF HostAcknowledges
<1>21. ASSUME NEW m \in Messages, NEW answered \in BOOLEAN,
               HostCompletes(m, answered)
      PROVE  HostKeeps(n)
  BY <1>21 DEF HostCompletes
<1>22. ASSUME TargetRestarts
      PROVE  HostKeeps(n)
  BY <1>22 DEF TargetRestarts
<1>23. ASSUME HostLosesDatabase
      PROVE  HostKeeps(n)
  BY <1>23 DEF HostLosesDatabase
<1>24. ASSUME NEW m \in Messages, Expire(m)
      PROVE  HostKeeps(n)
  BY <1>24 DEF Expire
<1>25. QED
  BY ONLY [Next]_vars, <1>1, <1>2, <1>3, <1>4, <1>5, <1>6, <1>7, <1>8, <1>9, <1>10, <1>11, <1>12,
     <1>13, <1>14, <1>15, <1>16, <1>17, <1>18, <1>19, <1>20, <1>21, <1>22, <1>23,
     <1>24
  DEF Next, OriginStep, TargetStep

\* No step takes a finished row of the inbox up again.
LEMMA DoneStep ==
    ASSUME IInv, [Next]_vars, NEW n \in Messages
    PROVE  TargetKeeps(n)
<1>0. TypeOK /\ MessageInv(n)
  BY DEF IInv
<1> USE FederationDeliveryAssumption, <1>0
    DEF MessageInv, Reportable, Verdict, InboxRow, Done, TargetKeeps, NoToken, Absent,
        FindsDelivery, TypeOK, Delivery, Token, originVars, hostVars, targetVars
<1>1. CASE UNCHANGED vars
  BY <1>1 DEF vars
<1>2. ASSUME NEW m \in Messages, EnqueueFederationEnvelope(m)
      PROVE  TargetKeeps(n)
  BY <1>2 DEF EnqueueFederationEnvelope
<1>3. ASSUME NEW m \in Messages, RequeueFederationOutbox(m)
      PROVE  TargetKeeps(n)
  BY <1>3 DEF RequeueFederationOutbox
<1>4. ASSUME NEW f \in Flushes, FlushRead(f)
      PROVE  TargetKeeps(n)
  BY <1>4 DEF FlushRead
<1>5. ASSUME NEW f \in Flushes, NEW m \in Messages, FlushExpired(f, m)
      PROVE  TargetKeeps(n)
  BY <1>5 DEF FlushExpired
<1>6. ASSUME NEW f \in Flushes, NEW m \in Messages, HostRefuses(f, m)
      PROVE  TargetKeeps(n)
  BY <1>6 DEF HostRefuses, Answered
<1>7. ASSUME NEW f \in Flushes, NEW m \in Messages, FlushUpdate(f, m)
      PROVE  TargetKeeps(n)
  BY <1>7 DEF FlushUpdate, OneMore
<1>8. ASSUME NEW f \in Flushes, NEW m \in Messages, NEW answered \in BOOLEAN,
               HostAccepts(f, m, answered)
      PROVE  TargetKeeps(n)
  BY <1>8 DEF HostAccepts, Answered, Answer
<1>9. ASSUME OriginRestarts
      PROVE  TargetKeeps(n)
  BY <1>9 DEF OriginRestarts
<1>10. ASSUME NEW lapsed \in SUBSET Held, NEW answered \in BOOLEAN,
               PullFederationMessages(lapsed, answered)
      PROVE  TargetKeeps(n)
  BY <1>10 DEF PullFederationMessages, Swept, Reclaimed, Held
<1>11. ASSUME NEW m \in Messages, StoreInbox(m)
      PROVE  TargetKeeps(n)
  BY <1>11 DEF StoreInbox
<1>12. ASSUME NEW m \in Messages, ReconcileAcknowledgement(m)
      PROVE  TargetKeeps(n)
  BY <1>12 DEF ReconcileAcknowledgement
<1>13. ASSUME NEW m \in Messages, AcknowledgementFails(m)
      PROVE  TargetKeeps(n)
  BY <1>13 DEF AcknowledgementFails
<1>14. ASSUME NEW m \in Messages, RecordAcknowledgement(m)
      PROVE  TargetKeeps(n)
  BY <1>14 DEF RecordAcknowledgement
<1>15. ASSUME NEW m \in Messages, ClaimInboxRow(m)
      PROVE  TargetKeeps(n)
  <2>1. UNCHANGED executed
    BY <1>15 DEF ClaimInboxRow
  <2>2. QED
    BY <1>15, <2>1, ClaimedRows
<1>16. ASSUME NEW m \in Messages, ProcessInboxEnvelope(m)
      PROVE  TargetKeeps(n)
  BY <1>16 DEF ProcessInboxEnvelope
<1>17. ASSUME NEW m \in Messages, RecordProcessing(m)
      PROVE  TargetKeeps(n)
  BY <1>17 DEF RecordProcessing
<1>18. ASSUME NEW m \in Messages, ReportFails(m)
      PROVE  TargetKeeps(n)
  BY <1>18 DEF ReportFails
<1>19. ASSUME NEW m \in Messages, RecordReport(m)
      PROVE  TargetKeeps(n)
  BY <1>19 DEF RecordReport
<1>20. ASSUME NEW m \in Messages, NEW answered \in BOOLEAN,
               HostAcknowledges(m, answered)
      PROVE  TargetKeeps(n)
  BY <1>20 DEF HostAcknowledges
<1>21. ASSUME NEW m \in Messages, NEW answered \in BOOLEAN,
               HostCompletes(m, answered)
      PROVE  TargetKeeps(n)
  BY <1>21 DEF HostCompletes
<1>22. ASSUME TargetRestarts
      PROVE  TargetKeeps(n)
  BY <1>22 DEF TargetRestarts
<1>23. ASSUME HostLosesDatabase
      PROVE  TargetKeeps(n)
  BY <1>23 DEF HostLosesDatabase
<1>24. ASSUME NEW m \in Messages, Expire(m)
      PROVE  TargetKeeps(n)
  BY <1>24 DEF Expire
<1>25. QED
  BY ONLY [Next]_vars, <1>1, <1>2, <1>3, <1>4, <1>5, <1>6, <1>7, <1>8, <1>9, <1>10, <1>11, <1>12,
     <1>13, <1>14, <1>15, <1>16, <1>17, <1>18, <1>19, <1>20, <1>21, <1>22, <1>23,
     <1>24
  DEF Next, OriginStep, TargetStep

\* No reclaim, sweep, repeated request or old token changes what the Host gave a
\* verdict on or gave up (reclaimExpiredDeliveriesTx, pullOnce, findDeliveryForLease).
THEOREM HostVerdictStandsHolds == Spec => HostVerdictStands
<1>1. IInv /\ [Next]_vars => [\A m \in Messages : HostKeeps(m)]_vars
  BY VerdictStep
<1>2. QED
  BY Invariance, <1>1, PTL DEF Spec, HostVerdictStands, HostKeeps

\* A message the target is done with is not carried out again (claimInboxRow, and the
\* ON CONFLICT clause of pullFederationInboxOnce), even after the Host lost its data.
THEOREM DoneOnceHolds == Spec => DoneOnce
<1>1. IInv /\ [Next]_vars => [\A m \in Messages : TargetKeeps(m)]_vars
  BY DoneStep
<1>2. QED
  BY Invariance, <1>1, PTL DEF Spec, DoneOnce, TargetKeeps

-----------------------------------------------------------------------------
(* What is given up stays unreported.                                          *)

\* The Host gave the message up: it is dead, or was swept out while it had no lease.
\* Nobody holds a token for it.
GivenUp(m) == delivery[m].status \in {"dead", "expired"} /\ delivery[m].token = NoToken

\* The Host gives up in a pull only, when no report is under way.
GivenUpInv(m) == GivenUp(m) => work[m] # "reported"

GivenUpStays(m) ==
    /\ GivenUpInv(m)'
    /\ GivenUp(m) /\ losses' = losses =>
         /\ GivenUp(m)'
         /\ verdicts'[m] = verdicts[m]
         /\ inbox'[m].status \in Verdict <=> inbox[m].status \in Verdict

\* A row that the Host gave up is processed and reported over and over, and never
\* becomes final, whatever its target made of it, until the Host loses its data.
GivenUpIsNeverReported ==
    [][\A m \in Messages : GivenUp(m) /\ losses' = losses =>
         /\ GivenUp(m)'
         /\ verdicts'[m] = verdicts[m]
         /\ inbox'[m].status \in Verdict <=> inbox[m].status \in Verdict]_vars

\* No step takes back that the Host gave up, or reports it.
LEMMA GivenUpStep ==
    ASSUME IInv, [Next]_vars, NEW n \in Messages, GivenUpInv(n)
    PROVE  GivenUpStays(n)
<1>0. TypeOK /\ MessageInv(n)
  BY DEF IInv
<1> USE FederationDeliveryAssumption, <1>0
    DEF MessageInv, GivenUpInv, Reportable, Verdict, NoToken, Absent, FindsDelivery, TypeOK, Delivery, Token,
        GivenUpStays, GivenUp, originVars, hostVars, targetVars
<1>1. CASE UNCHANGED vars
  BY <1>1 DEF vars
<1>2. ASSUME NEW m \in Messages, EnqueueFederationEnvelope(m)
      PROVE  GivenUpStays(n)
  BY <1>2 DEF EnqueueFederationEnvelope
<1>3. ASSUME NEW m \in Messages, RequeueFederationOutbox(m)
      PROVE  GivenUpStays(n)
  BY <1>3 DEF RequeueFederationOutbox
<1>4. ASSUME NEW f \in Flushes, FlushRead(f)
      PROVE  GivenUpStays(n)
  BY <1>4 DEF FlushRead
<1>5. ASSUME NEW f \in Flushes, NEW m \in Messages, FlushExpired(f, m)
      PROVE  GivenUpStays(n)
  BY <1>5 DEF FlushExpired
<1>6. ASSUME NEW f \in Flushes, NEW m \in Messages, HostRefuses(f, m)
      PROVE  GivenUpStays(n)
  BY <1>6 DEF HostRefuses, Answered
<1>7. ASSUME NEW f \in Flushes, NEW m \in Messages, FlushUpdate(f, m)
      PROVE  GivenUpStays(n)
  BY <1>7 DEF FlushUpdate, OneMore
<1>8. ASSUME NEW f \in Flushes, NEW m \in Messages, NEW answered \in BOOLEAN,
               HostAccepts(f, m, answered)
      PROVE  GivenUpStays(n)
  BY <1>8 DEF HostAccepts, Answered, Answer
<1>9. ASSUME OriginRestarts
      PROVE  GivenUpStays(n)
  BY <1>9 DEF OriginRestarts
<1>10. ASSUME NEW lapsed \in SUBSET Held, NEW answered \in BOOLEAN,
               PullFederationMessages(lapsed, answered)
      PROVE  GivenUpStays(n)
  <2>1. /\ work[n] = "none"
        /\ UNCHANGED <<work, inbox, verdicts, losses>>
    BY <1>10 DEF PullFederationMessages, Idle
  <2>2. CASE GivenUp(n)
    <3>1. Swept(n, lapsed) = delivery[n] /\ Swept(n, lapsed).status # "queued"
      BY <2>2 DEF Swept, Held
    <3>2. delivery'[n] = delivery[n]
      BY <1>10, <3>1 DEF PullFederationMessages
    <3>3. QED
      BY <2>1, <2>2, <3>2
  <2>3. CASE ~GivenUp(n)
    BY <2>1, <2>3
  <2>4. QED
    BY <2>2, <2>3
<1>11. ASSUME NEW m \in Messages, StoreInbox(m)
      PROVE  GivenUpStays(n)
  BY <1>11 DEF StoreInbox
<1>12. ASSUME NEW m \in Messages, ReconcileAcknowledgement(m)
      PROVE  GivenUpStays(n)
  BY <1>12 DEF ReconcileAcknowledgement
<1>13. ASSUME NEW m \in Messages, AcknowledgementFails(m)
      PROVE  GivenUpStays(n)
  BY <1>13 DEF AcknowledgementFails
<1>14. ASSUME NEW m \in Messages, RecordAcknowledgement(m)
      PROVE  GivenUpStays(n)
  BY <1>14 DEF RecordAcknowledgement
<1>15. ASSUME NEW m \in Messages, ClaimInboxRow(m)
      PROVE  GivenUpStays(n)
  BY <1>15, ClaimedRows DEF ClaimInboxRow
<1>16. ASSUME NEW m \in Messages, ProcessInboxEnvelope(m)
      PROVE  GivenUpStays(n)
  BY <1>16 DEF ProcessInboxEnvelope
<1>17. ASSUME NEW m \in Messages, RecordProcessing(m)
      PROVE  GivenUpStays(n)
  BY <1>17 DEF RecordProcessing
<1>18. ASSUME NEW m \in Messages, ReportFails(m)
      PROVE  GivenUpStays(n)
  BY <1>18 DEF ReportFails
<1>19. ASSUME NEW m \in Messages, RecordReport(m)
      PROVE  GivenUpStays(n)
  BY <1>19 DEF RecordReport
<1>20. ASSUME NEW m \in Messages, NEW answered \in BOOLEAN,
               HostAcknowledges(m, answered)
      PROVE  GivenUpStays(n)
  BY <1>20 DEF HostAcknowledges
<1>21. ASSUME NEW m \in Messages, NEW answered \in BOOLEAN,
               HostCompletes(m, answered)
      PROVE  GivenUpStays(n)
  BY <1>21 DEF HostCompletes
<1>22. ASSUME TargetRestarts
      PROVE  GivenUpStays(n)
  BY <1>22 DEF TargetRestarts
<1>23. ASSUME HostLosesDatabase
      PROVE  GivenUpStays(n)
  BY <1>23 DEF HostLosesDatabase
<1>24. ASSUME NEW m \in Messages, Expire(m)
      PROVE  GivenUpStays(n)
  BY <1>24 DEF Expire
<1>25. QED
  BY ONLY [Next]_vars, <1>1, <1>2, <1>3, <1>4, <1>5, <1>6, <1>7, <1>8, <1>9, <1>10, <1>11, <1>12,
     <1>13, <1>14, <1>15, <1>16, <1>17, <1>18, <1>19, <1>20, <1>21, <1>22, <1>23,
     <1>24
  DEF Next, OriginStep, TargetStep

\* After the last lease lapsed findDeliveryForLease knows no token: no order of
\* requests, answers, restarts and leases lets the target report what it did
\* (reclaimExpiredDeliveriesTx, completeFederationMessage).
THEOREM GivenUpIsNeverReportedHolds == Spec => GivenUpIsNeverReported
<1> DEFINE Inv == \A m \in Messages : GivenUpInv(m)
<1>1. Init => Inv
  BY DEF Init, GivenUpInv, GivenUp, Absent
<1>2. IInv /\ Inv /\ [Next]_vars => Inv'
  BY GivenUpStep DEF GivenUpStays
<1>3. Spec => []Inv
  BY <1>1, <1>2, Invariance, PTL DEF Spec
<1>4. IInv /\ Inv /\ [Next]_vars =>
        [\A m \in Messages : GivenUp(m) /\ losses' = losses =>
           /\ GivenUp(m)'
           /\ verdicts'[m] = verdicts[m]
           /\ inbox'[m].status \in Verdict <=> inbox[m].status \in Verdict]_vars
  BY GivenUpStep DEF GivenUpStays
<1>5. QED
  BY <1>3, <1>4, Invariance, PTL DEF Spec, GivenUpIsNeverReported

-----------------------------------------------------------------------------
(* The carriage.  The mapping is by message; CarriedInv is what it needs to    *)
(* know beside IInv: nothing is anywhere before the outbox has it, and a       *)
(* verdict that is shown has its receipt.                                      *)

CarriedInv(m) ==
    /\ outbox[m].status = "absent" =>
        /\ delivery[m].status = "absent" /\ batch[m] = NoToken /\ inbox[m].status = "absent"
        /\ \A f \in Flushes : flight[f][m].step = "none"
    /\ delivery[m].status \in Verdict => verdicts[m] > 0
    /\ \A f \in Flushes : flight[f][m].answer \in Verdict => verdicts[m] > 0
    /\ outbox[m].status \in Verdict => verdicts[m] > 0

\* Every step keeps it.
LEMMA CarriedStep ==
    ASSUME IInv, IInv', [Next]_vars, NEW n \in Messages, CarriedInv(n)
    PROVE  CarriedInv(n)'
<1>0. TypeOK /\ MessageInv(n) /\ TypeOK'
  BY DEF IInv
<1> USE FederationDeliveryAssumption, <1>0
    DEF CarriedInv, MessageInv, Reportable, Verdict, NoToken, NoFlight, Absent, Idle,
        FindsDelivery, Takes, TypeOK, OutboxRow, Unsent, Settled, Flight, Delivery, InboxRow,
        Token, originVars, hostVars, targetVars
<1>1. CASE UNCHANGED vars
  BY <1>1 DEF vars
<1>2. ASSUME NEW m \in Messages, EnqueueFederationEnvelope(m)
      PROVE  CarriedInv(n)'
  BY <1>2 DEF EnqueueFederationEnvelope
<1>3. ASSUME NEW m \in Messages, RequeueFederationOutbox(m)
      PROVE  CarriedInv(n)'
  BY <1>3 DEF RequeueFederationOutbox
<1>4. ASSUME NEW f \in Flushes, FlushRead(f)
      PROVE  CarriedInv(n)'
  <2>1. PICK due \in SUBSET {m \in Messages : outbox[m].status \in Unsent} :
          flight' = [flight EXCEPT ![f] =
             [m \in Messages |->
                IF m \in due
                THEN [step |-> "read", attempt |-> outbox[m].attempt, answer |-> "none"]
                ELSE NoFlight]]
    BY <1>4 DEF FlushRead
  <2>2. ASSUME NEW g \in Flushes
        PROVE  \/ flight'[g][n] = flight[g][n]
               \/ /\ flight'[g][n].answer = "none"
                  /\ outbox[n].status = "absent" => flight'[g][n].step = "none"
    BY <2>1
  <2>3. UNCHANGED <<outbox, delivery, verdicts, batch, inbox>>
    BY <1>4 DEF FlushRead
  <2>4. QED
    BY <2>2, <2>3
<1>5. ASSUME NEW f \in Flushes, NEW m \in Messages, FlushExpired(f, m)
      PROVE  CarriedInv(n)'
  BY <1>5 DEF FlushExpired
<1>6. ASSUME NEW f \in Flushes, NEW m \in Messages, HostRefuses(f, m)
      PROVE  CarriedInv(n)'
  BY <1>6 DEF HostRefuses, Answered
<1>7. ASSUME NEW f \in Flushes, NEW m \in Messages, FlushUpdate(f, m)
      PROVE  CarriedInv(n)'
  BY <1>7 DEF FlushUpdate, OneMore
<1>8. ASSUME NEW f \in Flushes, NEW m \in Messages, NEW answered \in BOOLEAN,
               HostAccepts(f, m, answered)
      PROVE  CarriedInv(n)'
  BY <1>8 DEF HostAccepts, Answered, Answer
<1>9. ASSUME OriginRestarts
      PROVE  CarriedInv(n)'
  BY <1>9 DEF OriginRestarts
<1>10. ASSUME NEW lapsed \in SUBSET Held, NEW answered \in BOOLEAN,
               PullFederationMessages(lapsed, answered)
      PROVE  CarriedInv(n)'
  BY <1>10 DEF PullFederationMessages, Swept, Reclaimed, Held
<1>11. ASSUME NEW m \in Messages, StoreInbox(m)
      PROVE  CarriedInv(n)'
  BY <1>11 DEF StoreInbox
<1>12. ASSUME NEW m \in Messages, ReconcileAcknowledgement(m)
      PROVE  CarriedInv(n)'
  BY <1>12 DEF ReconcileAcknowledgement
<1>13. ASSUME NEW m \in Messages, AcknowledgementFails(m)
      PROVE  CarriedInv(n)'
  BY <1>13 DEF AcknowledgementFails
<1>14. ASSUME NEW m \in Messages, RecordAcknowledgement(m)
      PROVE  CarriedInv(n)'
  BY <1>14 DEF RecordAcknowledgement
<1>15. ASSUME NEW m \in Messages, ClaimInboxRow(m)
      PROVE  CarriedInv(n)'
  <2>1. UNCHANGED <<outbox, flight, delivery, verdicts, batch>>
    BY <1>15 DEF ClaimInboxRow
  <2>2. inbox'[n].status = inbox[n].status \/ inbox[n].status # "absent"
    BY <1>15, ClaimedRows
  <2>3. QED
    BY <2>1, <2>2
<1>16. ASSUME NEW m \in Messages, ProcessInboxEnvelope(m)
      PROVE  CarriedInv(n)'
  BY <1>16 DEF ProcessInboxEnvelope
<1>17. ASSUME NEW m \in Messages, RecordProcessing(m)
      PROVE  CarriedInv(n)'
  BY <1>17 DEF RecordProcessing
<1>18. ASSUME NEW m \in Messages, ReportFails(m)
      PROVE  CarriedInv(n)'
  BY <1>18 DEF ReportFails
<1>19. ASSUME NEW m \in Messages, RecordReport(m)
      PROVE  CarriedInv(n)'
  BY <1>19 DEF RecordReport
<1>20. ASSUME NEW m \in Messages, NEW answered \in BOOLEAN,
               HostAcknowledges(m, answered)
      PROVE  CarriedInv(n)'
  BY <1>20 DEF HostAcknowledges
<1>21. ASSUME NEW m \in Messages, NEW answered \in BOOLEAN,
               HostCompletes(m, answered)
      PROVE  CarriedInv(n)'
  BY <1>21 DEF HostCompletes
<1>22. ASSUME TargetRestarts
      PROVE  CarriedInv(n)'
  BY <1>22 DEF TargetRestarts
<1>23. ASSUME HostLosesDatabase
      PROVE  CarriedInv(n)'
  BY <1>23 DEF HostLosesDatabase
<1>24. ASSUME NEW m \in Messages, Expire(m)
      PROVE  CarriedInv(n)'
  BY <1>24 DEF Expire
<1>25. QED
  BY ONLY [Next]_vars, <1>1, <1>2, <1>3, <1>4, <1>5, <1>6, <1>7, <1>8, <1>9, <1>10, <1>11, <1>12,
     <1>13, <1>14, <1>15, <1>16, <1>17, <1>18, <1>19, <1>20, <1>21, <1>22, <1>23,
     <1>24
  DEF Next, OriginStep, TargetStep

\* What Carriage knows of the messages.
message == [m \in Messages |-> MessageOf(m)]

SameBut(m, field) ==
    /\ field = "stage" \/ StageOf(m)' = StageOf(m)
    /\ field = "effect" \/ executed'[m] = executed[m]
    /\ field = "record" \/ (RecordOf(m)' = RecordOf(m) /\ ((verdicts[m] > 0)' <=> verdicts[m] > 0))
    /\ field = "told" \/ ToldOf(m)' = ToldOf(m)

\* The verdict that is true of a message at its target.
True(m, verdict) ==
    \/ verdict = "delivered" /\ StageOf(m) = "carried"
    \/ verdict = "failed" /\ StageOf(m) = "givenup"

\* How a message may move, in the words of the three databases.
MayMove(m) ==
    \/ SameBut(m, "none")
    \/ /\ SameBut(m, "stage")
       /\ \/ StageOf(m) = "unsent" /\ StageOf(m)' = "underway"
          \/ StageOf(m) = "underway" /\ StageOf(m)' = "givenup"
          \/ StageOf(m) = "underway" /\ StageOf(m)' = "carried" /\ executed[m]
    \/ SameBut(m, "effect") /\ StageOf(m) = "underway" /\ executed'[m] = TRUE
    \/ /\ SameBut(m, "record")
       /\ \/ /\ (verdicts[m] > 0)' <=> verdicts[m] > 0
             /\ \/ RecordOf(m)' = "none"
                \/ RecordOf(m) = "none" /\ RecordOf(m)' = "open" /\ StageOf(m) # "unsent"
                \/ RecordOf(m) = "open" /\ RecordOf(m)' = "dead"
          \/ RecordOf(m) = "open" /\ True(m, RecordOf(m)') /\ verdicts'[m] > 0
    \/ /\ SameBut(m, "told")
       /\ ToldOf(m)' = "open" \/ (True(m, ToldOf(m)') /\ verdicts[m] > 0)


LEMMA MessageMoves ==
    ASSUME NEW n \in Messages, MayMove(n)
    PROVE  Carried!Moves(n) \/ message'[n] = message[n]
<1>1. message[n] = MessageOf(n) /\ message'[n] = MessageOf(n)'
  BY DEF message
<1>2. /\ message[n].stage = StageOf(n) /\ message[n].effect = executed[n]
      /\ message[n].record = RecordOf(n) /\ message[n].receipt = (verdicts[n] > 0)
      /\ message[n].told = ToldOf(n)
  BY <1>1 DEF MessageOf
<1>3. /\ message[n] = [stage |-> StageOf(n), effect |-> executed[n], record |-> RecordOf(n),
                      receipt |-> verdicts[n] > 0, told |-> ToldOf(n)]
      /\ message'[n] = [stage |-> StageOf(n)', effect |-> executed'[n],
                       record |-> RecordOf(n)', receipt |-> verdicts'[n] > 0,
                       told |-> ToldOf(n)']
  BY <1>1 DEF MessageOf
<1>4. CASE SameBut(n, "none")
  BY <1>3, <1>4 DEF SameBut
<1>5. CASE /\ SameBut(n, "stage")
           /\ \/ StageOf(n) = "unsent" /\ StageOf(n)' = "underway"
              \/ StageOf(n) = "underway" /\ StageOf(n)' = "givenup"
              \/ StageOf(n) = "underway" /\ StageOf(n)' = "carried" /\ executed[n]
  <2>1. message'[n] = [message[n] EXCEPT !.stage = StageOf(n)']
    BY <1>3, <1>5 DEF SameBut
  <2>2. Carried!Send(n) \/ Carried!Finish(n)
    BY <1>2, <1>5, <2>1 DEF message, Carried!Send, Carried!Finish
  <2> QED
    BY <2>2 DEF Carried!Moves
<1>6. CASE SameBut(n, "effect") /\ StageOf(n) = "underway" /\ executed'[n] = TRUE
  <2>0. /\ StageOf(n)' = StageOf(n) /\ RecordOf(n)' = RecordOf(n) /\ ToldOf(n)' = ToldOf(n)
        /\ (verdicts'[n] > 0) = (verdicts[n] > 0)
    BY <1>6 DEF SameBut
  <2>1. message'[n] = [message[n] EXCEPT !.effect = executed'[n]]
    BY <1>3, <2>0
  <2>2. message'[n] = [message[n] EXCEPT !.effect = TRUE]
    BY <1>6, <2>1, Zenon
  <2>3. Carried!TakeEffect(n)
    BY <1>2, <1>6, <2>2 DEF message, Carried!TakeEffect
  <2> QED
    BY <2>3 DEF Carried!Moves
<1>7. CASE /\ SameBut(n, "record")
           /\ (verdicts[n] > 0)' <=> verdicts[n] > 0
           /\ \/ RecordOf(n)' = "none"
              \/ RecordOf(n) = "none" /\ RecordOf(n)' = "open" /\ StageOf(n) # "unsent"
              \/ RecordOf(n) = "open" /\ RecordOf(n)' = "dead"
  <2>1. message'[n] = [message[n] EXCEPT !.record = RecordOf(n)']
    BY <1>3, <1>7 DEF SameBut
  <2>2. Carried!Forget(n) \/ Carried!Register(n) \/ Carried!GiveUp(n)
    BY <1>2, <1>7, <2>1 DEF message, Carried!Forget, Carried!Register, Carried!GiveUp
  <2> QED
    BY <2>2 DEF Carried!Moves
<1>8. CASE /\ SameBut(n, "record") /\ RecordOf(n) = "open" /\ True(n, RecordOf(n)')
           /\ verdicts'[n] > 0
  <2>0. /\ StageOf(n)' = StageOf(n) /\ executed'[n] = executed[n] /\ ToldOf(n)' = ToldOf(n)
        /\ verdicts'[n] > 0
    BY <1>8 DEF SameBut
  <2> DEFINE receipt == verdicts'[n] > 0
  <2>1. message'[n] = [stage |-> StageOf(n)', effect |-> executed'[n], record |-> RecordOf(n)',
                       receipt |-> receipt, told |-> ToldOf(n)']
    BY <1>3
  <2>3. receipt
    BY <2>0
  <2> HIDE DEF receipt
  <2>4. message'[n] = [message[n] EXCEPT !.record = RecordOf(n)', !.receipt = receipt]
    <3>1. message[n] = [stage |-> StageOf(n), effect |-> executed[n], record |-> RecordOf(n),
                        receipt |-> verdicts[n] > 0, told |-> ToldOf(n)]
      BY <1>3
    <3>2. StageOf(n)' = StageOf(n) /\ executed'[n] = executed[n] /\ ToldOf(n)' = ToldOf(n)
      BY <2>0
    <3> DEFINE before == verdicts[n] > 0
               moved == [stage |-> StageOf(n), effect |-> executed[n],
                         record |-> RecordOf(n)', receipt |-> before, told |-> ToldOf(n)]
    <3>3. [message[n] EXCEPT !.record = RecordOf(n)'] = moved
      BY <3>1
    <3>4. message'[n] = [moved EXCEPT !.receipt = receipt]
      <4> HIDE DEF before
      <4> QED
        BY <2>1, <3>2
    <3> HIDE DEF moved
    <3> QED
      BY <3>3, <3>4
  <2>5. receipt = TRUE
    BY <2>3
  <2>6. message'[n] = [message[n] EXCEPT !.record = RecordOf(n)', !.receipt = TRUE]
    BY <2>4, <2>5, Zenon
  <2>2. Carried!Agrees(n, RecordOf(n)') /\ RecordOf(n)' \in Carried!Verdict
    BY <1>2, <1>8 DEF message, Carried!Agrees, Carried!Verdict, True
  <2>7. Carried!Decide(n, RecordOf(n)')
    BY <1>2, <1>8, <2>2, <2>6 DEF message, Carried!Decide
  <2> QED
    BY <2>2, <2>7 DEF Carried!Moves
<1>9. CASE /\ SameBut(n, "told")
           /\ ToldOf(n)' = "open" \/ (True(n, ToldOf(n)') /\ verdicts[n] > 0)
  <2>1. message'[n] = [message[n] EXCEPT !.told = ToldOf(n)']
    BY <1>3, <1>9 DEF SameBut
  <2>2. CASE ToldOf(n)' = "open"
    BY <2>1, <2>2 DEF message, Carried!Moves, Carried!Untell
  <2>3. CASE True(n, ToldOf(n)') /\ verdicts[n] > 0
    <3>1. Carried!Agrees(n, ToldOf(n)') /\ ToldOf(n)' \in Carried!Verdict
      BY <1>2, <2>3 DEF message, Carried!Agrees, Carried!Verdict, True
    <3>2. Carried!Tell(n, ToldOf(n)')
      BY <1>2, <2>1, <2>3, <3>1 DEF message, Carried!Tell
    <3> QED
      BY <3>1, <3>2 DEF Carried!Moves
  <2> QED
    BY <1>9, <2>2, <2>3
<1> QED
  BY <1>4, <1>5, <1>6, <1>7, <1>8, <1>9 DEF MayMove

\* Every step of the three databases moves a message as a trusted carrier might.
LEMMA CarriageStep ==
    ASSUME IInv, IInv', [Next]_vars, NEW n \in Messages, CarriedInv(n), CarriedInv(n)'
    PROVE  MayMove(n)
<1>0. TypeOK /\ MessageInv(n) /\ TypeOK' /\ MessageInv(n)'
  BY DEF IInv
<1> USE FederationDeliveryAssumption, <1>0
    DEF CarriedInv, MessageInv, Vouched, Reportable, Verdict, NoToken, NoFlight, Absent, Idle,
        FindsDelivery, Takes, TypeOK, OutboxRow, Unsent, Settled, Flight, Delivery, InboxRow,
        Token, originVars, hostVars, targetVars, MayMove, SameBut, True, StageOf, RecordOf, ToldOf
<1>1. CASE UNCHANGED vars
  BY <1>1 DEF vars
<1>2. ASSUME NEW m \in Messages, EnqueueFederationEnvelope(m)
      PROVE  MayMove(n)
  BY <1>2 DEF EnqueueFederationEnvelope
<1>3. ASSUME NEW m \in Messages, RequeueFederationOutbox(m)
      PROVE  MayMove(n)
  BY <1>3 DEF RequeueFederationOutbox
<1>4. ASSUME NEW f \in Flushes, FlushRead(f)
      PROVE  MayMove(n)
  BY <1>4 DEF FlushRead
<1>5. ASSUME NEW f \in Flushes, NEW m \in Messages, FlushExpired(f, m)
      PROVE  MayMove(n)
  BY <1>5 DEF FlushExpired
<1>6. ASSUME NEW f \in Flushes, NEW m \in Messages, HostRefuses(f, m)
      PROVE  MayMove(n)
  BY <1>6 DEF HostRefuses, Answered
<1>7. ASSUME NEW f \in Flushes, NEW m \in Messages, FlushUpdate(f, m)
      PROVE  MayMove(n)
  BY <1>7 DEF FlushUpdate, OneMore
<1>8. ASSUME NEW f \in Flushes, NEW m \in Messages, NEW answered \in BOOLEAN,
               HostAccepts(f, m, answered)
      PROVE  MayMove(n)
  BY <1>8 DEF HostAccepts, Answered, Answer
<1>9. ASSUME OriginRestarts
      PROVE  MayMove(n)
  BY <1>9 DEF OriginRestarts
<1>10. ASSUME NEW lapsed \in SUBSET Held, NEW answered \in BOOLEAN,
               PullFederationMessages(lapsed, answered)
      PROVE  MayMove(n)
  BY <1>10 DEF PullFederationMessages, Swept, Reclaimed, Held
<1>11. ASSUME NEW m \in Messages, StoreInbox(m)
      PROVE  MayMove(n)
  BY <1>11 DEF StoreInbox
<1>12. ASSUME NEW m \in Messages, ReconcileAcknowledgement(m)
      PROVE  MayMove(n)
  BY <1>12 DEF ReconcileAcknowledgement
<1>13. ASSUME NEW m \in Messages, AcknowledgementFails(m)
      PROVE  MayMove(n)
  BY <1>13 DEF AcknowledgementFails
<1>14. ASSUME NEW m \in Messages, RecordAcknowledgement(m)
      PROVE  MayMove(n)
  BY <1>14 DEF RecordAcknowledgement
<1>15. ASSUME NEW m \in Messages, ClaimInboxRow(m)
      PROVE  MayMove(n)
  BY <1>15 DEF ClaimInboxRow
<1>16. ASSUME NEW m \in Messages, ProcessInboxEnvelope(m)
      PROVE  MayMove(n)
  BY <1>16 DEF ProcessInboxEnvelope
<1>17. ASSUME NEW m \in Messages, RecordProcessing(m)
      PROVE  MayMove(n)
  BY <1>17 DEF RecordProcessing
<1>18. ASSUME NEW m \in Messages, ReportFails(m)
      PROVE  MayMove(n)
  BY <1>18 DEF ReportFails
<1>19. ASSUME NEW m \in Messages, RecordReport(m)
      PROVE  MayMove(n)
  BY <1>19 DEF RecordReport
<1>20. ASSUME NEW m \in Messages, NEW answered \in BOOLEAN,
               HostAcknowledges(m, answered)
      PROVE  MayMove(n)
  BY <1>20 DEF HostAcknowledges
<1>21. ASSUME NEW m \in Messages, NEW answered \in BOOLEAN,
               HostCompletes(m, answered)
      PROVE  MayMove(n)
  BY <1>21 DEF HostCompletes
<1>22. ASSUME TargetRestarts
      PROVE  MayMove(n)
  BY <1>22 DEF TargetRestarts
<1>23. ASSUME HostLosesDatabase
      PROVE  MayMove(n)
  BY <1>23 DEF HostLosesDatabase
<1>24. ASSUME NEW m \in Messages, Expire(m)
      PROVE  MayMove(n)
  BY <1>24 DEF Expire
<1> HIDE DEF MayMove
<1>25. QED
  BY ONLY [Next]_vars, <1>1, <1>2, <1>3, <1>4, <1>5, <1>6, <1>7, <1>8, <1>9, <1>10, <1>11, <1>12,
     <1>13, <1>14, <1>15, <1>16, <1>17, <1>18, <1>19, <1>20, <1>21, <1>22, <1>23,
     <1>24
  DEF Next, OriginStep, TargetStep

MessagesTyped == message \in [Messages -> Carried!Message]

\* What Carriage knows of a message is of the kinds it knows.
LEMMA MessageType ==
    ASSUME TypeOK, NEW m \in Messages
    PROVE  MessageOf(m) \in Carried!Message
<1>1. StageOf(m) \in {"unsent", "underway", "carried", "givenup"}
  BY DEF StageOf
<1>2. RecordOf(m) \in {"none", "open", "dead", "delivered", "failed"}
  BY DEF RecordOf, Verdict
<1>3. ToldOf(m) \in {"open", "delivered", "failed"}
  BY DEF ToldOf, Verdict
<1>4. executed[m] \in BOOLEAN /\ (verdicts[m] > 0) \in BOOLEAN
  BY DEF TypeOK
<1> QED
  BY <1>1, <1>2, <1>3, <1>4 DEF MessageOf, Carried!Message, Carried!End, Carried!Verdict

\* The outbox, the Host and the inbox together implement the carriage of messages
\* (ImplementsCarriage), for all messages, flushes and bounds: whatever is lost,
\* repeated, overtaken or stopped on the way.
THEOREM ImplementsCarriageHolds == Spec => ImplementsCarriage
<1> DEFINE Known == \A m \in Messages : CarriedInv(m)
<1>1. Init => Carried!Init /\ Known
  <2> SUFFICES ASSUME Init PROVE Carried!Init /\ Known
    OBVIOUS
  <2>1. ASSUME NEW m \in Messages
        PROVE  MessageOf(m) = Carried!New /\ CarriedInv(m)
    <3>1. StageOf(m) = "unsent" /\ RecordOf(m) = "none" /\ ToldOf(m) = "open"
      BY DEF Init, Absent, StageOf, RecordOf, ToldOf, Verdict
    <3>2. executed[m] = FALSE /\ (verdicts[m] > 0) = FALSE
      BY DEF Init
    <3>3. CarriedInv(m)
      BY DEF Init, Absent, NoFlight, CarriedInv, Verdict
    <3> QED
      BY <3>1, <3>2, <3>3 DEF MessageOf, Carried!New
  <2> QED
    BY <2>1 DEF Carried!Init
<1>2. IInv /\ IInv' /\ Known /\ [Next]_vars => Known'
  BY CarriedStep
<1>3. IInv => MessagesTyped
  <2>1. TypeOK => MessagesTyped
    BY MessageType DEF MessagesTyped, message
  <2> QED
    BY <2>1 DEF IInv
<1>4. IInv' => MessagesTyped'
  BY <1>3, PTL
<1>5. IInv /\ IInv' /\ Known /\ Known' /\ [Next]_vars => [Carried!Next]_message
  <2> SUFFICES ASSUME IInv, IInv', Known, Known', [Next]_vars
               PROVE  Carried!Next
    BY DEF message
  <2>1. message' \in [Messages -> Carried!Message]
    BY <1>4 DEF MessagesTyped
  <2>2. \A m \in Messages : Carried!Moves(m) \/ message'[m] = message[m]
    BY CarriageStep, MessageMoves
  <2> QED
    BY <2>1, <2>2 DEF Carried!Next, message
<1> QED
  BY <1>1, <1>2, <1>5, Invariance, PTL DEF Spec, ImplementsCarriage, Carried!Spec, message

\* Whatever implements Carriage carries no message out again that its target is done
\* with (DoneOnce): the abstract specification is strong enough to say so.
THEOREM CarriageSuffices == ImplementsCarriage => DoneOnce
<1>1. ASSUME [Carried!Next]_message, NEW m \in Messages, inbox[m].status \in Done
      PROVE  inbox'[m].status \in Done /\ executed'[m] = executed[m]
  <2> DEFINE old == message[m]
             new == message'[m]
  <2>1. /\ old.stage = StageOf(m) /\ new.stage = StageOf(m)'
        /\ old.effect = executed[m] /\ new.effect = executed'[m]
    BY DEF message, MessageOf
  <2>2. StageOf(m) \in {"carried", "givenup"}
    BY <1>1 DEF StageOf, Done
  <2>3. StageOf(m)' \in {"carried", "givenup"} => inbox'[m].status \in Done
    BY DEF StageOf, Done
  <2>4. new.stage = old.stage /\ new.effect = old.effect
    <3>1. CASE new = old
      BY <3>1
    <3>2. CASE Carried!Moves(m) /\ new \in Carried!Message
      <4>1. old.stage \notin {"unsent", "underway"}
        BY <2>1, <2>2
      <4>2. \/ Carried!Register(m) \/ Carried!GiveUp(m) \/ Carried!Forget(m)
            \/ Carried!Untell(m)
            \/ \E verdict \in Carried!Verdict : Carried!Decide(m, verdict)
                                             \/ Carried!Tell(m, verdict)
        BY <3>2, <4>1 DEF Carried!Moves, Carried!Send, Carried!TakeEffect, Carried!Finish, message
      <4>3. ASSUME NEW x, \/ new = [old EXCEPT !.record = x] \/ new = [old EXCEPT !.told = x]
                          \/ new = [old EXCEPT !.record = x, !.receipt = TRUE]
            PROVE  new.stage = old.stage /\ new.effect = old.effect
        <5>1. old = [stage |-> StageOf(m), effect |-> executed[m], record |-> RecordOf(m),
                     receipt |-> verdicts[m] > 0, told |-> ToldOf(m)]
          BY DEF message, MessageOf
        <5> HIDE DEF old, new
        <5> QED
          BY <4>3, <5>1
      <4>4. CASE Carried!Register(m) \/ Carried!GiveUp(m) \/ Carried!Forget(m) \/ Carried!Untell(m)
        BY <4>3, <4>4, Zenon DEF Carried!Register, Carried!GiveUp, Carried!Forget, Carried!Untell, message
      <4>5. ASSUME NEW verdict, Carried!Decide(m, verdict) \/ Carried!Tell(m, verdict)
            PROVE  new.stage = old.stage /\ new.effect = old.effect
        BY <4>3, <4>5, Zenon DEF Carried!Decide, Carried!Tell, message
      <4> QED
        BY <4>2, <4>4, <4>5
    <3> QED
      BY <1>1, <3>1, <3>2 DEF Carried!Next, message
  <2> QED
    BY <2>1, <2>2, <2>3, <2>4
<1>2. [Carried!Next]_message =>
        [\A m \in Messages : inbox[m].status \in Done =>
            inbox'[m].status \in Done /\ executed'[m] = executed[m]]_vars
  BY <1>1
<1> QED
  BY <1>2, PTL DEF ImplementsCarriage, Carried!Spec, DoneOnce, message

================================================================================
