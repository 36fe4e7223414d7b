---------------------- MODULE FederationDeliveryRefinement ----------------------
(***************************************************************************)
(* The journey of a federated message keeps the promise of Carriage.       *)
(***************************************************************************)
EXTENDS FederationDelivery

\* The inbox row says that the target is done; without it the message is under way
\* from the time it is in the outbox.
StageOf(m) ==
    IF inbox[m].status \in {"processed", "delivered"} THEN "carried"
    ELSE IF inbox[m].status \in {"dead", "failed"} THEN "givenup"
    ELSE IF outbox[m].status = "absent" THEN "unsent"
    ELSE "underway"

\* A delivery swept out as expired is as open as a queued one: its target may still
\* acknowledge and complete it.
RecordOf(m) ==
    IF delivery[m].status = "absent" THEN "none"
    ELSE IF delivery[m].status \in Verdict \cup {"dead"} THEN delivery[m].status
    ELSE "open"

ToldOf(m) == IF outbox[m].status \in Verdict THEN outbox[m].status ELSE "open"

MessageOf(m) == [stage |-> StageOf(m), effect |-> executed[m], record |-> RecordOf(m),
                 receipt |-> verdicts[m] > 0, told |-> ToldOf(m)]

Carried == INSTANCE Carriage WITH message <- [m \in Messages |-> MessageOf(m)]

\* The three databases implement the carriage of messages: with any number of lost
\* requests and answers, leases, flushes, restarts of a Site and losses of the Host's
\* database, nobody is shown anything that one trusted carrier would not show.
ImplementsCarriage == Carried!Spec

=================================================================================
