------------------------------ MODULE HostBacklog ------------------------------
(***************************************************************************)
(* What the Host keeps for one target Site, and for how long: the quotas a *)
(* message passes before it is stored (src/src/relay/quotas.js), the       *)
(* states its delivery goes through, and the retention that deletes what   *)
(* has long been final when the Host starts (retention.js).                *)
(*                                                                         *)
(* A request of the origin may come at any time, again or late: its outbox *)
(* repeats a message until it learns of its end (FederationDelivery).      *)
(* Quota check and insertion happen in one turn of the event loop.  The    *)
(* limits on bytes and on free disk space act as the one on the number of  *)
(* deliveries does and are left out, telemetry and the audit log as well.  *)
(*                                                                         *)
(* One clock is assumed: the origin writes createdAt and expiresAt by its  *)
(* own, and the Host checks only that they are at most a day apart and     *)
(* that expiresAt lies ahead of its own time (contracts/federation.js).    *)
(***************************************************************************)
EXTENDS Integers, FiniteSets

CONSTANTS
    Messages,
    MessageTtl,      \* from createdAt to expiresAt; validated to be at most 24 hours
    TerminalAge,     \* retention.terminalDays, at least one day
    RateWindow,      \* a minute
    Rate,            \* federation.quotas.requestsPerMinute
    MaxInflight,     \* federation.quotas.maxInflight
    MaxDeadLetters,  \* federation.quotas.maxDeadLetters
    MaxLeases,       \* federation.maxAttempts
    LastTick         \* bound on the clock

ASSUME HostBacklogAssumption ==
    /\ {MessageTtl, RateWindow, Rate, MaxInflight, MaxDeadLetters, MaxLeases} \subseteq Nat \ {0}
    /\ {TerminalAge, LastTick} \subseteq Nat
    /\ MessageTtl <= TerminalAge
    /\ IsFiniteSet(Messages)

VARIABLES
    now,
    expires,     \* expiresAt of the messages there are, Never of those to come
    row,         \* federation_deliveries: status, attempt, completed_at, the token is held
    window,      \* windows: when the origin's minute began, and its requests since
    insertions   \* history: how often the message was stored

backlogVars == <<now, expires, row, window, insertions>>

-----------------------------------------------------------------------------

Never == -1
NoRow == [status |-> "absent", attempt |-> 0, completed |-> Never, held |-> FALSE]
Live == {"queued", "leased", "acknowledged"}
Final == {"delivered", "failed", "expired", "dead"}
NoWindow == [started |-> Never, count |-> 0]

BacklogTypeOK ==
    /\ now \in 0..LastTick
    /\ expires \in [Messages -> Nat \cup {Never}]
    /\ row \in [Messages -> [status : {"absent"} \cup Live \cup Final, attempt : 0..MaxLeases,
                             completed : Nat \cup {Never}, held : BOOLEAN]]
    /\ window \in [started : Nat \cup {Never}, count : Nat]
    /\ insertions \in [Messages -> Nat]

BacklogInit ==
    /\ now = 0
    /\ expires = [m \in Messages |-> Never]
    /\ row = [m \in Messages |-> NoRow]
    /\ window = NoWindow
    /\ insertions = [m \in Messages |-> 0]

Count(statuses) == Cardinality({m \in Messages : row[m].status \in statuses})
Past(m) == expires[m] <= now

-----------------------------------------------------------------------------
(* Storing.                                                                  *)

\* The origin creates an envelope (createFederationEnvelope), by the Host's clock.
CreateEnvelope(m) ==
    /\ expires[m] = Never
    /\ expires' = [expires EXCEPT ![m] = now + MessageTtl]
    /\ UNCHANGED <<now, row, window, insertions>>

\* A request counts, whether it is let through or not (up to the number that is past
\* the rate); a minute is counted from the first request after the last one was over.
Counted == IF window.started = Never \/ now - window.started >= RateWindow
           THEN [started |-> now, count |-> 1]
           ELSE [window EXCEPT !.count = IF @ <= Rate THEN @ + 1 ELSE @]

\* checkFederationQuota.
MayStore ==
    /\ Counted.count <= Rate
    /\ Count(Live) < MaxInflight
    /\ Count({"dead"}) < MaxDeadLetters

\* acceptFederationMessage, enqueueHostFederationMessage: an expired envelope is not
\* valid; the quota comes before the look for a duplicate.  A message stored already
\* is answered with its status, if the quota lets the question through.
AcceptFederationMessage(m) ==
    /\ expires[m] # Never /\ ~Past(m)
    /\ window' = Counted
    /\ IF MayStore /\ row[m] = NoRow
         THEN /\ row' = [row EXCEPT ![m].status = "queued"]
              /\ insertions' = [insertions EXCEPT ![m] = @ + 1]
         ELSE UNCHANGED <<row, insertions>>
    /\ UNCHANGED <<now, expires>>

-----------------------------------------------------------------------------
(* Delivering.                                                               *)

\* Mutation: once more than the attempts allow.
ReclaimsOnceMore(r) ==
    IF r.attempt > MaxLeases
    THEN [r EXCEPT !.status = "dead", !.held = FALSE, !.completed = now]
    ELSE [r EXCEPT !.status = "queued", !.held = FALSE]

\* A lease that has lapsed: back to the queue, or dead of its attempts.
Reclaims(r) ==
    IF r.attempt >= MaxLeases
    THEN [r EXCEPT !.status = "dead", !.held = FALSE, !.completed = now]
    ELSE [r EXCEPT !.status = "queued", !.held = FALSE]

\* pullOnce: leases that have lapsed are taken back, what has expired is marked, and
\* some of what is queued is leased.  An expiry may be seen late: two ways of writing a
\* time are compared as texts.
PullOnce(lapsed, seen, leased) ==
    LET back(m) == IF m \in lapsed THEN Reclaims(row[m]) ELSE row[m]
        swept == {m \in seen : back(m).status \in {"queued", "leased"}}
    IN  /\ lapsed \subseteq {m \in Messages : row[m].status \in {"leased", "acknowledged"}}
        /\ seen \subseteq {m \in Messages : Past(m)}
        /\ leased \subseteq {m \in Messages \ seen : back(m).status = "queued"}
        /\ row' = [m \in Messages |->
             IF m \in swept THEN [back(m) EXCEPT !.status = "expired", !.completed = now]
             ELSE IF m \in leased THEN [back(m) EXCEPT !.status = "leased", !.held = TRUE,
                                                       !.attempt = @ + 1]
             ELSE back(m)]
        /\ UNCHANGED <<now, expires, window, insertions>>

\* ackFederationMessage: who holds the token of an expired delivery gets it back.
AckFederationMessage(m) ==
    /\ row[m].held /\ row[m].status \in {"leased", "expired"}
    /\ row' = [row EXCEPT ![m].status = "acknowledged"]
    /\ UNCHANGED <<now, expires, window, insertions>>

\* completeFederationMessage.
CompleteFederationMessage(m, verdict) ==
    /\ row[m].held /\ row[m].status \notin {"delivered", "failed"}
    /\ row' = [row EXCEPT ![m].status = verdict, ![m].held = FALSE, ![m].completed = now]
    /\ UNCHANGED <<now, expires, window, insertions>>

-----------------------------------------------------------------------------
(* Time.                                                                     *)

ClockMoves ==
    /\ now < LastTick
    /\ now' = now + 1
    /\ UNCHANGED <<expires, row, window, insertions>>

\* Mutation: a day too early.
OldEnoughByOne(m) == row[m].status \in Final /\ row[m].completed + TerminalAge <= now + 1

OldEnough(m) == row[m].status \in Final /\ row[m].completed + TerminalAge < now

\* The Host starts: enforceRetention deletes what has been final for long; the counts
\* of requests were in memory.
HostStarts ==
    /\ row' = [m \in Messages |-> IF OldEnough(m) THEN NoRow ELSE row[m]]
    /\ window' = NoWindow
    /\ UNCHANGED <<now, expires, insertions>>

BacklogNext ==
    \/ \E m \in Messages :
          \/ CreateEnvelope(m)
          \/ AcceptFederationMessage(m)
          \/ AckFederationMessage(m)
          \/ \E verdict \in {"delivered", "failed"} : CompleteFederationMessage(m, verdict)
    \/ \E lapsed, seen, leased \in SUBSET Messages : PullOnce(lapsed, seen, leased)
    \/ ClockMoves
    \/ HostStarts

BacklogSpec == BacklogInit /\ [][BacklogNext]_backlogVars

-----------------------------------------------------------------------------
(* However often a request is repeated, and however late it comes, a message the Host
   has deleted is not stored, and so not delivered, a second time: retention outlasts
   every envelope (enforceRetention, validateFederationEnvelope). *)
StoredOnce == \A m \in Messages : insertions[m] <= 1

(* The messages under way to a Site that may still be executed are never more than the
   limit, whatever leases lapse and whatever lapsed deliveries are acknowledged late; an
   expired delivery its holder acknowledges is under way again and is not counted
   (checkFederationQuota, ackFederationMessage). *)
InflightBounded ==
    Cardinality({m \in Messages : row[m].status \in Live /\ ~Past(m)}) <= MaxInflight

(* No limit is passed and nothing is stored twice. *)
BacklogIsBounded == StoredOnce /\ InflightBounded
=============================================================================
