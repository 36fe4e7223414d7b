----------------------- MODULE WorkpanelDispatch_proofs -----------------------
(***************************************************************************)
(* Theorems about WorkpanelDispatch, for all dispatches, requests and run  *)
(* events.  The inductive invariant says of each dispatch what its row, a  *)
(* request under way, the events and the task know of each other.          *)
(***************************************************************************)
EXTENDS WorkpanelDispatch, TLAPS

\* A word on the outcome of the task that may be repeated to the provider.
Vouched(d, report) ==
    /\ report = "completed" => task[d] = "completed"
    /\ ~requeued[d] => task[d] = report

\* A request that is about to write has done what it writes about.
RequestInv(d, r) ==
    request[r].of = d =>
        /\ request[r].step = "created" =>
            IF target[d] = "local" THEN task[d] # "absent" ELSE command[d] # "none"
        /\ request[r].step = "cancelled" =>
            IF target[d] = "local"
            THEN task[d] # "absent" /\ (~requeued[d] => task[d] = "cancelled")
            ELSE cancel[d] # "none"

ShowsRow(d) == ~row[d].linked \/ target[d] = "remote"

DispatchInv(d) ==
    /\ \A r \in Requests : RequestInv(d, r)
    /\ cancelling[d] = "cancelled" => Vouched(d, "cancelled")
    /\ \A e \in Events : event[d][e].way # "none" =>
        event[d][e].report \in Final /\ Vouched(d, event[d][e].report)
    /\ row[d].result # "none" => Vouched(d, row[d].result)
    /\ ShowsRow(d) /\ row[d].status = "completed" => task[d] = "completed"
    /\ ShowsRow(d) /\ row[d].status = "cancelled" /\ ~requeued[d] => task[d] = "cancelled"
    /\ row[d].linked => task[d] # "absent"
    /\ row[d].message = "command" => command[d] # "none"
    /\ row[d].message = "cancel" => cancel[d] # "none"
    /\ row[d].status = "federating" => command[d] # "none"
    /\ row[d].status = "cancel_requested" => cancel[d] # "none"

IInv == TypeOK /\ \A d \in Dispatches : DispatchInv(d)

-----------------------------------------------------------------------------
(* The steps. *)

\* A new event takes an unused messageId and leaves the others alone.
LEMMA NewEvents ==
    ASSUME TypeOK, NEW d \in Dispatches, NEW report \in Final, NEW way \in {"pending", "queued"},
           NewEvent(d, report, way)
    PROVE  /\ event' \in [Dispatches -> [Events -> Event]]
           /\ \A n \in Dispatches, e \in Events :
                \/ event'[n][e] = event[n][e]
                \/ n = d /\ event'[n][e] = [report |-> report, way |-> way]
<1> DEFINE new == CHOOSE e \in Unused(d) : TRUE
<1>1. new \in Events
  BY DEF NewEvent, Unused
<1>2. event' = [event EXCEPT ![d][new] = [report |-> report, way |-> way]]
  BY DEF NewEvent
<1>3. event \in [Dispatches -> [Events -> Event]]
  BY DEF TypeOK
<1>4. [report |-> report, way |-> way] \in Event
  BY DEF Event, Way
<1> HIDE DEF new
<1>5. QED
  BY <1>1, <1>2, <1>3, <1>4

\* Every step keeps every variable to its type.
LEMMA TypeStep ==
    ASSUME IInv, [Next]_vars
    PROVE  TypeOK'
<1>0. TypeOK /\ \A d \in Dispatches : DispatchInv(d)
  BY DEF IInv
<1> USE <1>0 DEF post, Row, Request, NoRequest, Event, Way, TaskStatus, Terminal, Final, provider, site
<1>1. CASE UNCHANGED vars
  BY <1>1 DEF vars, TypeOK
<1>2. ASSUME NEW r \in Requests, NEW d \in Dispatches, ReserveDispatch(r, d)
      PROVE  TypeOK'
  <2>1. \A x \in Row : [x EXCEPT !.status = "preparing"] \in Row
    OBVIOUS
  <2>2. row' \in [Dispatches -> Row]
    BY <1>2, <2>1 DEF ReserveDispatch, TypeOK
  <2>3. QED
    BY <1>2, <2>2 DEF ReserveDispatch, TypeOK
<1>3. ASSUME NEW r \in Requests, NEW d \in Dispatches, EnqueueLocally(r, d)
      PROVE  TypeOK'
  BY <1>3 DEF EnqueueLocally, TypeOK
<1>4. ASSUME NEW r \in Requests, NEW d \in Dispatches, EnqueueCommand(r, d)
      PROVE  TypeOK'
  BY <1>4 DEF EnqueueCommand, GoesOn, TypeOK
<1>5. ASSUME NEW r \in Requests, NEW d \in Dispatches, EnqueueThrows(r, d)
      PROVE  TypeOK'
  BY <1>5 DEF EnqueueThrows, GoesOn, TypeOK
<1>6. ASSUME NEW r \in Requests, NEW d \in Dispatches, UpdateCreated(r, d)
      PROVE  TypeOK'
  BY <1>6 DEF UpdateCreated, Answered, TypeOK
<1>7. ASSUME NEW r \in Requests, NEW d \in Dispatches, UpdateFailed(r, d)
      PROVE  TypeOK'
  <2>1. \A x \in Row : [x EXCEPT !.status = "failed"] \in Row
    OBVIOUS
  <2>2. row' \in [Dispatches -> Row]
    BY <1>7, <2>1 DEF UpdateFailed, Answered, TypeOK
  <2>3. QED
    BY <1>7, <2>2 DEF UpdateFailed, Answered, TypeOK
<1>8. ASSUME NEW r \in Requests, NEW d \in Dispatches, ReadForCancel(r, d)
      PROVE  TypeOK'
  BY <1>8 DEF ReadForCancel, TypeOK
<1>9. ASSUME NEW r \in Requests, NEW d \in Dispatches, CancelLocally(r, d)
      PROVE  TypeOK'
  <2>0. UNCHANGED <<role, target, row, command, cancel, requeued, cancelling, event>>
    BY <1>9 DEF CancelLocally
  <2>1. CASE task[d] \in Cancellable
    <3>1. task' = [task EXCEPT ![d] = "cancelled"] /\ GoesOn(r, "cancelled")
      BY <1>9, <2>1 DEF CancelLocally
    <3>2. task' \in [Dispatches -> TaskStatus]
      BY <3>1 DEF TypeOK
    <3>3. request' \in [Requests -> Request]
      BY <3>1 DEF GoesOn, TypeOK
    <3>4. QED
      BY <2>0, <3>2, <3>3 DEF TypeOK
  <2>2. CASE task[d] \notin Cancellable
    <3>1. Answered(r) /\ UNCHANGED task
      BY <1>9, <2>2 DEF CancelLocally
    <3>2. request' \in [Requests -> Request]
      BY <3>1 DEF Answered, TypeOK
    <3>3. QED
      BY <2>0, <3>1, <3>2 DEF TypeOK
  <2>3. QED
    BY <2>1, <2>2
<1>10. ASSUME NEW r \in Requests, NEW d \in Dispatches, EnqueueCancel(r, d)
      PROVE  TypeOK'
  BY <1>10 DEF EnqueueCancel, GoesOn, TypeOK
<1>11. ASSUME NEW r \in Requests, NEW d \in Dispatches,
             EnqueueCancelThrows(r, d)
      PROVE  TypeOK'
  BY <1>11 DEF EnqueueCancelThrows, Answered, TypeOK
<1>12. ASSUME NEW r \in Requests, NEW d \in Dispatches, UpdateCancelled(r, d)
      PROVE  TypeOK'
  BY <1>12 DEF UpdateCancelled, Answered, TypeOK
<1>13. ASSUME ProviderRestarts
      PROVE  TypeOK'
  BY <1>13 DEF ProviderRestarts, TypeOK
<1>14. ASSUME NEW d \in Dispatches, ProcessChatCommand(d)
      PROVE  TypeOK'
  BY <1>14 DEF ProcessChatCommand, TypeOK
<1>15. ASSUME NEW d \in Dispatches, ProcessRunCancel(d)
      PROVE  TypeOK'
  <2>1. CASE task[d] \in Cancellable
    <3>1. /\ task' = [task EXCEPT ![d] = "cancelled"]
          /\ cancelling' = [cancelling EXCEPT ![d] = "cancelled"]
      BY <1>15, <2>1 DEF ProcessRunCancel
    <3>2. /\ task' \in [Dispatches -> TaskStatus]
          /\ cancelling' \in [Dispatches -> {"idle", "cancelled", "processed"}]
      BY <3>1 DEF TypeOK
    <3>3. QED
      BY <1>15, <3>2 DEF ProcessRunCancel, TypeOK
  <2>2. CASE task[d] \notin Cancellable
    BY <1>15, <2>2 DEF ProcessRunCancel, TypeOK
  <2>3. QED
    BY <2>1, <2>2
<1>16. ASSUME NEW d \in Dispatches, SendCancelled(d)
      PROVE  TypeOK'
  BY <1>16, NewEvents DEF SendCancelled, TypeOK
<1>17. ASSUME NEW d \in Dispatches, SendCancelledThrows(d)
      PROVE  TypeOK'
  BY <1>17 DEF SendCancelledThrows, TypeOK
<1>18. ASSUME NEW d \in Dispatches, RecordCancelled(d)
      PROVE  TypeOK'
  BY <1>18 DEF RecordCancelled, TypeOK
<1>19. ASSUME NEW d \in Dispatches, MessageIsOver(d)
      PROVE  TypeOK'
  BY <1>19, ZenonT(30) DEF MessageIsOver, TypeOK
<1>20. ASSUME NEW d \in Dispatches, NEW report \in Final, TaskEnds(d, report)
      PROVE  TypeOK'
  BY <1>20, NewEvents DEF TaskEnds, TypeOK
<1>21. ASSUME NEW d \in Dispatches, TaskDies(d)
      PROVE  TypeOK'
  BY <1>21 DEF TaskDies, TypeOK
<1>22. ASSUME NEW d \in Dispatches, OperatorCancels(d)
      PROVE  TypeOK'
  BY <1>22 DEF OperatorCancels, TypeOK
<1>23. ASSUME NEW d \in Dispatches, RequeueTask(d)
      PROVE  TypeOK'
  BY <1>23 DEF RequeueTask, TypeOK
<1>24. ASSUME NEW d \in Dispatches, SiteRestarts(d)
      PROVE  TypeOK'
  <2>1. \A x \in Event : [report |-> x.report, way |-> "lost"] \in Event
    OBVIOUS
  <2>2. event' \in [Dispatches -> [Events -> Event]]
    BY <1>24, <2>1 DEF SiteRestarts, TypeOK
  <2>3. QED
    BY <1>24, <2>2 DEF SiteRestarts, TypeOK
<1>25. ASSUME NEW d \in Dispatches, NEW e \in Events, EnqueueRunEvent(d, e)
      PROVE  TypeOK'
  <2>1. event[d] \in [Events -> Event] /\ event[d][e].report \in {"none"} \cup Final
    BY DEF TypeOK
  <2>2. event' \in [Dispatches -> [Events -> Event]]
    BY <1>25, <2>1 DEF EnqueueRunEvent, Goes, TypeOK
  <2>3. QED
    BY <1>25, <2>2 DEF EnqueueRunEvent, TypeOK
<1>26. ASSUME NEW d \in Dispatches, NEW e \in Events, ProcessRunEvent(d, e)
      PROVE  TypeOK'
  <2>1. event[d] \in [Events -> Event] /\ event[d][e] \in Event /\ row[d] \in Row
    BY DEF TypeOK
  <2>2. event' \in [Dispatches -> [Events -> Event]]
    BY <1>26, <2>1 DEF ProcessRunEvent, Goes, TypeOK
  <2>3. event[d][e].report # "none"
    BY <1>26, <1>0 DEF ProcessRunEvent, DispatchInv
  <2>4. Projected(d, event[d][e].report) \in Row
    BY <2>1, <2>3 DEF Projected
  <2>5. QED
    BY <1>26, <2>2, <2>4 DEF ProcessRunEvent, TypeOK
<1>27. ASSUME NEW d \in Dispatches, NEW e \in Events, EventIsLost(d, e)
      PROVE  TypeOK'
  <2>1. event[d] \in [Events -> Event] /\ event[d][e].report \in {"none"} \cup Final
    BY DEF TypeOK
  <2>2. event' \in [Dispatches -> [Events -> Event]]
    BY <1>27, <2>1 DEF EventIsLost, Goes, TypeOK
  <2>3. QED
    BY <1>27, <2>2 DEF EventIsLost, TypeOK
<1>28. QED
  BY <1>1, <1>2, <1>3, <1>4, <1>5, <1>6, <1>7, <1>8, <1>9, <1>10, <1>11, <1>12,
     <1>13, <1>14, <1>15, <1>16, <1>17, <1>18, <1>19, <1>20, <1>21, <1>22, <1>23,
     <1>24, <1>25, <1>26, <1>27
  DEF Next, ProviderRequest, SiteStep, EventStep

\* Every step keeps what is known of a dispatch.
LEMMA DispatchStep ==
    ASSUME IInv, [Next]_vars, NEW n \in Dispatches
    PROVE  DispatchInv(n)'
<1>0. TypeOK /\ DispatchInv(n)
  BY DEF IInv
<1> USE <1>0 DEF RequestInv, Vouched, ShowsRow, post, Row, Request, NoRequest, Event, Way, TaskStatus, Terminal, Final,
    provider, site
<1>1. CASE UNCHANGED vars
  BY <1>1 DEF vars, DispatchInv, TypeOK
<1>2. ASSUME NEW r \in Requests, NEW d \in Dispatches, ReserveDispatch(r, d)
      PROVE  DispatchInv(n)'
  BY <1>2 DEF ReserveDispatch, DispatchInv, TypeOK
<1>3. ASSUME NEW r \in Requests, NEW d \in Dispatches, EnqueueLocally(r, d)
      PROVE  DispatchInv(n)'
  BY <1>3 DEF EnqueueLocally, DispatchInv, TypeOK
<1>4. ASSUME NEW r \in Requests, NEW d \in Dispatches, EnqueueCommand(r, d)
      PROVE  DispatchInv(n)'
  BY <1>4 DEF EnqueueCommand, GoesOn, DispatchInv, TypeOK
<1>5. ASSUME NEW r \in Requests, NEW d \in Dispatches, EnqueueThrows(r, d)
      PROVE  DispatchInv(n)'
  BY <1>5 DEF EnqueueThrows, GoesOn, DispatchInv, TypeOK
<1>6. ASSUME NEW r \in Requests, NEW d \in Dispatches, UpdateCreated(r, d)
      PROVE  DispatchInv(n)'
  <2>1. CASE target[d] = "local"
    <3>1. \A q \in Requests : RequestInv(n, q)'
      BY <1>6 DEF UpdateCreated, Answered, DispatchInv, TypeOK
    <3>2. task[d] # "absent"
      BY <1>0, <1>6, <2>1 DEF UpdateCreated, DispatchInv, IInv
    <3>3. CASE n = d
      <4>1. /\ row'[d].linked /\ row'[d].message = row[d].message
            /\ row'[d].result = row[d].result
            /\ row'[d].status \in TaskStatus
        BY <1>6, <2>1 DEF UpdateCreated, TypeOK
      <4>2. QED
        BY <1>6, <2>1, <3>1, <3>2, <3>3, <4>1 DEF UpdateCreated, DispatchInv, TypeOK
    <3>4. CASE n # d
      <4>1. row'[n] = row[n]
        BY <1>6, <3>4 DEF UpdateCreated, TypeOK
      <4>2. QED
        BY <1>6, <3>1, <4>1 DEF UpdateCreated, DispatchInv
    <3>5. QED
      BY <3>3, <3>4
  <2>2. CASE target[d] = "remote"
    BY <1>6, <2>2 DEF UpdateCreated, Answered, DispatchInv, TypeOK
  <2>3. QED
    BY <2>1, <2>2 DEF TypeOK
<1>7. ASSUME NEW r \in Requests, NEW d \in Dispatches, UpdateFailed(r, d)
      PROVE  DispatchInv(n)'
  BY <1>7 DEF UpdateFailed, Answered, DispatchInv, TypeOK
<1>8. ASSUME NEW r \in Requests, NEW d \in Dispatches, ReadForCancel(r, d)
      PROVE  DispatchInv(n)'
  BY <1>8 DEF ReadForCancel, DispatchInv, TypeOK
<1>9. ASSUME NEW r \in Requests, NEW d \in Dispatches, CancelLocally(r, d)
      PROVE  DispatchInv(n)'
  <2>1. UNCHANGED <<target, row, command, cancel, requeued, cancelling, event>>
    BY <1>9 DEF CancelLocally
  <2>2. CASE task[d] \in Cancellable
    <3>1. /\ task'[d] = "cancelled" /\ target[d] = "local"
          /\ \A m \in Dispatches \ {d} : task'[m] = task[m]
      BY <1>9, <2>2 DEF CancelLocally, TypeOK
    <3>2. task[d] \in {"open", "cancelled"}
      BY <2>2 DEF Cancellable
    <3>3. ASSUME NEW q \in Requests
          PROVE  \/ request'[q] = request[q]
                 \/ request'[q].of = d /\ request'[q].step = "cancelled"
      BY <1>9, <2>2 DEF CancelLocally, GoesOn, TypeOK
    <3>4. CASE n = d
      <4>1. \A q \in Requests : RequestInv(n, q)'
        BY <2>1, <3>1, <3>3, <3>4 DEF DispatchInv
      <4>2. Vouched(d, "cancelled")'
        BY <3>1
      <4>3. \A e \in Events : event[d][e].way # "none" =>
               /\ event[d][e].report \in Final /\ event[d][e].report # "completed"
               /\ ~requeued[d] => event[d][e].report = "cancelled"
        BY <3>2, <3>4 DEF DispatchInv
      <4>4. row[d].result # "none" =>
               /\ row[d].result # "completed"
               /\ ~requeued[d] => row[d].result = "cancelled"
        BY <3>2, <3>4 DEF DispatchInv, TypeOK
      <4>5. QED
        BY <2>1, <3>1, <3>2, <3>4, <4>1, <4>2, <4>3, <4>4 DEF DispatchInv
    <3>5. CASE n # d
      <4>1. \A q \in Requests : RequestInv(n, q)'
        BY <2>1, <3>1, <3>3, <3>5 DEF DispatchInv
      <4>2. QED
        BY <2>1, <3>1, <3>5, <4>1 DEF DispatchInv
    <3>6. QED
      BY <3>4, <3>5
  <2>3. CASE task[d] \notin Cancellable
    <3>1. Answered(r) /\ UNCHANGED task
      BY <1>9, <2>3 DEF CancelLocally
    <3>2. \A q \in Requests : RequestInv(n, q)'
      BY <2>1, <3>1 DEF Answered, DispatchInv, TypeOK
    <3>3. QED
      BY <2>1, <3>1, <3>2 DEF DispatchInv
  <2>4. QED
    BY <2>2, <2>3
<1>10. ASSUME NEW r \in Requests, NEW d \in Dispatches, EnqueueCancel(r, d)
      PROVE  DispatchInv(n)'
  BY <1>10 DEF EnqueueCancel, GoesOn, DispatchInv, TypeOK
<1>11. ASSUME NEW r \in Requests, NEW d \in Dispatches,
             EnqueueCancelThrows(r, d)
      PROVE  DispatchInv(n)'
  BY <1>11 DEF EnqueueCancelThrows, Answered, DispatchInv, TypeOK
<1>12. ASSUME NEW r \in Requests, NEW d \in Dispatches, UpdateCancelled(r, d)
      PROVE  DispatchInv(n)'
  BY <1>12 DEF UpdateCancelled, Answered, DispatchInv, TypeOK
<1>13. ASSUME ProviderRestarts
      PROVE  DispatchInv(n)'
  BY <1>13 DEF ProviderRestarts, DispatchInv, TypeOK
<1>14. ASSUME NEW d \in Dispatches, ProcessChatCommand(d)
      PROVE  DispatchInv(n)'
  BY <1>14 DEF ProcessChatCommand, DispatchInv, TypeOK
<1>15. ASSUME NEW d \in Dispatches, ProcessRunCancel(d)
      PROVE  DispatchInv(n)'
  BY <1>15 DEF ProcessRunCancel, Cancellable, DispatchInv, TypeOK
<1>16. ASSUME NEW d \in Dispatches, SendCancelled(d)
      PROVE  DispatchInv(n)'
  BY <1>16, NewEvents DEF SendCancelled, DispatchInv, TypeOK
<1>17. ASSUME NEW d \in Dispatches, SendCancelledThrows(d)
      PROVE  DispatchInv(n)'
  BY <1>17 DEF SendCancelledThrows, DispatchInv, TypeOK
<1>18. ASSUME NEW d \in Dispatches, RecordCancelled(d)
      PROVE  DispatchInv(n)'
  BY <1>18 DEF RecordCancelled, DispatchInv, TypeOK
<1>19. ASSUME NEW d \in Dispatches, MessageIsOver(d)
      PROVE  DispatchInv(n)'
  BY <1>19 DEF MessageIsOver, DispatchInv, TypeOK
<1>20. ASSUME NEW d \in Dispatches, NEW report \in Final, TaskEnds(d, report)
      PROVE  DispatchInv(n)'
  <2>1. CASE target[d] = "local"
    BY <1>20, <2>1 DEF TaskEnds, DispatchInv, TypeOK
  <2>2. CASE target[d] # "local"
    <3>1. NewEvent(d, report, "pending")
      BY <1>20, <2>2 DEF TaskEnds
    <3>2. \A m \in Dispatches, e \in Events :
            \/ event'[m][e] = event[m][e]
            \/ m = d /\ event'[m][e] = [report |-> report, way |-> "pending"]
      BY ONLY <1>0, <3>1, report \in Final, NewEvents
    <3>3. QED
      BY <1>20, <3>2 DEF TaskEnds, DispatchInv, TypeOK
  <2>3. QED
    BY <2>1, <2>2
<1>21. ASSUME NEW d \in Dispatches, TaskDies(d)
      PROVE  DispatchInv(n)'
  BY <1>21 DEF TaskDies, DispatchInv, TypeOK
<1>22. ASSUME NEW d \in Dispatches, OperatorCancels(d)
      PROVE  DispatchInv(n)'
  BY <1>22 DEF OperatorCancels, DispatchInv, TypeOK
<1>23. ASSUME NEW d \in Dispatches, RequeueTask(d)
      PROVE  DispatchInv(n)'
  BY <1>23 DEF RequeueTask, DispatchInv, TypeOK
<1>24. ASSUME NEW d \in Dispatches, SiteRestarts(d)
      PROVE  DispatchInv(n)'
  BY <1>24 DEF SiteRestarts, DispatchInv, TypeOK
<1>25. ASSUME NEW d \in Dispatches, NEW e \in Events, EnqueueRunEvent(d, e)
      PROVE  DispatchInv(n)'
  BY <1>25 DEF EnqueueRunEvent, Goes, DispatchInv, TypeOK
<1>26. ASSUME NEW d \in Dispatches, NEW e \in Events, ProcessRunEvent(d, e)
      PROVE  DispatchInv(n)'
  BY <1>26 DEF ProcessRunEvent, Goes, Projected, DispatchInv, TypeOK
<1>27. ASSUME NEW d \in Dispatches, NEW e \in Events, EventIsLost(d, e)
      PROVE  DispatchInv(n)'
  BY <1>27 DEF EventIsLost, Goes, DispatchInv, TypeOK
<1>28. QED
  BY <1>1, <1>2, <1>3, <1>4, <1>5, <1>6, <1>7, <1>8, <1>9, <1>10, <1>11, <1>12,
     <1>13, <1>14, <1>15, <1>16, <1>17, <1>18, <1>19, <1>20, <1>21, <1>22, <1>23,
     <1>24, <1>25, <1>26, <1>27
  DEF Next, ProviderRequest, SiteStep, EventStep

\* What SettledStays says of one dispatch.
Settled(d) == row[d].status \in Final /\ (\A r \in Requests : request[r].of # d)
RowKeeps(d) == Settled(d) => row'[d].status = row[d].status

\* Nothing but a request under way changes a final row.
LEMMA SettledStep ==
    ASSUME TypeOK, [Next]_vars, NEW n \in Dispatches
    PROVE  RowKeeps(n)
<1> USE DEF post, Row, Request, NoRequest, Event, Way, TaskStatus, Terminal, Final, provider, site
<1>1. CASE UNCHANGED vars
  BY <1>1 DEF vars, TypeOK, RowKeeps, Settled
<1>2. ASSUME NEW r \in Requests, NEW d \in Dispatches, ReserveDispatch(r, d)
      PROVE  RowKeeps(n)
  BY <1>2 DEF ReserveDispatch, TypeOK, RowKeeps, Settled
<1>3. ASSUME NEW r \in Requests, NEW d \in Dispatches, EnqueueLocally(r, d)
      PROVE  RowKeeps(n)
  BY <1>3 DEF EnqueueLocally, TypeOK, RowKeeps, Settled
<1>4. ASSUME NEW r \in Requests, NEW d \in Dispatches, EnqueueCommand(r, d)
      PROVE  RowKeeps(n)
  BY <1>4 DEF EnqueueCommand, GoesOn, TypeOK, RowKeeps, Settled
<1>5. ASSUME NEW r \in Requests, NEW d \in Dispatches, EnqueueThrows(r, d)
      PROVE  RowKeeps(n)
  BY <1>5 DEF EnqueueThrows, GoesOn, TypeOK, RowKeeps, Settled
<1>6. ASSUME NEW r \in Requests, NEW d \in Dispatches, UpdateCreated(r, d)
      PROVE  RowKeeps(n)
  BY <1>6 DEF UpdateCreated, Answered, TypeOK, RowKeeps, Settled
<1>7. ASSUME NEW r \in Requests, NEW d \in Dispatches, UpdateFailed(r, d)
      PROVE  RowKeeps(n)
  BY <1>7 DEF UpdateFailed, Answered, TypeOK, RowKeeps, Settled
<1>8. ASSUME NEW r \in Requests, NEW d \in Dispatches, ReadForCancel(r, d)
      PROVE  RowKeeps(n)
  BY <1>8 DEF ReadForCancel, TypeOK, RowKeeps, Settled
<1>9. ASSUME NEW r \in Requests, NEW d \in Dispatches, CancelLocally(r, d)
      PROVE  RowKeeps(n)
  BY <1>9 DEF CancelLocally, Answered, GoesOn, Cancellable, TypeOK, RowKeeps, Settled
<1>10. ASSUME NEW r \in Requests, NEW d \in Dispatches, EnqueueCancel(r, d)
      PROVE  RowKeeps(n)
  BY <1>10 DEF EnqueueCancel, GoesOn, TypeOK, RowKeeps, Settled
<1>11. ASSUME NEW r \in Requests, NEW d \in Dispatches,
             EnqueueCancelThrows(r, d)
      PROVE  RowKeeps(n)
  BY <1>11 DEF EnqueueCancelThrows, Answered, TypeOK, RowKeeps, Settled
<1>12. ASSUME NEW r \in Requests, NEW d \in Dispatches, UpdateCancelled(r, d)
      PROVE  RowKeeps(n)
  BY <1>12 DEF UpdateCancelled, Answered, TypeOK, RowKeeps, Settled
<1>13. ASSUME ProviderRestarts
      PROVE  RowKeeps(n)
  BY <1>13 DEF ProviderRestarts, TypeOK, RowKeeps, Settled
<1>14. ASSUME NEW d \in Dispatches, ProcessChatCommand(d)
      PROVE  RowKeeps(n)
  BY <1>14 DEF ProcessChatCommand, TypeOK, RowKeeps, Settled
<1>15. ASSUME NEW d \in Dispatches, ProcessRunCancel(d)
      PROVE  RowKeeps(n)
  BY <1>15 DEF ProcessRunCancel, Cancellable, TypeOK, RowKeeps, Settled
<1>16. ASSUME NEW d \in Dispatches, SendCancelled(d)
      PROVE  RowKeeps(n)
  BY <1>16, NewEvents DEF SendCancelled, TypeOK, RowKeeps, Settled
<1>17. ASSUME NEW d \in Dispatches, SendCancelledThrows(d)
      PROVE  RowKeeps(n)
  BY <1>17 DEF SendCancelledThrows, TypeOK, RowKeeps, Settled
<1>18. ASSUME NEW d \in Dispatches, RecordCancelled(d)
      PROVE  RowKeeps(n)
  BY <1>18 DEF RecordCancelled, TypeOK, RowKeeps, Settled
<1>19. ASSUME NEW d \in Dispatches, MessageIsOver(d)
      PROVE  RowKeeps(n)
  BY <1>19 DEF MessageIsOver, TypeOK, RowKeeps, Settled
<1>20. ASSUME NEW d \in Dispatches, NEW report \in Final, TaskEnds(d, report)
      PROVE  RowKeeps(n)
  BY <1>20, NewEvents DEF TaskEnds, TypeOK, RowKeeps, Settled
<1>21. ASSUME NEW d \in Dispatches, TaskDies(d)
      PROVE  RowKeeps(n)
  BY <1>21 DEF TaskDies, TypeOK, RowKeeps, Settled
<1>22. ASSUME NEW d \in Dispatches, OperatorCancels(d)
      PROVE  RowKeeps(n)
  BY <1>22 DEF OperatorCancels, TypeOK, RowKeeps, Settled
<1>23. ASSUME NEW d \in Dispatches, RequeueTask(d)
      PROVE  RowKeeps(n)
  BY <1>23 DEF RequeueTask, TypeOK, RowKeeps, Settled
<1>24. ASSUME NEW d \in Dispatches, SiteRestarts(d)
      PROVE  RowKeeps(n)
  BY <1>24 DEF SiteRestarts, TypeOK, RowKeeps, Settled
<1>25. ASSUME NEW d \in Dispatches, NEW e \in Events, EnqueueRunEvent(d, e)
      PROVE  RowKeeps(n)
  BY <1>25 DEF EnqueueRunEvent, Goes, TypeOK, RowKeeps, Settled
<1>26. ASSUME NEW d \in Dispatches, NEW e \in Events, ProcessRunEvent(d, e)
      PROVE  RowKeeps(n)
  BY <1>26 DEF ProcessRunEvent, Goes, Projected, TypeOK, RowKeeps, Settled
<1>27. ASSUME NEW d \in Dispatches, NEW e \in Events, EventIsLost(d, e)
      PROVE  RowKeeps(n)
  BY <1>27 DEF EventIsLost, Goes, TypeOK, RowKeeps, Settled
<1>28. QED
  BY <1>1, <1>2, <1>3, <1>4, <1>5, <1>6, <1>7, <1>8, <1>9, <1>10, <1>11, <1>12,
     <1>13, <1>14, <1>15, <1>16, <1>17, <1>18, <1>19, <1>20, <1>21, <1>22, <1>23,
     <1>24, <1>25, <1>26, <1>27
  DEF Next, ProviderRequest, SiteStep, EventStep

-----------------------------------------------------------------------------
(* The theorems. *)

\* Rows, requests, events and tasks agree in every reachable state, whatever
\* requests, restarts, losses and repetitions there are.
THEOREM Invariance == Spec => []IInv
<1>1. Init => IInv
  BY DEF Init, IInv, TypeOK, DispatchInv, RequestInv, Vouched, NoRow, NoRequest, NoEvent, Row,
         Request, Event, Way, TaskStatus, Terminal, Final
<1>2. IInv /\ [Next]_vars => IInv'
  BY TypeStep, DispatchStep DEF IInv
<1>3. QED
  BY <1>1, <1>2, PTL DEF Spec

\* Every variable keeps to its type.
THEOREM TypeCorrect == Spec => []TypeOK
<1>1. IInv => TypeOK
  BY DEF IInv
<1>2. QED
  BY Invariance, <1>1, PTL

\* updateDispatch never announces what is not stored yet.
THEOREM UnderWayIsStoredHolds == Spec => []UnderWayIsStored
<1>1. IInv => UnderWayIsStored
  BY DEF IInv, DispatchInv, UnderWayIsStored
<1>2. QED
  BY Invariance, <1>1, PTL

\* dispatchDto shows completed only what the task completed.
THEOREM CompletedIsCompletedHolds == Spec => []CompletedIsCompleted
<1>1. IInv => CompletedIsCompleted
  BY DEF IInv, DispatchInv, CompletedIsCompleted, Shown, ShowsRow, TypeOK
<1>2. QED
  BY Invariance, <1>1, PTL

\* Without an operator's requeue, the result and a cancellation the provider reads
\* are the task's (completeWorkpanelDispatchFromFederation).
THEOREM ResultIsTheTasksHolds == Spec => []ResultIsTheTasks
<1>1. IInv => ResultIsTheTasks
  BY DEF IInv, DispatchInv, ResultIsTheTasks, Vouched, Shown, ShowsRow, TypeOK
<1>2. QED
  BY Invariance, <1>1, PTL

\* Only a request that was under way before can overwrite the last word on a dispatch.
THEOREM SettledStaysHolds == Spec => SettledStays
<1>1. TypeOK /\ [Next]_vars => [\A d \in Dispatches : RowKeeps(d)]_vars
  BY SettledStep
<1>2. QED
  BY TypeCorrect, <1>1, PTL DEF Spec, SettledStays, RowKeeps, Settled

================================================================================
