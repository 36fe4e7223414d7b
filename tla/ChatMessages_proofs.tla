-------------------------- MODULE ChatMessages_proofs --------------------------
(***************************************************************************)
(* Theorems about ChatMessages, for all sets of messages, any limit of     *)
(* tries and any number of restarts.  The inductive invariant keeps, per   *)
(* message, an account of what has been handed over and what is left.      *)
(***************************************************************************)
EXTENDS ChatMessagesRefinement, TLAPS

\* The worker has the message and has handed it to nobody but WorkPanel.
Holding == {"dispatch", "deliver", "post", "posted", "unposted", "pause"}

\* The ways other than WorkPanel by which the message went.
OtherWays(m) == (IF task[m] = "none" THEN 0 ELSE 1) + sent[m]

\* Somebody is going to hand the message over, or nobody has begun yet.
Ahead(m) == worker[m] \in Holding \/ m \in pending \/ status[m] = "absent"

\* What the row, the worker and the start of the relay know of each other.
RowInv(m) ==
    /\ status[m] = "absent" =>
        worker[m] = "idle" /\ retries[m] = 0 /\ task[m] = "none" /\ sent[m] = 0
    /\ m \in pending => server = "starting" /\ status[m] = "accepted" /\ worker[m] = "idle"
    /\ worker[m] \in Holding \ {"pause"} => status[m] = "accepted"
    /\ status[m] = "accepted" => retries[m] < MaxAttempts
    /\ server = "up" /\ worker[m] \in Holding => task[m] = "none" /\ sent[m] = 0

\* The account: one way for each start, one lost answer for each further post,
\* one counted try for each post but the one under way.
AccountInv(m) ==
    /\ OtherWays(m) <= 1 + restarts
    /\ Ahead(m) => OtherWays(m) <= restarts
    /\ posts[m] + OtherWays(m) <= 1 + lost[m] + restarts
    /\ Ahead(m) /\ worker[m] # "posted" => posts[m] + OtherWays(m) <= lost[m] + restarts
    /\ posts[m] <= MaxAttempts + restarts
    /\ posts[m] <= retries[m] + restarts + 1
    /\ Ahead(m) /\ worker[m] \notin {"posted", "unposted"} => posts[m] <= retries[m] + restarts

\* A delivered message was delivered by somebody.
AnswerInv(m) ==
    /\ \A c \in Commands : terminal[m][c] # "none" => c <= sent[m]
    /\ worker[m] = "posted" => posts[m] > 0
    /\ status[m] = "delivered" =>
        \/ posts[m] > 0
        \/ task[m] \in Outcome
        \/ \E c \in Commands : terminal[m][c] # "none"

MessageInv(m) == RowInv(m) /\ AccountInv(m) /\ AnswerInv(m)

IInv == ChatTypeOK /\ \A m \in Messages : MessageInv(m)

-----------------------------------------------------------------------------

LEMMA InitInv == ASSUME ChatInit PROVE IInv
<1> USE ChatMessagesAssumption DEF ChatInit
<1>1. ChatTypeOK
  BY DEF ChatTypeOK, Commands, Outcome, Settled, WorkerStep
<1>2. ASSUME NEW m \in Messages
      PROVE  MessageInv(m)
  BY DEF MessageInv, RowInv, AccountInv, AnswerInv, OtherWays, Ahead, Holding, Outcome
<1>3. QED
  BY <1>1, <1>2 DEF IInv

\* Every step keeps every variable to its type.
LEMMA TypeStep ==
    ASSUME IInv, [ChatNext]_chatVars
    PROVE  ChatTypeOK'
<1>0. ChatTypeOK
  BY DEF IInv
<1> USE ChatMessagesAssumption, <1>0
    DEF ChatTypeOK, serverVars, rowVars, workVars, wayVars, eventVars, histVars,
        Commands, Outcome, Settled, WorkerStep
<1>1. CASE UNCHANGED chatVars
  BY <1>1 DEF chatVars
<1>2. ASSUME NEW m \in Messages,
              Chat(m)
      PROVE  ChatTypeOK'
  BY <1>2 DEF Chat, AcceptUpMessage
<1>3. ASSUME NEW m \in Messages,
              ToLocalRunner(m)
      PROVE  ChatTypeOK'
  BY <1>3 DEF ToLocalRunner
<1>4. ASSUME NEW m \in Messages,
              ToRemoteSite(m)
      PROVE  ChatTypeOK'
  <2>1. sent[m] + 1 \in 0..(MaxRestarts + 1)
    <3>1. OtherWays(m) <= restarts
      BY <1>4 DEF ToRemoteSite, IInv, MessageInv, AccountInv, Ahead, Holding
    <3>2. QED
      BY <3>1 DEF OtherWays
  <2>2. QED
    BY <1>4, <2>1 DEF ToRemoteSite
<1>5. ASSUME NEW m \in Messages,
              UpsertRun(m)
      PROVE  ChatTypeOK'
  BY <1>5 DEF UpsertRun
<1>6. ASSUME NEW m \in Messages,
              RunnerOffline(m)
      PROVE  ChatTypeOK'
  BY <1>6 DEF RunnerOffline
<1>7. ASSUME NEW m \in Messages,
              NotBound(m)
      PROVE  ChatTypeOK'
  BY <1>7 DEF NotBound
<1>8. ASSUME NEW m \in Messages,
              DeadLetter(m)
      PROVE  ChatTypeOK'
  <2>1. MaxAttempts \in 0..MaxAttempts
    OBVIOUS
  <2>2. QED
    BY <1>8, <2>1 DEF DeadLetter
<1>9. ASSUME NEW m \in Messages,
              StillNotBound(m)
      PROVE  ChatTypeOK'
  BY <1>9 DEF StillNotBound
<1>10. ASSUME NEW m \in Messages,
              PostFails(m)
      PROVE  ChatTypeOK'
  BY <1>10 DEF PostFails
<1>11. ASSUME NEW m \in Messages, NEW answered \in BOOLEAN,
              PostExecuted(m, answered)
      PROVE  ChatTypeOK'
  <2>1. /\ posts' \in [Messages -> Nat]
        /\ lost' \in [Messages -> Nat]
    BY <1>11 DEF PostExecuted
  <2>2. worker' \in [Messages -> WorkerStep]
    BY <1>11 DEF PostExecuted
  <2>3. QED
    BY <1>11, <2>1, <2>2 DEF PostExecuted
<1>12. ASSUME NEW m \in Messages,
              MarkDelivered(m)
      PROVE  ChatTypeOK'
  BY <1>12 DEF MarkDelivered
<1>13. ASSUME NEW m \in Messages,
              MarkFailed(m)
      PROVE  ChatTypeOK'
  <2>1. retries[m] < MaxAttempts
    BY <1>13 DEF MarkFailed, IInv, MessageInv, RowInv, Holding
  <2>2. retries[m] + 1 \in 0..MaxAttempts
    BY <2>1
  <2>3. QED
    BY <1>13, <2>2 DEF MarkFailed
<1>14. ASSUME NEW m \in Messages,
              TryAgain(m)
      PROVE  ChatTypeOK'
  <2>1. attempt[m] # MaxAttempts => attempt[m] + 1 \in 0..MaxAttempts
    OBVIOUS
  <2>2. attempt' \in [Messages -> 0..MaxAttempts]
    BY <1>14, <2>1 DEF TryAgain
  <2>3. QED
    BY <1>14, <2>2 DEF TryAgain
<1>15. ASSUME NEW m \in Messages,
              Resume(m)
      PROVE  ChatTypeOK'
  <2>1. 1 \in 0..MaxAttempts
    OBVIOUS
  <2>2. QED
    BY <1>15, <2>1 DEF Resume
<1>16. ASSUME NEW m \in Messages, NEW report \in Outcome,
              RunnerTaskResult(m, report)
      PROVE  ChatTypeOK'
  BY <1>16 DEF RunnerTaskResult, Listening
<1>17. ASSUME NEW m \in Messages, NEW c \in Commands, NEW report \in Outcome,
              ProcessRunEvent(m, c, report)
      PROVE  ChatTypeOK'
  BY <1>17 DEF ProcessRunEvent, Listening, EventIsNew
<1>18. ASSUME NEW m \in Messages, NEW c \in Commands,
              WriteBack(m, c)
      PROVE  ChatTypeOK'
  BY <1>18 DEF WriteBack
<1>19. CASE Restart
  BY <1>19 DEF Restart, Accepted
<1>20. CASE Listen
  BY <1>20 DEF Listen, NobodyWorks
<1>21. QED
  BY ONLY [ChatNext]_chatVars, <1>1, <1>2, <1>3, <1>4, <1>5, <1>6, <1>7, <1>8, <1>9, <1>10,
     <1>11, <1>12, <1>13, <1>14, <1>15, <1>16, <1>17, <1>18, <1>19, <1>20
  DEF ChatNext, WorkerSteps

\* Every step keeps the account of every message.
LEMMA MessageStep ==
    ASSUME IInv, [ChatNext]_chatVars, NEW n \in Messages
    PROVE  RowInv(n)' /\ AccountInv(n)'
<1>0. RowInv(n) /\ AccountInv(n)
  BY DEF IInv, MessageInv
<1>n. /\ posts[n] \in Nat /\ lost[n] \in Nat /\ retries[n] \in Nat /\ sent[n] \in Nat
      /\ restarts \in Nat /\ MaxAttempts \in Nat /\ MaxAttempts > 0
  BY ChatMessagesAssumption DEF IInv, ChatTypeOK
<1> USE DEF IInv, ChatTypeOK, serverVars, rowVars, workVars, wayVars, eventVars, histVars,
            RowInv, AccountInv, OtherWays, Ahead, Holding, Commands, Outcome, Settled
<1>1. CASE UNCHANGED chatVars
  BY <1>1, <1>0, <1>n DEF chatVars
<1>2. ASSUME NEW m \in Messages,
              Chat(m)
      PROVE  RowInv(n)' /\ AccountInv(n)'
  <2>1. CASE n = m
    BY <1>2, <2>1, <1>0, <1>n DEF Chat, AcceptUpMessage
  <2>2. CASE n # m
    BY <1>2, <2>2, <1>0, <1>n DEF Chat, AcceptUpMessage
  <2>3. QED
    BY ONLY <2>1, <2>2
<1>3. ASSUME NEW m \in Messages,
              ToLocalRunner(m)
      PROVE  RowInv(n)' /\ AccountInv(n)'
  <2>1. CASE n = m
    BY <1>3, <2>1, <1>0, <1>n, SMTT(30) DEF ToLocalRunner
  <2>2. CASE n # m
    BY <1>3, <2>2, <1>0, <1>n DEF ToLocalRunner
  <2>3. QED
    BY ONLY <2>1, <2>2
<1>4. ASSUME NEW m \in Messages,
              ToRemoteSite(m)
      PROVE  RowInv(n)' /\ AccountInv(n)'
  <2>1. CASE n = m
    BY <1>4, <2>1, <1>0, <1>n, SMTT(30) DEF ToRemoteSite
  <2>2. CASE n # m
    BY <1>4, <2>2, <1>0, <1>n DEF ToRemoteSite
  <2>3. QED
    BY ONLY <2>1, <2>2
<1>5. ASSUME NEW m \in Messages,
              UpsertRun(m)
      PROVE  RowInv(n)' /\ AccountInv(n)'
  BY <1>5, <1>0, <1>n DEF UpsertRun
<1>6. ASSUME NEW m \in Messages,
              RunnerOffline(m)
      PROVE  RowInv(n)' /\ AccountInv(n)'
  BY <1>6, <1>0, <1>n DEF RunnerOffline
<1>7. ASSUME NEW m \in Messages,
              NotBound(m)
      PROVE  RowInv(n)' /\ AccountInv(n)'
  BY <1>7, <1>0, <1>n DEF NotBound
<1>8. ASSUME NEW m \in Messages,
              DeadLetter(m)
      PROVE  RowInv(n)' /\ AccountInv(n)'
  <2>1. CASE n = m
    BY <1>8, <2>1, <1>0, <1>n DEF DeadLetter
  <2>2. CASE n # m
    BY <1>8, <2>2, <1>0, <1>n DEF DeadLetter
  <2>3. QED
    BY ONLY <2>1, <2>2
<1>9. ASSUME NEW m \in Messages,
              StillNotBound(m)
      PROVE  RowInv(n)' /\ AccountInv(n)'
  BY <1>9, <1>0, <1>n DEF StillNotBound
<1>10. ASSUME NEW m \in Messages,
              PostFails(m)
      PROVE  RowInv(n)' /\ AccountInv(n)'
  BY <1>10, <1>0, <1>n DEF PostFails
<1>11. ASSUME NEW m \in Messages, NEW answered \in BOOLEAN,
              PostExecuted(m, answered)
      PROVE  RowInv(n)' /\ AccountInv(n)'
  <2>1. CASE n = m
    <3>1. /\ worker[n] = "post" /\ status[n] = "accepted" /\ n \notin pending
          /\ posts'[n] = posts[n] + 1
          /\ lost'[n] = IF answered THEN lost[n] ELSE lost[n] + 1
          /\ worker'[n] = IF answered THEN "posted" ELSE "unposted"
          /\ UNCHANGED <<server, pending, status, retries, task, sent, restarts>>
      BY <1>11, <2>1, <1>0 DEF PostExecuted
    <3>2. /\ OtherWays(n) <= restarts /\ posts[n] + OtherWays(n) <= lost[n] + restarts
          /\ posts[n] <= retries[n] + restarts /\ retries[n] < MaxAttempts
          /\ server = "up" => task[n] = "none" /\ sent[n] = 0
      BY ONLY <3>1, <1>0 DEF RowInv, AccountInv, Ahead, Holding
    <3>3. OtherWays(n)' = OtherWays(n) /\ OtherWays(n) \in Nat
      BY ONLY <3>1, <1>n DEF OtherWays
    <3> HIDE DEF OtherWays
    <3>4. QED
      BY ONLY <3>1, <3>2, <3>3, <1>n DEF RowInv, AccountInv, Ahead, Holding
  <2>2. CASE n # m
    BY <1>11, <2>2, <1>0, <1>n DEF PostExecuted
  <2>3. QED
    BY ONLY <2>1, <2>2
<1>12. ASSUME NEW m \in Messages,
              MarkDelivered(m)
      PROVE  RowInv(n)' /\ AccountInv(n)'
  <2>1. CASE n = m
    BY <1>12, <2>1, <1>0, <1>n DEF MarkDelivered
  <2>2. CASE n # m
    BY <1>12, <2>2, <1>0, <1>n DEF MarkDelivered
  <2>3. QED
    BY ONLY <2>1, <2>2
<1>13. ASSUME NEW m \in Messages,
              MarkFailed(m)
      PROVE  RowInv(n)' /\ AccountInv(n)'
  <2>1. CASE n = m
    BY <1>13, <2>1, <1>0, <1>n DEF MarkFailed
  <2>2. CASE n # m
    BY <1>13, <2>2, <1>0, <1>n DEF MarkFailed
  <2>3. QED
    BY ONLY <2>1, <2>2
<1>14. ASSUME NEW m \in Messages,
              TryAgain(m)
      PROVE  RowInv(n)' /\ AccountInv(n)'
  BY <1>14, <1>0, <1>n DEF TryAgain
<1>15. ASSUME NEW m \in Messages,
              Resume(m)
      PROVE  RowInv(n)' /\ AccountInv(n)'
  BY <1>15, <1>0, <1>n DEF Resume
<1>16. ASSUME NEW m \in Messages, NEW report \in Outcome,
              RunnerTaskResult(m, report)
      PROVE  RowInv(n)' /\ AccountInv(n)'
  BY <1>16, <1>0, <1>n DEF RunnerTaskResult, Listening
<1>17. ASSUME NEW m \in Messages, NEW c \in Commands, NEW report \in Outcome,
              ProcessRunEvent(m, c, report)
      PROVE  RowInv(n)' /\ AccountInv(n)'
  <2>1. CASE n = m
    <3>1. sent[n] # 0
      BY <1>17, <2>1, <1>n DEF ProcessRunEvent, Listening, EventIsNew
    <3>2. QED
      BY <1>17, <2>1, <3>1, <1>0, <1>n DEF ProcessRunEvent, Listening, EventIsNew
  <2>2. CASE n # m
    BY <1>17, <2>2, <1>0, <1>n DEF ProcessRunEvent, Listening, EventIsNew
  <2>3. QED
    BY ONLY <2>1, <2>2
<1>18. ASSUME NEW m \in Messages, NEW c \in Commands,
              WriteBack(m, c)
      PROVE  RowInv(n)' /\ AccountInv(n)'
  BY <1>18, <1>0, <1>n DEF WriteBack
<1>19. CASE Restart
  <2>1. /\ restarts' = restarts + 1 /\ server' = "starting"
        /\ worker'[n] = "idle"
        /\ n \in pending' => status[n] = "accepted"
        /\ UNCHANGED <<status, retries, task, sent, posts, lost>>
    BY <1>19 DEF Restart, Accepted
  <2>2. OtherWays(n)' = OtherWays(n) /\ OtherWays(n) \in Nat
    BY ONLY <2>1, <1>n DEF OtherWays
  <2> HIDE DEF OtherWays
  <2>3. QED
    BY ONLY <2>1, <2>2, <1>0, <1>n DEF RowInv, AccountInv, Ahead, Holding
<1>20. CASE Listen
  BY <1>20, <1>0, <1>n DEF Listen, NobodyWorks
<1>21. QED
  BY ONLY [ChatNext]_chatVars, <1>1, <1>2, <1>3, <1>4, <1>5, <1>6, <1>7, <1>8, <1>9, <1>10,
     <1>11, <1>12, <1>13, <1>14, <1>15, <1>16, <1>17, <1>18, <1>19, <1>20
  DEF ChatNext, WorkerSteps

\* Every step keeps the reasons for which messages are delivered.
LEMMA AnswerStep ==
    ASSUME IInv, [ChatNext]_chatVars, NEW n \in Messages
    PROVE  AnswerInv(n)'
<1>0. AnswerInv(n) /\ RowInv(n) /\ AccountInv(n)
  BY DEF IInv, MessageInv
<1>n. /\ posts[n] \in Nat /\ lost[n] \in Nat /\ retries[n] \in Nat /\ sent[n] \in Nat
      /\ restarts \in Nat /\ MaxAttempts \in Nat /\ MaxAttempts > 0
  BY ChatMessagesAssumption DEF IInv, ChatTypeOK
<1> USE DEF IInv, ChatTypeOK, serverVars, rowVars, workVars, wayVars, eventVars, histVars,
            AnswerInv, RowInv, AccountInv, Commands, Outcome, Settled, Holding
<1>1. CASE UNCHANGED chatVars
  BY <1>1, <1>0, <1>n DEF chatVars
<1>2. ASSUME NEW m \in Messages,
              Chat(m)
      PROVE  AnswerInv(n)'
  BY <1>2, <1>0, <1>n DEF Chat, AcceptUpMessage
<1>3. ASSUME NEW m \in Messages,
              ToLocalRunner(m)
      PROVE  AnswerInv(n)'
  BY <1>3, <1>0, <1>n DEF ToLocalRunner
<1>4. ASSUME NEW m \in Messages,
              ToRemoteSite(m)
      PROVE  AnswerInv(n)'
  <2>1. CASE n = m
    BY <1>4, <2>1, <1>0, <1>n DEF ToRemoteSite
  <2>2. CASE n # m
    BY <1>4, <2>2, <1>0, <1>n DEF ToRemoteSite
  <2>3. QED
    BY ONLY <2>1, <2>2
<1>5. ASSUME NEW m \in Messages,
              UpsertRun(m)
      PROVE  AnswerInv(n)'
  BY <1>5, <1>0, <1>n DEF UpsertRun
<1>6. ASSUME NEW m \in Messages,
              RunnerOffline(m)
      PROVE  AnswerInv(n)'
  BY <1>6, <1>0, <1>n DEF RunnerOffline
<1>7. ASSUME NEW m \in Messages,
              NotBound(m)
      PROVE  AnswerInv(n)'
  BY <1>7, <1>0, <1>n DEF NotBound
<1>8. ASSUME NEW m \in Messages,
              DeadLetter(m)
      PROVE  AnswerInv(n)'
  BY <1>8, <1>0, <1>n DEF DeadLetter
<1>9. ASSUME NEW m \in Messages,
              StillNotBound(m)
      PROVE  AnswerInv(n)'
  BY <1>9, <1>0, <1>n DEF StillNotBound
<1>10. ASSUME NEW m \in Messages,
              PostFails(m)
      PROVE  AnswerInv(n)'
  BY <1>10, <1>0, <1>n DEF PostFails
<1>11. ASSUME NEW m \in Messages, NEW answered \in BOOLEAN,
              PostExecuted(m, answered)
      PROVE  AnswerInv(n)'
  BY <1>11, <1>0, <1>n, SMTT(30) DEF PostExecuted
<1>12. ASSUME NEW m \in Messages,
              MarkDelivered(m)
      PROVE  AnswerInv(n)'
  <2>1. CASE n = m
    BY <1>12, <2>1, <1>0, <1>n DEF MarkDelivered
  <2>2. CASE n # m
    BY <1>12, <2>2, <1>0, <1>n DEF MarkDelivered
  <2>3. QED
    BY ONLY <2>1, <2>2
<1>13. ASSUME NEW m \in Messages,
              MarkFailed(m)
      PROVE  AnswerInv(n)'
  BY <1>13, <1>0, <1>n DEF MarkFailed
<1>14. ASSUME NEW m \in Messages,
              TryAgain(m)
      PROVE  AnswerInv(n)'
  BY <1>14, <1>0, <1>n DEF TryAgain
<1>15. ASSUME NEW m \in Messages,
              Resume(m)
      PROVE  AnswerInv(n)'
  BY <1>15, <1>0, <1>n DEF Resume
<1>16. ASSUME NEW m \in Messages, NEW report \in Outcome,
              RunnerTaskResult(m, report)
      PROVE  AnswerInv(n)'
  BY <1>16, <1>0, <1>n DEF RunnerTaskResult, Listening
<1>17. ASSUME NEW m \in Messages, NEW c \in Commands, NEW report \in Outcome,
              ProcessRunEvent(m, c, report)
      PROVE  AnswerInv(n)'
  BY <1>17, <1>0, <1>n DEF ProcessRunEvent, Listening, EventIsNew
<1>18. ASSUME NEW m \in Messages, NEW c \in Commands,
              WriteBack(m, c)
      PROVE  AnswerInv(n)'
  BY <1>18, <1>0, <1>n DEF WriteBack
<1>19. CASE Restart
  BY <1>19, <1>0, <1>n DEF Restart, Accepted
<1>20. CASE Listen
  BY <1>20, <1>0, <1>n DEF Listen, NobodyWorks
<1>21. QED
  BY ONLY [ChatNext]_chatVars, <1>1, <1>2, <1>3, <1>4, <1>5, <1>6, <1>7, <1>8, <1>9, <1>10,
     <1>11, <1>12, <1>13, <1>14, <1>15, <1>16, <1>17, <1>18, <1>19, <1>20
  DEF ChatNext, WorkerSteps

\* The inductive invariant: the account of each message holds in every behaviour.
THEOREM ChatInvariance == ChatSpec => []IInv
<1>1. ChatInit => IInv
  BY InitInv
<1>2. IInv /\ [ChatNext]_chatVars => IInv'
  BY TypeStep, MessageStep, AnswerStep DEF IInv, MessageInv
<1>3. QED
  BY <1>1, <1>2, PTL DEF ChatSpec

\* The rows of messages, runs and terminals, the workers and the counts of tries and
\* commands stay in their types; in particular no try is counted beyond the limit.
THEOREM ChatTypeCorrect == ChatSpec => []ChatTypeOK
<1>1. IInv => ChatTypeOK
  BY DEF IInv
<1>2. QED
  BY ChatInvariance, <1>1, PTL

\* Whatever requests are repeated, ways change and stops of the relay come in between
\* (handlers.js chat, deliverWithRetry, resumePending), the work is done once, and
\* again only for a lost answer or a stop; and the tries of WorkPanel are limited.
THEOREM BoundedHandoversHolds == ChatSpec => []BoundedHandovers
<1>1. ASSUME IInv
      PROVE  BoundedHandovers
  <2>1. ASSUME NEW m \in Messages
        PROVE  /\ Handovers(m) <= 1 + lost[m] + restarts
               /\ posts[m] <= MaxAttempts + restarts
    <3>1. AccountInv(m)
      BY <1>1 DEF IInv, MessageInv
    <3>2. posts[m] \in Nat /\ lost[m] \in Nat /\ sent[m] \in Nat /\ restarts \in Nat
      BY <1>1, ChatMessagesAssumption DEF IInv, ChatTypeOK
    <3>3. QED
      BY <3>1, <3>2 DEF AccountInv, Handovers, OtherWays
  <2>2. QED
    BY <2>1 DEF BoundedHandovers, CarriedOutOnce, TriesAreCounted
<1>2. QED
  BY ChatInvariance, <1>1, PTL

-----------------------------------------------------------------------------

\* What AnswerStands says of one message.
Stands(m) ==
    /\ status[m] \in Settled => status'[m] \in Settled
    /\ status[m] = "delivered" /\ Handovers(m) = 1 => status'[m] = "delivered"

LEMMA StandsStep ==
    ASSUME IInv, [ChatNext]_chatVars, NEW n \in Messages
    PROVE  Stands(n)
<1>0. AnswerInv(n) /\ RowInv(n)
  BY DEF IInv, MessageInv
<1>n. /\ posts[n] \in Nat /\ lost[n] \in Nat /\ retries[n] \in Nat /\ sent[n] \in Nat
      /\ restarts \in Nat /\ MaxAttempts \in Nat /\ MaxAttempts > 0
  BY ChatMessagesAssumption DEF IInv, ChatTypeOK
<1> USE DEF IInv, ChatTypeOK, serverVars, rowVars, workVars, wayVars, eventVars, histVars,
            Stands, AnswerInv, RowInv, Handovers, Outcome, Settled, Holding
<1>1. CASE UNCHANGED chatVars
  BY <1>1, <1>0, <1>n DEF chatVars
<1>2. ASSUME NEW m \in Messages,
              Chat(m)
      PROVE  Stands(n)
  BY <1>2, <1>0, <1>n DEF Chat, AcceptUpMessage
<1>3. ASSUME NEW m \in Messages,
              ToLocalRunner(m)
      PROVE  Stands(n)
  BY <1>3, <1>0, <1>n DEF ToLocalRunner
<1>4. ASSUME NEW m \in Messages,
              ToRemoteSite(m)
      PROVE  Stands(n)
  BY <1>4, <1>0, <1>n DEF ToRemoteSite
<1>5. ASSUME NEW m \in Messages,
              UpsertRun(m)
      PROVE  Stands(n)
  BY <1>5, <1>0, <1>n DEF UpsertRun
<1>6. ASSUME NEW m \in Messages,
              RunnerOffline(m)
      PROVE  Stands(n)
  BY <1>6, <1>0, <1>n DEF RunnerOffline
<1>7. ASSUME NEW m \in Messages,
              NotBound(m)
      PROVE  Stands(n)
  BY <1>7, <1>0, <1>n DEF NotBound
<1>8. ASSUME NEW m \in Messages,
              DeadLetter(m)
      PROVE  Stands(n)
  BY <1>8, <1>0, <1>n DEF DeadLetter
<1>9. ASSUME NEW m \in Messages,
              StillNotBound(m)
      PROVE  Stands(n)
  BY <1>9, <1>0, <1>n DEF StillNotBound
<1>10. ASSUME NEW m \in Messages,
              PostFails(m)
      PROVE  Stands(n)
  BY <1>10, <1>0, <1>n DEF PostFails
<1>11. ASSUME NEW m \in Messages, NEW answered \in BOOLEAN,
              PostExecuted(m, answered)
      PROVE  Stands(n)
  BY <1>11, <1>0, <1>n DEF PostExecuted
<1>12. ASSUME NEW m \in Messages,
              MarkDelivered(m)
      PROVE  Stands(n)
  BY <1>12, <1>0, <1>n DEF MarkDelivered
<1>13. ASSUME NEW m \in Messages,
              MarkFailed(m)
      PROVE  Stands(n)
  BY <1>13, <1>0, <1>n DEF MarkFailed
<1>14. ASSUME NEW m \in Messages,
              TryAgain(m)
      PROVE  Stands(n)
  BY <1>14, <1>0, <1>n DEF TryAgain
<1>15. ASSUME NEW m \in Messages,
              Resume(m)
      PROVE  Stands(n)
  BY <1>15, <1>0, <1>n DEF Resume
<1>16. ASSUME NEW m \in Messages, NEW report \in Outcome,
              RunnerTaskResult(m, report)
      PROVE  Stands(n)
  <2>1. CASE n = m /\ status[n] = "delivered" /\ Handovers(n) = 1
    <3>0. task[n] = "queued"
      BY <1>16, <2>1 DEF RunnerTaskResult, Listening
    <3>1. task[n] = "queued" /\ sent[n] = 0 /\ posts[n] = 0
      BY ONLY <3>0, <2>1, <1>n DEF Handovers
    <3>2. PICK d \in Commands : terminal[n][d] # "none" /\ d <= sent[n]
      BY <2>1, <3>1, <1>0
    <3>3. QED
      BY <3>1, <3>2, ChatMessagesAssumption DEF Commands
  <2>2. CASE ~(n = m /\ status[n] = "delivered" /\ Handovers(n) = 1)
    BY <1>16, <2>2, <1>0, <1>n DEF RunnerTaskResult, Listening
  <2>3. QED
    BY ONLY <2>1, <2>2
<1>17. ASSUME NEW m \in Messages, NEW c \in Commands, NEW report \in Outcome,
              ProcessRunEvent(m, c, report)
      PROVE  Stands(n)
  <2>1. CASE n = m /\ status[n] = "delivered" /\ Handovers(n) = 1
    <3>1. sent[n] = 1 /\ posts[n] = 0 /\ task[n] = "none" /\ c = 1
      BY <1>17, <2>1, <1>n, ChatMessagesAssumption DEF ProcessRunEvent, Listening, EventIsNew, Commands
    <3>2. PICK d \in Commands : terminal[n][d] # "none" /\ d <= sent[n]
      BY <2>1, <3>1, <1>0
    <3>3. d = 1
      BY <3>1, <3>2, ChatMessagesAssumption DEF Commands
    <3>4. QED
      BY <1>17, <2>1, <3>1, <3>2, <3>3 DEF ProcessRunEvent, Listening, EventIsNew
  <2>2. CASE ~(n = m /\ status[n] = "delivered" /\ Handovers(n) = 1)
    BY <1>17, <2>2, <1>0, <1>n DEF ProcessRunEvent, Listening, EventIsNew
  <2>3. QED
    BY ONLY <2>1, <2>2
<1>18. ASSUME NEW m \in Messages, NEW c \in Commands,
              WriteBack(m, c)
      PROVE  Stands(n)
  BY <1>18, <1>0, <1>n DEF WriteBack
<1>19. CASE Restart
  BY <1>19, <1>0, <1>n DEF Restart, Accepted
<1>20. CASE Listen
  BY <1>20, <1>0, <1>n DEF Listen, NobodyWorks
<1>21. QED
  BY ONLY [ChatNext]_chatVars, <1>1, <1>2, <1>3, <1>4, <1>5, <1>6, <1>7, <1>8, <1>9, <1>10,
     <1>11, <1>12, <1>13, <1>14, <1>15, <1>16, <1>17, <1>18, <1>19, <1>20
  DEF ChatNext, WorkerSteps

\* A settled message is not taken up again by a retry or after a stop, and a delivered
\* one stays delivered whatever answers come late, twice or in conflict (markFailed,
\* deliverWithRetry, federation_run_terminals), unless it was handed over twice.
THEOREM AnswerStandsHolds == ChatSpec => AnswerStands
<1>1. IInv /\ [ChatNext]_chatVars => [\A m \in Messages : Stands(m)]_chatVars
  BY StandsStep
<1>2. QED
  BY ChatInvariance, <1>1, PTL DEF ChatSpec, AnswerStands, Stands

-----------------------------------------------------------------------------
(* The handovers.  The mapping is by message, and IInv is all it needs to      *)
(* know: whoever works on a message holds it accepted, with an excuse left.    *)

\* What Handover knows of the messages.
message == [m \in Messages |-> MessageOf(m)]

Excused(m) == lost[m] + restarts

Becomes(m, told, times, excuses, ways) ==
    /\ status'[m] = told /\ Handovers(m)' = times
    /\ Excused(m)' = excuses /\ Due(m)' = ways

\* How a message may move, in the words of the relay.
MayMove(m) ==
    \/ Becomes(m, status[m], Handovers(m), Excused(m), Due(m))
    \/ status[m] = "absent" /\ Becomes(m, "accepted", Handovers(m), Excused(m), Due(m))
    \/ status[m] = "accepted" /\ Becomes(m, "failed", Handovers(m), Excused(m), Due(m))
    \/ /\ status[m] = "accepted" /\ Handovers(m) <= Excused(m)
       /\ Becomes(m, status[m], Handovers(m) + 1, Excused(m) + 1, Due(m))
    \/ \E way \in Ways \ Due(m) :
        /\ status[m] = "accepted" /\ Handovers(m) <= Excused(m)
        /\ Becomes(m, status[m], Handovers(m) + 1, Excused(m), Due(m) \cup {way})
    \/ \E way \in Due(m), verdict \in Settled :
        Becomes(m, verdict, Handovers(m), Excused(m), Due(m) \ {way})
    \/ \E kept \in SUBSET Due(m) :
        Becomes(m, status[m], Handovers(m), Excused(m) + 1, kept)

LEMMA MessageMoves ==
    ASSUME NEW n \in Messages, MayMove(n)
    PROVE  Handed!Moves(n) \/ message'[n] = message[n]
<1>1. /\ message[n] = [status |-> status[n], handed |-> Handovers(n),
                       excused |-> Excused(n), due |-> Due(n)]
      /\ message'[n] = [status |-> status'[n], handed |-> Handovers(n)',
                        excused |-> Excused(n)', due |-> Due(n)']
  BY DEF message, MessageOf, Excused
<1>2. /\ message[n].status = status[n] /\ message[n].handed = Handovers(n)
      /\ message[n].excused = Excused(n) /\ message[n].due = Due(n)
  BY <1>1
<1>3. CASE Becomes(n, status[n], Handovers(n), Excused(n), Due(n))
  BY <1>1, <1>3 DEF Becomes
<1>4. CASE status[n] = "absent" /\ Becomes(n, "accepted", Handovers(n), Excused(n), Due(n))
  <2>1. message'[n] = [message[n] EXCEPT !.status = "accepted"]
    BY <1>1, <1>4 DEF Becomes
  <2>2. Handed!Store(n)
    BY <1>2, <1>4, <2>1 DEF message, Handed!Store
  <2> QED
    BY <2>2 DEF Handed!Moves
<1>5. CASE status[n] = "accepted" /\ Becomes(n, "failed", Handovers(n), Excused(n), Due(n))
  <2>1. message'[n] = [message[n] EXCEPT !.status = "failed"]
    BY <1>1, <1>5 DEF Becomes
  <2>2. Handed!GiveUp(n)
    BY <1>2, <1>5, <2>1 DEF message, Handed!GiveUp
  <2> QED
    BY <2>2 DEF Handed!Moves
<1>6. CASE /\ status[n] = "accepted" /\ Handovers(n) <= Excused(n)
           /\ Becomes(n, status[n], Handovers(n) + 1, Excused(n) + 1, Due(n))
  <2> DEFINE moved == [message[n] EXCEPT !.handed = Handovers(n) + 1]
  <2>a. moved = [status |-> status[n], handed |-> Handovers(n) + 1,
                 excused |-> Excused(n), due |-> Due(n)]
    BY <1>1
  <2> HIDE DEF moved
  <2>b. message'[n] = [moved EXCEPT !.excused = Excused(n) + 1]
    BY <1>1, <1>6, <2>a DEF Becomes
  <2>0. message'[n] = [message[n] EXCEPT !.handed = Handovers(n) + 1, !.excused = Excused(n) + 1]
    BY <2>b, Zenon DEF moved
  <2>1. message'[n] = [message[n] EXCEPT !.handed = @ + 1, !.excused = @ + 1]
    BY <1>2, <2>0, Zenon
  <2>2. Handed!HandOverUnanswered(n)
    BY <1>2, <1>6, <2>1 DEF message, Handed!HandOverUnanswered, Handed!MayBeHandedOver
  <2> QED
    BY <2>2 DEF Handed!Moves
<1>7. ASSUME NEW way \in Ways \ Due(n), status[n] = "accepted", Handovers(n) <= Excused(n),
             Becomes(n, status[n], Handovers(n) + 1, Excused(n), Due(n) \cup {way})
      PROVE  Handed!Moves(n)
  <2> DEFINE moved == [message[n] EXCEPT !.handed = Handovers(n) + 1]
  <2>a. moved = [status |-> status[n], handed |-> Handovers(n) + 1,
                 excused |-> Excused(n), due |-> Due(n)]
    BY <1>1
  <2> HIDE DEF moved
  <2>b. message'[n] = [moved EXCEPT !.due = Due(n) \cup {way}]
    BY <1>1, <1>7, <2>a DEF Becomes
  <2>0. message'[n] = [message[n] EXCEPT !.handed = Handovers(n) + 1, !.due = Due(n) \cup {way}]
    BY <2>b, Zenon DEF moved
  <2>1. message'[n] = [message[n] EXCEPT !.handed = @ + 1, !.due = @ \cup {way}]
    BY <1>2, <2>0, Zenon
  <2>2. Handed!HandOver(n, way)
    BY <1>2, <1>7, <2>1 DEF message, Handed!HandOver, Handed!MayBeHandedOver
  <2> QED
    BY <2>2 DEF Handed!Moves
<1>8. ASSUME NEW way \in Due(n), NEW verdict \in Settled,
             Becomes(n, verdict, Handovers(n), Excused(n), Due(n) \ {way})
      PROVE  Handed!Moves(n)
  <2> DEFINE moved == [message[n] EXCEPT !.status = verdict]
  <2>a. moved = [status |-> verdict, handed |-> Handovers(n),
                 excused |-> Excused(n), due |-> Due(n)]
    BY <1>1
  <2> HIDE DEF moved
  <2>b. message'[n] = [moved EXCEPT !.due = Due(n) \ {way}]
    BY <1>1, <1>8, <2>a DEF Becomes
  <2>0. message'[n] = [message[n] EXCEPT !.status = verdict, !.due = Due(n) \ {way}]
    BY <2>b, Zenon DEF moved
  <2>1. message'[n] = [message[n] EXCEPT !.status = verdict, !.due = @ \ {way}]
    BY <1>2, <2>0, Zenon
  <2>2. Handed!Answer(n, way, verdict)
    BY <1>2, <1>8, <2>1 DEF message, Handed!Answer
  <2>3. way \in Ways /\ verdict \in Handed!Settled
    BY DEF Due, Settled, Handed!Settled
  <2> QED
    BY <2>2, <2>3 DEF Handed!Moves
<1>9. ASSUME NEW kept \in SUBSET Due(n),
             Becomes(n, status[n], Handovers(n), Excused(n) + 1, kept)
      PROVE  Handed!Moves(n)
  <2> DEFINE moved == [message[n] EXCEPT !.excused = Excused(n) + 1]
  <2>a. moved = [status |-> status[n], handed |-> Handovers(n),
                 excused |-> Excused(n) + 1, due |-> Due(n)]
    BY <1>1
  <2> HIDE DEF moved
  <2>b. message'[n] = [moved EXCEPT !.due = kept]
    BY <1>1, <1>9, <2>a DEF Becomes
  <2>0. message'[n] = [message[n] EXCEPT !.excused = Excused(n) + 1, !.due = kept]
    BY <2>b, Zenon DEF moved
  <2>1. message'[n] = [message[n] EXCEPT !.excused = @ + 1, !.due = kept]
    BY <1>2, <2>0, Zenon
  <2>2. \E rest \in SUBSET message[n].due :
            message'[n] = [message[n] EXCEPT !.excused = @ + 1, !.due = rest]
    BY <1>2, <2>1, Zenon
  <2>3. Handed!Stop(n)
    BY <2>2, Zenon DEF message, Handed!Stop
  <2> QED
    BY <2>3 DEF Handed!Moves
<1> QED
  BY <1>3, <1>4, <1>5, <1>6, <1>7, <1>8, <1>9 DEF MayMove

\* A step that hands nothing over and notes no answer.
LEMMA NothingHanded ==
    ASSUME NEW n \in Messages,
           posts'[n] = posts[n], sent'[n] = sent[n], task'[n] = task[n],
           terminal'[n] = terminal[n], worker'[n] = "posted" <=> worker[n] = "posted"
    PROVE  Handovers(n)' = Handovers(n) /\ Due(n)' = Due(n)
BY DEF Handovers, Due

\* A step that leaves the row too.
LEMMA NothingMoves ==
    ASSUME NEW n \in Messages, status'[n] = status[n],
           posts'[n] = posts[n], sent'[n] = sent[n], task'[n] = task[n],
           terminal'[n] = terminal[n], worker'[n] = "posted" <=> worker[n] = "posted",
           lost'[n] = lost[n], restarts' = restarts
    PROVE  MayMove(n)
BY NothingHanded DEF MayMove, Becomes, Excused

\* Who is about to hand a message over holds it accepted, with an excuse.
LEMMA HolderMay ==
    ASSUME IInv, NEW n \in Messages, worker[n] \in {"dispatch", "deliver", "post"}
    PROVE  status[n] = "accepted" /\ Handovers(n) <= Excused(n)
<1>1. /\ worker[n] \in Holding \ {"pause"} /\ worker[n] # "posted"
      /\ RowInv(n) /\ AccountInv(n)
  BY DEF Holding, IInv, MessageInv
<1>2. status[n] = "accepted"
  BY <1>1 DEF RowInv
<1>3. posts[n] + OtherWays(n) <= lost[n] + restarts
  BY <1>1 DEF AccountInv, Ahead
<1>4. posts[n] \in Nat /\ sent[n] \in Nat
  BY DEF IInv, ChatTypeOK
<1> QED
  BY <1>2, <1>3, <1>4 DEF Handovers, OtherWays, Excused

\* Every step of the relay moves a message as Handover allows.
LEMMA HandoverStep ==
    ASSUME IInv, [ChatNext]_chatVars, NEW n \in Messages
    PROVE  MayMove(n)
<1>0. ChatTypeOK /\ RowInv(n) /\ AnswerInv(n)
  BY DEF IInv, MessageInv
<1>n. /\ posts[n] \in Nat /\ lost[n] \in Nat /\ sent[n] \in Nat /\ restarts \in Nat
  BY <1>0 DEF ChatTypeOK
<1> USE DEF serverVars, rowVars, workVars, wayVars, eventVars, histVars
<1>1. CASE UNCHANGED chatVars
  BY <1>1, NothingMoves DEF chatVars
<1>2. ASSUME NEW m \in Messages, Chat(m)
      PROVE  MayMove(n)
  <2>1. /\ UNCHANGED <<posts, sent, task, terminal, lost, restarts>>
        /\ worker'[n] = "posted" <=> worker[n] = "posted"
    BY <1>0, <1>2 DEF Chat, ChatTypeOK, RowInv
  <2>2. \/ status'[n] = status[n]
        \/ status[n] = "absent" /\ status'[n] = "accepted"
    BY <1>0, <1>2 DEF Chat, AcceptUpMessage, ChatTypeOK
  <2> QED
    BY <2>1, <2>2, NothingHanded DEF MayMove, Becomes, Excused
<1>3. ASSUME NEW m \in Messages, ToLocalRunner(m)
      PROVE  MayMove(n)
  <2>1. /\ UNCHANGED <<status, posts, sent, terminal, lost, restarts>>
        /\ worker'[n] = "posted" <=> worker[n] = "posted"
    BY <1>0, <1>3 DEF ToLocalRunner, ChatTypeOK
  <2>2. CASE task'[n] = task[n]
    BY <2>1, <2>2, NothingMoves
  <2>3. CASE task'[n] # task[n]
    <3>1. n = m /\ task[n] = "none" /\ task'[n] = "queued"
      BY <1>0, <1>3, <2>3 DEF ToLocalRunner, ChatTypeOK
    <3>2. Handovers(n)' = Handovers(n) + 1
      BY <2>1, <3>1, <1>n DEF Handovers
    <3>3. LocalTask \in Ways \ Due(n) /\ Due(n)' = Due(n) \cup {LocalTask}
      BY <2>1, <3>1, <1>n DEF Due, Ways, LocalTask, WorkPanelPost
    <3>4. status[n] = "accepted" /\ Handovers(n) <= Excused(n)
      BY <1>3, <3>1, HolderMay DEF ToLocalRunner
    <3>5. Becomes(n, status[n], Handovers(n) + 1, Excused(n), Due(n) \cup {LocalTask})
      BY <2>1, <3>2, <3>3 DEF Becomes, Excused
    <3> QED
      BY <3>3, <3>4, <3>5 DEF MayMove
  <2> QED
    BY <2>2, <2>3
<1>4. ASSUME NEW m \in Messages, ToRemoteSite(m)
      PROVE  MayMove(n)
  <2>1. /\ UNCHANGED <<status, posts, task, terminal, lost, restarts>>
        /\ worker'[n] = "posted" <=> worker[n] = "posted"
    BY <1>0, <1>4 DEF ToRemoteSite, ChatTypeOK
  <2>2. CASE n # m
    <3>1. sent'[n] = sent[n]
      BY <1>0, <1>4, <2>2 DEF ToRemoteSite, ChatTypeOK
    <3> QED
      BY <2>1, <3>1, NothingMoves
  <2>3. CASE n = m
    <3>1. sent'[n] = sent[n] + 1
      BY <1>0, <1>4, <2>3 DEF ToRemoteSite, ChatTypeOK
    <3> DEFINE way == sent[n] + 1
    <3>2. status[n] = "accepted" /\ Handovers(n) <= Excused(n)
      BY <1>4, <2>3, HolderMay DEF ToRemoteSite
    <3>3. way \in Commands
      <4>1. OtherWays(n) <= restarts /\ restarts \in 0..MaxRestarts
        BY <1>4, <2>3 DEF ToRemoteSite, IInv, MessageInv, AccountInv, Ahead, Holding, ChatTypeOK
      <4> QED
        BY <4>1, <1>n, ChatMessagesAssumption DEF OtherWays, Commands
    <3>4. terminal[n][way] = "none"
      BY <1>0, <1>n, <3>3 DEF AnswerInv
    <3>5. Handovers(n)' = Handovers(n) + 1
      BY <2>1, <3>1, <1>n DEF Handovers
    <3>6. way \in Ways \ Due(n)
      BY <1>n, <3>3 DEF Ways, Due, LocalTask, WorkPanelPost
    <3>7. Due(n)' = Due(n) \cup {way}
      <4>1. \A w \in Ways : w \in 1..sent'[n] <=> w \in 1..sent[n] \/ w = way
        BY <1>n, <3>1, ChatMessagesAssumption DEF Ways, LocalTask, WorkPanelPost, Commands
      <4> QED
        BY <2>1, <3>4, <3>6, <4>1 DEF Due
    <3>8. Becomes(n, status[n], Handovers(n) + 1, Excused(n), Due(n) \cup {way})
      BY <2>1, <3>5, <3>7 DEF Becomes, Excused
    <3> QED
      BY <3>2, <3>6, <3>8 DEF MayMove
  <2> QED
    BY <2>2, <2>3
<1>5. ASSUME NEW m \in Messages,
             \/ UpsertRun(m) \/ RunnerOffline(m) \/ NotBound(m) \/ StillNotBound(m)
             \/ PostFails(m) \/ TryAgain(m) \/ Resume(m)
             \/ \E c \in Commands : WriteBack(m, c)
      PROVE  MayMove(n)
  <2>1. UNCHANGED <<status, posts, sent, task, terminal, lost, restarts>>
    BY <1>5 DEF UpsertRun, RunnerOffline, NotBound, StillNotBound, PostFails, TryAgain,
                Resume, WriteBack
  <2>2. worker'[n] = "posted" <=> worker[n] = "posted"
    BY <1>0, <1>5 DEF UpsertRun, RunnerOffline, NotBound, StillNotBound, PostFails, TryAgain,
                Resume, WriteBack, ChatTypeOK, NobodyWorks
  <2> QED
    BY <2>1, <2>2, NothingMoves
<1>6. ASSUME NEW m \in Messages, DeadLetter(m) \/ MarkFailed(m)
      PROVE  MayMove(n)
  <2>1. /\ UNCHANGED <<posts, sent, task, terminal, lost, restarts>>
        /\ worker'[n] = "posted" <=> worker[n] = "posted"
    BY <1>0, <1>6 DEF DeadLetter, MarkFailed, ChatTypeOK
  <2>2. \/ status'[n] = status[n]
        \/ status[n] = "accepted" /\ status'[n] = "failed"
    BY <1>0, <1>6 DEF DeadLetter, MarkFailed, ChatTypeOK, RowInv, Holding
  <2> QED
    BY <2>1, <2>2, NothingHanded DEF MayMove, Becomes, Excused
<1>7. ASSUME NEW m \in Messages, NEW answered \in BOOLEAN, PostExecuted(m, answered)
      PROVE  MayMove(n)
  <2>1. UNCHANGED <<status, sent, task, terminal, restarts>>
    BY <1>7 DEF PostExecuted
  <2>2. CASE n # m
    <3>1. posts'[n] = posts[n] /\ lost'[n] = lost[n] /\ worker'[n] = worker[n]
      BY <1>0, <1>7, <2>2 DEF PostExecuted, ChatTypeOK
    <3> QED
      BY <2>1, <3>1, NothingMoves
  <2>3. CASE n = m
    <3>1. status[n] = "accepted" /\ Handovers(n) <= Excused(n)
      BY <1>7, <2>3, HolderMay DEF PostExecuted
    <3>2. /\ worker[n] = "post" /\ posts'[n] = posts[n] + 1
          /\ lost'[n] = IF answered THEN lost[n] ELSE lost[n] + 1
          /\ worker'[n] = IF answered THEN "posted" ELSE "unposted"
      BY <1>0, <1>7, <2>3 DEF PostExecuted, ChatTypeOK
    <3>3. Handovers(n)' = Handovers(n) + 1
      BY <2>1, <3>2, <1>n DEF Handovers
    <3>4. CASE ~answered
      <4>1. Due(n)' = Due(n)
        BY <2>1, <3>2, <3>4 DEF Due
      <4>2. Excused(n)' = Excused(n) + 1
        BY <2>1, <3>2, <3>4, <1>n DEF Excused
      <4> QED
        BY <2>1, <3>1, <3>3, <4>1, <4>2 DEF MayMove, Becomes
    <3>5. CASE answered
      <4>1. WorkPanelPost \in Ways \ Due(n) /\ Due(n)' = Due(n) \cup {WorkPanelPost}
        BY <2>1, <3>2, <3>5, <1>n DEF Due, Ways, LocalTask, WorkPanelPost
      <4>2. Becomes(n, status[n], Handovers(n) + 1, Excused(n), Due(n) \cup {WorkPanelPost})
        BY <2>1, <3>2, <3>3, <3>5, <4>1 DEF Becomes, Excused
      <4> QED
        BY <3>1, <4>1, <4>2 DEF MayMove
    <3> QED
      BY <3>4, <3>5
  <2> QED
    BY <2>2, <2>3
<1>8. ASSUME NEW m \in Messages, MarkDelivered(m)
      PROVE  MayMove(n)
  <2>1. UNCHANGED <<posts, sent, task, terminal, lost, restarts>>
    BY <1>8 DEF MarkDelivered
  <2>2. CASE n # m
    <3>1. status'[n] = status[n] /\ worker'[n] = worker[n]
      BY <1>0, <1>8, <2>2 DEF MarkDelivered, ChatTypeOK
    <3> QED
      BY <2>1, <3>1, NothingMoves
  <2>3. CASE n = m
    <3>1. worker[n] = "posted" /\ worker'[n] = "idle" /\ status'[n] = "delivered"
      BY <1>0, <1>8, <2>3 DEF MarkDelivered, ChatTypeOK
    <3>2. Handovers(n)' = Handovers(n)
      BY <2>1 DEF Handovers
    <3>3. WorkPanelPost \in Due(n) /\ Due(n)' = Due(n) \ {WorkPanelPost}
      BY <2>1, <3>1, <1>n DEF Due, Ways, LocalTask, WorkPanelPost
    <3>4. Becomes(n, "delivered", Handovers(n), Excused(n), Due(n) \ {WorkPanelPost})
      BY <2>1, <3>1, <3>2, <3>3 DEF Becomes, Excused
    <3> QED
      BY <3>3, <3>4 DEF MayMove, Settled
  <2> QED
    BY <2>2, <2>3
<1>9. ASSUME NEW m \in Messages, NEW report \in Outcome, RunnerTaskResult(m, report)
      PROVE  MayMove(n)
  <2>1. UNCHANGED <<posts, sent, terminal, worker, lost, restarts>>
    BY <1>9 DEF RunnerTaskResult
  <2>2. CASE n # m
    <3>1. status'[n] = status[n] /\ task'[n] = task[n]
      BY <1>0, <1>9, <2>2 DEF RunnerTaskResult, ChatTypeOK
    <3> QED
      BY <2>1, <3>1, NothingMoves
  <2>3. CASE n = m
    <3>1. task[n] = "queued" /\ task'[n] \in Outcome /\ status'[n] \in Settled
      BY <1>0, <1>9, <2>3 DEF RunnerTaskResult, ChatTypeOK, Settled
    <3>2. Handovers(n)' = Handovers(n)
      BY <2>1, <3>1 DEF Handovers, Outcome
    <3>3. LocalTask \in Due(n) /\ Due(n)' = Due(n) \ {LocalTask}
      BY <2>1, <3>1, <1>n DEF Due, Ways, LocalTask, WorkPanelPost, Outcome
    <3>4. Becomes(n, status'[n], Handovers(n), Excused(n), Due(n) \ {LocalTask})
      BY <2>1, <3>2, <3>3 DEF Becomes, Excused
    <3> QED
      BY <3>1, <3>3, <3>4 DEF MayMove
  <2> QED
    BY <2>2, <2>3
<1>10. ASSUME NEW m \in Messages, NEW c \in Commands, NEW report \in Outcome,
              ProcessRunEvent(m, c, report)
       PROVE  MayMove(n)
  <2>1. UNCHANGED <<posts, sent, task, worker, lost, restarts>>
    BY <1>10 DEF ProcessRunEvent
  <2>2. CASE n # m
    <3>1. status'[n] = status[n] /\ terminal'[n] = terminal[n]
      BY <1>0, <1>10, <2>2 DEF ProcessRunEvent, ChatTypeOK
    <3> QED
      BY <2>1, <3>1, NothingMoves
  <2>3. CASE n = m
    <3>1. /\ c <= sent[n] /\ terminal[n][c] = "none" /\ status'[n] \in Settled
          /\ terminal'[n] = [terminal[n] EXCEPT ![c] = report]
      BY <1>0, <1>10, <2>3 DEF ProcessRunEvent, EventIsNew, ChatTypeOK, Settled
    <3>2. Handovers(n)' = Handovers(n)
      BY <2>1 DEF Handovers
    <3>3. /\ terminal'[n][c] # "none"
          /\ \A d \in Commands \ {c} : terminal'[n][d] = terminal[n][d]
      BY <1>0, <3>1 DEF ChatTypeOK, Outcome
    <3>4. c \in Due(n)
      BY <3>1, <1>n DEF Due, Ways, Commands
    <3>5. Due(n)' = Due(n) \ {c}
      <4>1. \A w \in Ways : w \in 1..sent[n] => w \in Commands
        BY DEF Ways, LocalTask, WorkPanelPost
      <4>2. c # LocalTask /\ c # WorkPanelPost
        BY DEF Commands, LocalTask, WorkPanelPost
      <4> QED
        BY <2>1, <3>3, <4>1, <4>2 DEF Due
    <3>6. Becomes(n, status'[n], Handovers(n), Excused(n), Due(n) \ {c})
      BY <2>1, <3>2, <3>5 DEF Becomes, Excused
    <3> QED
      BY <3>1, <3>4, <3>6 DEF MayMove
  <2> QED
    BY <2>2, <2>3
<1>11. CASE Restart
  <2>1. /\ UNCHANGED <<status, posts, sent, task, terminal, lost>>
        /\ restarts' = restarts + 1 /\ worker'[n] = "idle"
    BY <1>11 DEF Restart
  <2>2. Due(n)' \in SUBSET Due(n)
    BY <2>1 DEF Due
  <2>3. Handovers(n)' = Handovers(n)
    BY <2>1 DEF Handovers
  <2>4. Becomes(n, status[n], Handovers(n), Excused(n) + 1, Due(n)')
    BY <2>1, <2>3, <1>n DEF Becomes, Excused
  <2> QED
    BY <2>2, <2>4 DEF MayMove
<1>12. CASE Listen
  BY <1>12, NothingMoves DEF Listen
<1> HIDE DEF serverVars, rowVars, workVars, wayVars, eventVars, histVars
<1> QED
  BY ONLY [ChatNext]_chatVars, <1>1, <1>2, <1>3, <1>4, <1>5, <1>6, <1>7, <1>8, <1>9, <1>10,
     <1>11, <1>12
  DEF ChatNext, WorkerSteps

\* What Handover knows of a message is of the kinds it knows.
LEMMA MessageType ==
    ASSUME ChatTypeOK, NEW m \in Messages
    PROVE  MessageOf(m) \in Handed!Message
<1>1. status[m] \in {"absent", "accepted", "delivered", "failed"}
  BY DEF ChatTypeOK, Settled
<1>2. Handovers(m) \in Nat /\ lost[m] + restarts \in Nat
  BY ChatMessagesAssumption DEF ChatTypeOK, Handovers
<1>3. Due(m) \in SUBSET Ways
  BY DEF Due
<1> QED
  BY <1>1, <1>2, <1>3 DEF MessageOf, Handed!Message, Handed!Settled

MessagesTyped == message \in [Messages -> Handed!Message]

\* The chat request, its worker and the start of the relay implement Handover
\* (ImplementsHandover), for all messages, limits of tries and numbers of restarts.
THEOREM ImplementsHandoverHolds == ChatSpec => ImplementsHandover
<1>1. ChatInit => Handed!Init
  <2> SUFFICES ASSUME ChatInit
               PROVE  Handed!Init
    OBVIOUS
  <2>1. ASSUME NEW m \in Messages
        PROVE  MessageOf(m) = Handed!New
    <3>1. /\ status[m] = "absent" /\ Handovers(m) = 0 /\ lost[m] + restarts = 0
      BY DEF ChatInit, Handovers
    <3>2. Due(m) = {}
      BY DEF ChatInit, Due
    <3> QED
      BY <3>1, <3>2 DEF MessageOf, Handed!New
  <2> QED
    BY <2>1 DEF Handed!Init
<1>2. IInv => MessagesTyped
  BY MessageType DEF MessagesTyped, message, IInv
<1>3. IInv' => MessagesTyped'
  BY <1>2, PTL
<1>4. IInv /\ IInv' /\ [ChatNext]_chatVars => [Handed!Next]_message
  <2> SUFFICES ASSUME IInv, IInv', [ChatNext]_chatVars
               PROVE  Handed!Next
    BY DEF message
  <2>1. message' \in [Messages -> Handed!Message]
    BY <1>3 DEF MessagesTyped
  <2>2. \A m \in Messages : Handed!Moves(m) \/ message'[m] = message[m]
    BY HandoverStep, MessageMoves
  <2> QED
    BY <2>1, <2>2 DEF Handed!Next, message
<1> QED
  BY <1>1, <1>4, ChatInvariance, PTL DEF ChatSpec, ImplementsHandover, Handed!Spec, message

\* What Handover keeps in mind of a message: it is handed over no more often than
\* excused, and the only handover of a message cannot answer a second time.
Promised(n) ==
    /\ message[n] \in Handed!Message
    /\ message[n].handed <= message[n].excused + 1
    /\ message[n].handed = 0 => message[n].status # "delivered" /\ message[n].due = {}
    /\ message[n].handed = 1 =>
        \/ message[n].due = {}
        \/ message[n].status # "delivered" /\ \E way \in Ways : message[n].due = {way}

\* What it says of the next state of a message.
StaysSettled(n) ==
    /\ message[n].status \in Settled => message'[n].status \in Settled
    /\ message[n].status = "delivered" /\ message[n].handed = 1 => message'[n].status = "delivered"

LEMMA PromiseKept ==
    ASSUME NEW n \in Messages, Promised(n), Handed!Next
    PROVE  Promised(n)' /\ StaysSettled(n)
<1> DEFINE old == message[n]
           new == message'[n]
<1>1. /\ old \in Handed!Message /\ new \in Handed!Message
      /\ Handed!Moves(n) \/ new = old
  BY DEF Promised, Handed!Next, message
<1>2. /\ old.handed \in Nat /\ old.excused \in Nat /\ old.due \in SUBSET Ways
      /\ new.handed \in Nat /\ new.excused \in Nat /\ new.due \in SUBSET Ways
  BY <1>1 DEF Handed!Message
<1>3. ASSUME \/ new = [old EXCEPT !.status = "accepted"] /\ old.status = "absent"
             \/ new = [old EXCEPT !.status = "failed"] /\ old.status = "accepted"
             \/ new = old
      PROVE  Promised(n)' /\ StaysSettled(n)
  <2>1. /\ new.handed = old.handed /\ new.excused = old.excused /\ new.due = old.due
        /\ \/ new.status = old.status
           \/ new.status \in {"accepted", "failed"} /\ old.status \in {"absent", "accepted"}
    BY <1>1, <1>3 DEF Handed!Message
  <2> QED
    BY <1>1, <1>2, <2>1 DEF Promised, StaysSettled, Settled
<1>4. ASSUME NEW way \in Ways, Handed!HandOver(n, way)
      PROVE  Promised(n)' /\ StaysSettled(n)
  <2>1. /\ old.status = "accepted" /\ old.handed <= old.excused
        /\ new = [old EXCEPT !.handed = @ + 1, !.due = @ \cup {way}]
    BY <1>4 DEF Handed!HandOver, Handed!MayBeHandedOver, message
  <2>2. /\ new.status = "accepted" /\ new.handed = old.handed + 1
        /\ new.excused = old.excused /\ new.due = old.due \cup {way}
    BY <1>1, <2>1 DEF Handed!Message
  <2>3. old.handed = 0 => new.due = {way}
    BY <2>2 DEF Promised
  <2> QED
    BY <1>1, <1>2, <2>1, <2>2, <2>3 DEF Promised, StaysSettled, Settled
<1>5. ASSUME Handed!HandOverUnanswered(n)
      PROVE  Promised(n)' /\ StaysSettled(n)
  <2>1. /\ old.status = "accepted" /\ old.handed <= old.excused
        /\ new = [old EXCEPT !.handed = @ + 1, !.excused = @ + 1]
    BY <1>5 DEF Handed!HandOverUnanswered, Handed!MayBeHandedOver, message
  <2>2. /\ new.status = "accepted" /\ new.handed = old.handed + 1
        /\ new.excused = old.excused + 1 /\ new.due = old.due
    BY <1>1, <2>1 DEF Handed!Message
  <2> QED
    BY <1>1, <1>2, <2>1, <2>2 DEF Promised, StaysSettled, Settled
<1>6. ASSUME NEW way \in Ways, NEW verdict \in Settled, Handed!Answer(n, way, verdict)
      PROVE  Promised(n)' /\ StaysSettled(n)
  <2>1. way \in old.due /\ new = [old EXCEPT !.status = verdict, !.due = @ \ {way}]
    BY <1>6 DEF Handed!Answer, message
  <2>2. /\ new.status = verdict /\ new.handed = old.handed
        /\ new.excused = old.excused /\ new.due = old.due \ {way}
    BY <1>1, <2>1 DEF Handed!Message
  <2>3. old.handed = 1 => old.status # "delivered" /\ new.due = {}
    BY <2>1, <2>2 DEF Promised
  <2>4. old.handed # 0
    BY <2>1 DEF Promised
  <2> QED
    BY <1>1, <1>2, <2>2, <2>3, <2>4 DEF Promised, StaysSettled, Settled
<1>7. ASSUME Handed!Stop(n)
      PROVE  Promised(n)' /\ StaysSettled(n)
  <2>1. PICK kept \in SUBSET old.due : new = [old EXCEPT !.excused = @ + 1, !.due = kept]
    BY <1>7, Zenon DEF Handed!Stop, message
  <2>2. /\ new.status = old.status /\ new.handed = old.handed
        /\ new.excused = old.excused + 1 /\ new.due = kept
    BY <1>1, <2>1 DEF Handed!Message
  <2>3. new.due = {} \/ new.due = old.due \/ \A way \in Ways : old.due # {way}
    BY <2>1, <2>2
  <2>4. /\ old.handed = 0 => new.due = {}
        /\ old.handed = 1 => new.due = {} \/ new.due = old.due
    BY <2>1, <2>2, <2>3 DEF Promised
  <2> QED
    BY <1>1, <1>2, <2>2, <2>4 DEF Promised, StaysSettled, Settled
<1>8. Handed!Store(n) => old.status = "absent" /\ new = [old EXCEPT !.status = "accepted"]
  BY DEF Handed!Store, message
<1>9. Handed!GiveUp(n) => old.status = "accepted" /\ new = [old EXCEPT !.status = "failed"]
  BY DEF Handed!GiveUp, message
<1> QED
  BY <1>1, <1>3, <1>4, <1>5, <1>6, <1>7, <1>8, <1>9 DEF Handed!Moves, Handed!Settled, Settled

\* The abstract specification is strong enough to say so: whatever implements Handover
\* carries a message out once and once more for each excuse (CarriedOutOnce), and
\* lets an answer stand (AnswerStands).
THEOREM HandoverSuffices ==
    []ChatTypeOK /\ ImplementsHandover => []CarriedOutOnce /\ AnswerStands
<1> DEFINE Kept == \A m \in Messages : Promised(m)
<1>1. Handed!Init => Kept
  <2> SUFFICES ASSUME Handed!Init, NEW m \in Messages
               PROVE  Promised(m)
    OBVIOUS
  <2>1. message[m] = [status |-> "absent", handed |-> 0, excused |-> 0, due |-> {}]
    BY DEF Handed!Init, Handed!New, message
  <2> QED
    BY <2>1 DEF Promised, Handed!Message
<1>2. Kept /\ [Handed!Next]_message => Kept'
  <2>1. CASE Handed!Next
    BY <2>1, PromiseKept
  <2>2. CASE message' = message
    BY <2>2 DEF Promised
  <2> QED
    BY <2>1, <2>2
<1>3. ChatTypeOK /\ Kept => CarriedOutOnce
  <2> SUFFICES ASSUME ChatTypeOK, NEW m \in Messages, Promised(m)
               PROVE  Handovers(m) <= 1 + lost[m] + restarts
    BY DEF CarriedOutOnce
  <2>1. message[m].handed = Handovers(m) /\ message[m].excused = lost[m] + restarts
    BY DEF message, MessageOf
  <2> QED
    BY <2>1, ChatMessagesAssumption DEF Promised, Handed!Message, ChatTypeOK
<1>4. Kept /\ [Handed!Next]_message =>
        [\A m \in Messages :
            /\ status[m] \in Settled => status'[m] \in Settled
            /\ status[m] = "delivered" /\ Handovers(m) = 1 => status'[m] = "delivered"]_chatVars
  <2> SUFFICES ASSUME Kept, [Handed!Next]_message, NEW m \in Messages
               PROVE  /\ status[m] \in Settled => status'[m] \in Settled
                      /\ status[m] = "delivered" /\ Handovers(m) = 1
                            => status'[m] = "delivered"
    OBVIOUS
  <2>1. /\ message[m].handed = Handovers(m) /\ message[m].status = status[m]
        /\ message'[m].status = status'[m]
    BY DEF message, MessageOf
  <2>2. StaysSettled(m)
    <3>1. CASE Handed!Next
      BY <3>1, PromiseKept
    <3>2. CASE message' = message
      BY <3>2 DEF StaysSettled
    <3> QED
      BY <3>1, <3>2
  <2> QED
    BY <2>1, <2>2 DEF StaysSettled
<1> QED
  BY <1>1, <1>2, <1>3, <1>4, PTL DEF ImplementsHandover, Handed!Spec, AnswerStands, message

================================================================================
