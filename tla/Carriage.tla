-------------------------------- MODULE Carriage --------------------------------
(***************************************************************************)
(* What the carriage of messages over a Host promises, without requests,   *)
(* answers, tokens, leases, flushes, retries or restarts.  A message is    *)
(* unsent, under way, carried out or given up by its target; the Host      *)
(* keeps a record of it, which it may lose; the origin is told a verdict.  *)
(*                                                                         *)
(* Whoever looks at one place only may trust what it says of the others:   *)
(* the Host's verdict is the target's end, and what the origin is told is  *)
(* a verdict that was given.  In a step every message moves or stays.      *)
(***************************************************************************)
CONSTANT Messages

\* Per message: where it stands at its target, whether it had its effect there, the
\* Host's record of it, whether a receipt was written, what the origin is told.
VARIABLE message

End == {"carried", "givenup"}
Verdict == {"delivered", "failed"}

Message == [stage : {"unsent", "underway"} \cup End, effect : BOOLEAN,
            record : {"none", "open", "dead"} \cup Verdict, receipt : BOOLEAN,
            told : {"open"} \cup Verdict]

New == [stage |-> "unsent", effect |-> FALSE, record |-> "none", receipt |-> FALSE,
        told |-> "open"]

Init == message = [m \in Messages |-> New]

\* The verdict that is true of a message the target is done with.
Agrees(m, verdict) ==
    \/ verdict = "delivered" /\ message[m].stage = "carried"
    \/ verdict = "failed" /\ message[m].stage = "givenup"

Send(m) ==
    /\ message[m].stage = "unsent"
    /\ message'[m] = [message[m] EXCEPT !.stage = "underway"]

TakeEffect(m) ==
    /\ message[m].stage = "underway"
    /\ message'[m] = [message[m] EXCEPT !.effect = TRUE]

\* The target is done: with the effect had, or giving the message up.
Finish(m) ==
    /\ message[m].stage = "underway"
    /\ \/ message[m].effect /\ message'[m] = [message[m] EXCEPT !.stage = "carried"]
       \/ message'[m] = [message[m] EXCEPT !.stage = "givenup"]

Register(m) ==
    /\ message[m].stage # "unsent"
    /\ message[m].record = "none"
    /\ message'[m] = [message[m] EXCEPT !.record = "open"]

GiveUp(m) ==
    /\ message[m].record = "open"
    /\ message'[m] = [message[m] EXCEPT !.record = "dead"]

Decide(m, verdict) ==
    /\ message[m].record = "open"
    /\ Agrees(m, verdict)
    /\ message'[m] = [message[m] EXCEPT !.record = verdict, !.receipt = TRUE]

\* The Host loses what it knows; it can be told of the message again.
Forget(m) == message'[m] = [message[m] EXCEPT !.record = "none"]

\* An answer that took its time may take a verdict back, never invent one.
Tell(m, verdict) ==
    /\ message[m].receipt
    /\ Agrees(m, verdict)
    /\ message'[m] = [message[m] EXCEPT !.told = verdict]

Untell(m) == message'[m] = [message[m] EXCEPT !.told = "open"]

Moves(m) ==
    \/ Send(m) \/ TakeEffect(m) \/ Finish(m) \/ Register(m) \/ GiveUp(m) \/ Forget(m)
    \/ Untell(m)
    \/ \E verdict \in Verdict : Decide(m, verdict) \/ Tell(m, verdict)

Next ==
    /\ message' \in [Messages -> Message]
    /\ \A m \in Messages : Moves(m) \/ message'[m] = message[m]

Spec == Init /\ [][Next]_message

=================================================================================
