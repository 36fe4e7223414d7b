-------------------------------- MODULE Handover --------------------------------
(***************************************************************************)
(* What carrying out a stored message promises, without workers, loops,    *)
(* tries, Sites, Runners or continuations: while a message is accepted it  *)
(* is handed over, by some way, and each handover is answered at most      *)
(* once.  It is handed over again only with an excuse: an answer that will *)
(* never arrive, or a stop in between.                                     *)
(*                                                                         *)
(* A message is settled by an answer or by giving it up, and then is       *)
(* handed over no more; only an answer of another handover may still       *)
(* change what its sender is told.                                         *)
(***************************************************************************)
EXTENDS Integers

CONSTANTS Messages, Ways

\* Per message: what its sender is told, how often it was handed over, how many
\* excuses there are to do it again, and the ways whose answer is due.
VARIABLE message

Settled == {"delivered", "failed"}

Message == [status : {"absent", "accepted"} \cup Settled, handed : Nat, excused : Nat,
            due : SUBSET Ways]

New == [status |-> "absent", handed |-> 0, excused |-> 0, due |-> {}]

Init == message = [m \in Messages |-> New]

Store(m) ==
    /\ message[m].status = "absent"
    /\ message'[m] = [message[m] EXCEPT !.status = "accepted"]

\* Once, and once more for each excuse.
MayBeHandedOver(m) == message[m].status = "accepted" /\ message[m].handed <= message[m].excused

HandOver(m, way) ==
    /\ MayBeHandedOver(m)
    /\ way \notin message[m].due
    /\ message'[m] = [message[m] EXCEPT !.handed = @ + 1, !.due = @ \cup {way}]

\* It is carried out, and the answer will never arrive.
HandOverUnanswered(m) ==
    /\ MayBeHandedOver(m)
    /\ message'[m] = [message[m] EXCEPT !.handed = @ + 1, !.excused = @ + 1]

Answer(m, way, verdict) ==
    /\ way \in message[m].due
    /\ message'[m] = [message[m] EXCEPT !.status = verdict, !.due = @ \ {way}]

GiveUp(m) ==
    /\ message[m].status = "accepted"
    /\ message'[m] = [message[m] EXCEPT !.status = "failed"]

\* A stop excuses a handover, and may lose an answer not yet noted.
Stop(m) ==
    \E kept \in SUBSET message[m].due :
        message'[m] = [message[m] EXCEPT !.excused = @ + 1, !.due = kept]

Moves(m) ==
    \/ Store(m) \/ HandOverUnanswered(m) \/ GiveUp(m) \/ Stop(m)
    \/ \E way \in Ways : HandOver(m, way) \/ \E verdict \in Settled : Answer(m, way, verdict)

Next ==
    /\ message' \in [Messages -> Message]
    /\ \A m \in Messages : Moves(m) \/ message'[m] = message[m]

Spec == Init /\ [][Next]_message

=================================================================================
