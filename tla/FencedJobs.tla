------------------------------- MODULE FencedJobs -------------------------------
(***************************************************************************)
(* What a queue of fenced jobs promises, without clocks, leases, tokens,   *)
(* result ids, answers or Runners.  A job is pending, held by the claim of *)
(* the highest number, closed, dead or done.  Only the holder's claim can  *)
(* give it an outcome, and giving it ends the hold; a job dies of its last *)
(* claim only; an operator may close an open job and reopen one that is    *)
(* not done.                                                               *)
(*                                                                         *)
(* Jobs are independent, and one poll of a Runner moves several of them:   *)
(* in a step every job moves or stays.                                     *)
(***************************************************************************)
EXTENDS Integers

CONSTANTS Jobs, MaxClaims

VARIABLE job    \* per job: its phase, its claims so far, the outcomes given

Results == {"completed", "failed", "cancelled"}
Phase == {"unborn", "pending", "held", "closed", "dead", "done"}

\* The outcome of the claim of number generation.
GivenOutcome == [report : Results, generation : 1..MaxClaims]

JobState == [phase : Phase, claims : 0..MaxClaims, outcomes : SUBSET GivenOutcome]

Init == job = [j \in Jobs |-> [phase |-> "unborn", claims |-> 0, outcomes |-> {}]]

\* Job j goes from phases From to phase to, its claims and outcomes unchanged.
Goes(j, From, to) ==
    /\ job[j].phase \in From
    /\ job'[j] = [job[j] EXCEPT !.phase = to]

Submit(j) == Goes(j, {"unborn"}, "pending")

\* Claimed from the queue, or taken over from a holder that lost it.
Claim(j) ==
    /\ job[j].phase \in {"pending", "held"}
    /\ job[j].claims < MaxClaims
    /\ job'[j] = [phase |-> "held", claims |-> job[j].claims + 1, outcomes |-> job[j].outcomes]

\* The hold is taken away and the job goes back to the queue.
Release(j) == Goes(j, {"held"}, "pending")

\* A job that used its claims up is given up instead.
GiveUp(j) == job[j].claims = MaxClaims /\ Goes(j, {"held"}, "dead")

Finish(j, report) ==
    /\ job[j].phase = "held"
    /\ job'[j] = [phase |-> IF report = "completed" THEN "done" ELSE "closed",
                  claims |-> job[j].claims,
                  outcomes |-> job[j].outcomes
                                 \cup {[report |-> report, generation |-> job[j].claims]}]

Cancel(j) == Goes(j, {"pending", "held"}, "closed")

Reopen(j) == Goes(j, {"closed", "dead"}, "pending")

Moves(j) ==
    \/ Submit(j) \/ Claim(j) \/ Release(j) \/ GiveUp(j) \/ Cancel(j) \/ Reopen(j)
    \/ \E report \in Results : Finish(j, report)

Next ==
    /\ job' \in [Jobs -> JobState]
    /\ \A j \in Jobs : Moves(j) \/ job'[j] = job[j]

Spec == Init /\ [][Next]_job

================================================================================
