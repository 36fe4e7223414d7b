------------------------- MODULE ChatMessagesRefinement -------------------------
(***************************************************************************)
(* The delivery of a pet's message keeps the promise of Handover.          *)
(***************************************************************************)
EXTENDS ChatMessages

\* A remote command is named by its number; two numbers no command has name the
\* local Runner's task and the request to WorkPanel.
LocalTask == -1
WorkPanelPost == 0

Ways == Commands \cup {LocalTask, WorkPanelPost}

\* The ways whose answer would still be noted: the first run.event of each command,
\* the first terminal report on the task, the answer the worker has in its hands.
Due(m) ==
    {way \in Ways :
        \/ way \in 1..sent[m] /\ terminal[m][way] = "none"
        \/ way = LocalTask /\ task[m] = "queued"
        \/ way = WorkPanelPost /\ worker[m] = "posted"}

MessageOf(m) == [status |-> status[m], handed |-> Handovers(m),
                 excused |-> lost[m] + restarts, due |-> Due(m)]

Handed == INSTANCE Handover WITH message <- [m \in Messages |-> MessageOf(m)]

\* Whatever requests are repeated, ways change between tries and stops come in
\* between: a message is handed over once and once more for each excuse, and what its
\* pet is told changes by the answer of a handover that has not answered yet, never by
\* a late, repeated or conflicting one.
ImplementsHandover == Handed!Spec

=================================================================================
