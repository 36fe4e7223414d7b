------------------------------ MODULE SerialUpgrade ------------------------------
(***************************************************************************)
(* What opening a versioned file promises, without plans, locks, backups,  *)
(* failed starts or crashes: the file goes from one release to a later one *)
(* as a whole, and a process opens it only while it is of exactly the      *)
(* release of that process.                                                *)
(***************************************************************************)
EXTENDS Integers

CONSTANTS Processes, Last

VARIABLES
    schema,      \* how often each migration has been executed on the file
    recorded,    \* the versions recorded in it, or NoTable
    opened       \* per process, the release it opened the file at, or 0

Releases == 1..Last
NoTable == {0}

\* The file is of release n: each of its migrations executed once, and no other.
At(n) ==
    /\ recorded = 1..n
    /\ schema = [v \in Releases |-> IF v <= n THEN 1 ELSE 0]

\* No file yet, or one from before there were migrations.
Unversioned ==
    /\ recorded = NoTable
    /\ schema \in {[v \in Releases |-> 0], [v \in Releases |-> IF v = 1 THEN 1 ELSE 0]}

Init ==
    /\ Unversioned \/ \E n \in Releases : At(n)
    /\ opened = [p \in Processes |-> 0]

Upgrade(n) ==
    /\ recorded = NoTable \/ recorded \subseteq 1..n
    /\ At(n)'
    /\ UNCHANGED opened

Open(p, n) ==
    /\ opened[p] = 0 /\ At(n)
    /\ opened' = [opened EXCEPT ![p] = n]
    /\ UNCHANGED <<schema, recorded>>

Close(p) ==
    /\ opened' = [opened EXCEPT ![p] = 0]
    /\ UNCHANGED <<schema, recorded>>

Next ==
    \/ \E n \in Releases : Upgrade(n)
    \/ \E p \in Processes : Close(p) \/ \E n \in Releases : Open(p, n)

Spec == Init /\ [][Next]_<<schema, recorded, opened>>

=================================================================================
