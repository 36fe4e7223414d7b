------------------------ MODULE DatabaseUpgradeRefinement ------------------------
(***************************************************************************)
(* Opening the database keeps the promise of SerialUpgrade.                *)
(***************************************************************************)
EXTENDS DatabaseUpgrade

Upgraded == INSTANCE SerialUpgrade WITH
    opened <- [p \in Processes |-> IF opening[p] = "open" THEN release[p] ELSE 0]

\* Processes of any releases that start on one file at the same time, each by a plan
\* read before its lock, upgrade it one after the other, and none opens it unless it
\* is then of exactly the release that process ships (applyMigrations).
ImplementsSerialUpgrade == Upgraded!Spec

==================================================================================
