----------------------------- MODULE DatabaseUpgrade -----------------------------
(***************************************************************************)
(* Opening the database (src/src/relay/db.js openDb, migrations.js         *)
(* applyMigrations): what the schema is, which migrations are recorded as  *)
(* applied, and the backup taken before an upgrade, while several          *)
(* processes of the same or of different releases start on one file.       *)
(*                                                                         *)
(* The plan of a process is read statement by statement before BEGIN       *)
(* IMMEDIATE, so another process may commit between any two of its reads.  *)
(* A release is known by the number of migrations it ships.                *)
(***************************************************************************)
EXTENDS Integers, FiniteSets

CONSTANTS
    Processes,     \* processes that may open the file
    Last           \* bound: migrations in the newest release

ASSUME DatabaseUpgradeAssumption == Last \in Nat \ {0}

VARIABLES
    schema,        \* how often each migration has been executed on the file
    recorded,      \* schema_migrations: versions, or NoTable
    opening,       \* where each process stands in openDb
    release,       \* the migrations its code ships
    plan,          \* what it has read: fresh, applied, legacy
    copy,          \* history: the schema in the backup it made, or NoCopy
    writer         \* the process in a BEGIN IMMEDIATE transaction, or NoWriter

upgradeVars == <<schema, recorded, opening, release, plan, copy, writer>>

-----------------------------------------------------------------------------

Versions == 1..Last
Ships(p) == 1..release[p]
NoTable == {0}
NoCopy == [v \in Versions |-> -1]
NoWriter == "nobody"
NoPlan == [fresh |-> FALSE, applied |-> {}, legacy |-> FALSE]
Rows == IF recorded = NoTable THEN {} ELSE recorded

UpgradeTypeOK ==
    /\ schema \in [Versions -> Nat]
    /\ recorded \in (SUBSET Versions) \cup {NoTable}
    /\ opening \in [Processes -> {"closed", "tables", "applied", "backup", "begin",
                                  "writing", "committed", "open"}]
    /\ release \in [Processes -> Versions]
    /\ plan \in [Processes -> [fresh: BOOLEAN, applied: SUBSET Versions, legacy: BOOLEAN]]
    /\ copy \in [Processes -> [Versions -> Nat] \cup {NoCopy}]
    /\ writer \in Processes \cup {NoWriter}

\* No file yet, a file from before there were migrations, or one of release n.
UpgradeInit ==
    /\ \/ /\ schema = [v \in Versions |-> 0]
          /\ recorded = NoTable
       \/ /\ schema = [v \in Versions |-> IF v = 1 THEN 1 ELSE 0]
          /\ recorded = NoTable
       \/ \E n \in Versions :
             /\ schema = [v \in Versions |-> IF v <= n THEN 1 ELSE 0]
             /\ recorded = 1..n
    /\ opening = [p \in Processes |-> "closed"]
    /\ release = [p \in Processes |-> 1]
    /\ plan = [p \in Processes |-> NoPlan]
    /\ copy = [p \in Processes |-> NoCopy]
    /\ writer = NoWriter

\* An error or a crash ends the process; SQLite rolls its transaction back.
Stops(p) ==
    /\ opening' = [opening EXCEPT ![p] = "closed"]
    /\ plan' = [plan EXCEPT ![p] = NoPlan]
    /\ copy' = [copy EXCEPT ![p] = NoCopy]
    /\ writer' = IF writer = p THEN NoWriter ELSE writer
    /\ UNCHANGED <<schema, recorded, release>>

Moves(p, step) == opening' = [opening EXCEPT ![p] = step]

StartsUp(p, r) ==
    /\ opening[p] = "closed"
    /\ release' = [release EXCEPT ![p] = r]
    /\ Moves(p, "tables")
    /\ UNCHANGED <<schema, recorded, plan, copy, writer>>

\* applicationTables and the first hasMigrationTable: is the database fresh?
ReadTables(p) ==
    /\ opening[p] = "tables"
    /\ LET fresh == (\A v \in Versions : schema[v] = 0) /\ recorded = NoTable
       IN  plan' = [plan EXCEPT ![p] = [@ EXCEPT !.fresh = fresh]]
    /\ Moves(p, "applied")
    /\ UNCHANGED <<schema, recorded, release, copy, writer>>

\* readApplied and validateChecksums: a migration it does not ship ends the start.
ReadApplied(p) ==
    /\ opening[p] = "applied"
    /\ \/ /\ Rows \subseteq Ships(p)
          /\ plan' = [plan EXCEPT ![p] = [@ EXCEPT !.applied = Rows]]
          /\ Moves(p, "backup")
          /\ UNCHANGED <<schema, recorded, release, copy, writer>>
       \/ /\ ~(Rows \subseteq Ships(p))
          /\ Stops(p)

\* Mutation: a database is backed up only if a migration is pending.
BackUpPending(p) ==
    /\ opening[p] = "backup"
    /\ LET legacy == ~plan[p].fresh /\ recorded = NoTable
           applied == plan[p].applied \cup (IF legacy THEN {1} ELSE {})
           pending == ~plan[p].fresh /\ ~(Ships(p) \subseteq applied)
       IN  /\ plan' = [plan EXCEPT ![p] = [@ EXCEPT !.applied = applied, !.legacy = legacy]]
           /\ copy' = [copy EXCEPT ![p] = IF pending THEN schema ELSE NoCopy]
    /\ Moves(p, "begin")
    /\ UNCHANGED <<schema, recorded, release, writer>>

\* legacy and pending, and createBackup when there is something to do.
BackUp(p) ==
    /\ opening[p] = "backup"
    /\ LET legacy == ~plan[p].fresh /\ recorded = NoTable
           applied == plan[p].applied \cup (IF legacy THEN {1} ELSE {})
           pending == ~plan[p].fresh /\ ~(Ships(p) \subseteq applied)
       IN  /\ plan' = [plan EXCEPT ![p] = [@ EXCEPT !.applied = applied, !.legacy = legacy]]
           /\ copy' = [copy EXCEPT ![p] = IF legacy \/ pending THEN schema ELSE NoCopy]
    /\ Moves(p, "begin")
    /\ UNCHANGED <<schema, recorded, release, writer>>

\* BEGIN IMMEDIATE fails at once while another process writes.
Begin(p) ==
    /\ opening[p] = "begin"
    /\ \/ /\ writer = NoWriter
          /\ writer' = p
          /\ Moves(p, "writing")
          /\ UNCHANGED <<schema, recorded, release, plan, copy>>
       \/ /\ writer # NoWriter
          /\ Stops(p)

\* The migrations whose SQL runs, and the versions whose rows are inserted.
Executes(p) == IF plan[p].fresh THEN Ships(p) ELSE Ships(p) \ plan[p].applied
Inserts(p) == IF plan[p].legacy THEN Executes(p) \cup {1} ELSE Executes(p)

\* schema.sql creates only what is missing; a migration changes what it finds.
Executed(p) ==
    [v \in Versions |->
        CASE v \notin Executes(p) -> schema[v]
          [] v \in Executes(p) /\ plan[p].fresh -> IF schema[v] = 0 THEN 1 ELSE schema[v]
          [] OTHER -> schema[v] + 1]

\* Mutation: the rows are written with INSERT OR IGNORE.
InsertsAnyhow(p) == TRUE

\* version is the primary key of schema_migrations.
InsertsSucceed(p) == Inserts(p) \cap Rows = {}

\* The transaction of applyMigrations, up to COMMIT or ROLLBACK.
Commit(p) ==
    /\ opening[p] = "writing"
    /\ \/ /\ InsertsSucceed(p)
          /\ schema' = Executed(p)
          /\ recorded' = Rows \cup Inserts(p)
          /\ writer' = NoWriter
          /\ Moves(p, "committed")
          /\ UNCHANGED <<release, plan, copy>>
       \/ /\ ~InsertsSucceed(p)
          /\ Stops(p)

\* The second readApplied and validateChecksums.
Opens(p) ==
    /\ opening[p] = "committed"
    /\ \/ /\ Rows \subseteq Ships(p)
          /\ Moves(p, "open")
          /\ UNCHANGED <<schema, recorded, release, plan, copy, writer>>
       \/ /\ ~(Rows \subseteq Ships(p))
          /\ Stops(p)

UpgradeNext ==
    \E p \in Processes :
        \/ \E r \in Versions : StartsUp(p, r)
        \/ ReadTables(p) \/ ReadApplied(p) \/ BackUp(p)
        \/ Begin(p) \/ Commit(p) \/ Opens(p)
        \/ opening[p] # "closed" /\ Stops(p)

UpgradeSpec == UpgradeInit /\ [][UpgradeNext]_upgradeVars

-----------------------------------------------------------------------------

(* The rows of schema_migrations tell the truth: each recorded migration has *)
(* been executed exactly once and no other has, however many processes, of   *)
(* whatever releases, open the file at the same time and wherever they stop. *)
RecordedOnce ==
    recorded # NoTable => \A v \in Versions : schema[v] = IF v \in recorded THEN 1 ELSE 0

(* A process that changes a database which was in use has made a backup of   *)
(* exactly the schema it changes, although the backup is older than its lock.*)
BackupIsOfTheOld ==
    [][\A p \in Processes :
          opening[p] = "writing" /\ opening'[p] = "committed" =>
              \/ recorded' = recorded
              \/ \A v \in Versions : schema[v] = 0
              \/ copy[p] = schema]_upgradeVars
=============================================================================
