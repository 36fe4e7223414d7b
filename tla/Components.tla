--------------------------------- MODULE Components ---------------------------------
(***************************************************************************)
(* Eight components of the relay and of what talks to it, side by side.     *)
(* They share no state: each does its own steps, in any order.             *)
(***************************************************************************)
EXTENDS RunnerRegistry, SiteDirectory, CodexExecutor, PetAccess,
        DatabaseUpgradeRefinement, WpRunnerRefinement, Connector, HostBacklog

ComponentsSpec ==
    /\ RegistrySpec /\ DirectorySpec /\ ExecutorSpec /\ AccessSpec
    /\ UpgradeSpec /\ RunnerSpec /\ ConnectorSpec /\ BacklogSpec

\* Each component's variables keep their types: the counters their bounds, the rows
\* and continuations the steps the code has for them.
TypesOK ==
    /\ RegistryTypeOK /\ DirectoryTypeOK /\ ExecutorTypeOK /\ AccessTypeOK
    /\ UpgradeTypeOK /\ RunnerTypeOK /\ ConnectorTypeOK /\ BacklogTypeOK

=====================================================================================
