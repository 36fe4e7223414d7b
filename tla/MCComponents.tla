------------------------------ MODULE MCComponents ------------------------------
(* Eight components that share no state, each on its own instance, in one run: part *)
(* says which of them the behaviour is about, the others stay as they began.      *)
EXTENDS Components

CONSTANTS a1, a2, g1, c1, c2, s1, s2, x1, e1, e2,
          wA, wB, wC, petA, petB, p1, p2, w1, w2, t1, t2, t3, k1, k2, q1, m1, m2

VARIABLE part

partVars == <<part, registryVars, directoryVars, executorVars, accessVars,
              upgradeVars, runnerVars, connectorVars, backlogVars>>

\* Runner a1 is bound to the group in config.runners.
BoundToOne == [a \in Provisioned |-> {g1}]

\* The agent lives at s1; s2 may send to it under the only rule an operator makes.
ServedBy == [s \in Sites |-> IF s = s1 THEN {x1} ELSE {}]
OneCapability == [x \in Subjects |-> {"code"}]
OneRow == {[origin |-> s2, target |-> "*", capability |-> "*", effect |-> "allow"]}

\* The Site whose agent is sent to is rotated to another token, and back, at will.
RotatedTo == [s \in Sites |-> IF s = s1 THEN {0, 1} ELSE {}]

\* wA has an entry in config.pets; the names of wB and wC make one pet id.
SignsInAs == [a \in Accounts |-> IF a = wA THEN petA ELSE petB]
Named == [p \in ConfiguredPets |-> wA]
Changes == [a \in Accounts |-> IF a = wB THEN 1 ELSE 0]

\* Two teams share a server.
ConfiguredOrder == <<t1, t2, t3>>
OnServer == [t \in Teams |-> IF t = t3 THEN s2 ELSE s1]

\* Bound: one account signs in at a time, two WorkPanel sessions are cached.
OneSignsIn == Cardinality(logging) <= 1 /\ Cardinality(cache) <= 2

PartsInit ==
    /\ part \in {"registry", "directory", "executor", "access", "upgrade",
                "workpanel", "connector", "backlog"}
    /\ RegistryInit /\ DirectoryInit /\ ExecutorInit
    /\ AccessInit /\ UpgradeInit /\ RunnerInit /\ ConnectorInit /\ BacklogInit
    /\ part # "registry" => ~required
    /\ part # "upgrade" => recorded = 1..Last
    /\ part # "connector" => command[k1].does = "refresh"

PartsNext ==
    /\ UNCHANGED part
    /\ \/ /\ part = "registry" /\ RegistryNext
          /\ UNCHANGED <<directoryVars, executorVars, accessVars,
                         upgradeVars, runnerVars, connectorVars, backlogVars>>
       \/ /\ part = "directory" /\ DirectoryNext
          /\ UNCHANGED <<registryVars, executorVars, accessVars,
                         upgradeVars, runnerVars, connectorVars, backlogVars>>
       \/ /\ part = "executor" /\ ExecutorNext
          /\ UNCHANGED <<registryVars, directoryVars, accessVars,
                         upgradeVars, runnerVars, connectorVars, backlogVars>>
       \/ /\ part = "access" /\ AccessNext
          /\ UNCHANGED <<registryVars, directoryVars, executorVars,
                         upgradeVars, runnerVars, connectorVars, backlogVars>>
       \/ /\ part = "upgrade" /\ UpgradeNext
          /\ UNCHANGED <<registryVars, directoryVars, executorVars,
                         accessVars, runnerVars, connectorVars, backlogVars>>
       \/ /\ part = "workpanel" /\ RunnerNext
          /\ UNCHANGED <<registryVars, directoryVars, executorVars,
                         accessVars, upgradeVars, connectorVars, backlogVars>>
       \/ /\ part = "connector" /\ ConnectorNext
          /\ UNCHANGED <<registryVars, directoryVars, executorVars,
                         accessVars, upgradeVars, runnerVars, backlogVars>>
       \/ /\ part = "backlog" /\ BacklogNext
          /\ UNCHANGED <<registryVars, directoryVars, executorVars,
                         accessVars, upgradeVars, runnerVars, connectorVars>>

PartsSpec == PartsInit /\ [][PartsNext]_partVars
=============================================================================
