---------------------------- MODULE MCWorkPetConsole ----------------------------
(* The console for TLC: two servers, and two chains of requests at once.         *)
EXTENDS WorkPetConsole, TLC

CONSTANTS envA, envB, roomA, roomB, f1, f2

\* One server has two groups, the other none.
RoomsOf == [e \in Envs |-> IF e = envA THEN {roomA, roomB} ELSE {}]

InitAtA == ConsoleInit /\ env = envA
StartsAtA == InitAtA /\ [][ConsoleNext]_consoleVars

\* Bound: a chat, or the note of an earlier group's, is alone with one chain.
OneThingMore == sending # NoGroup \/ strayNote => \E f \in Flows : flow[f] = Idle

\* The chains are interchangeable.
Chains == Permutations(Flows)
=================================================================================
