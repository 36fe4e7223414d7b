SPECIFICATION StartsAtA
CONSTANTS
    envA = envA
    envB = envB
    roomA = roomA
    roomB = roomB
    f1 = f1
    f2 = f2
    Envs = {envA, envB}
    Groups = {roomA, roomB}
    GroupsOf <- RoomsOf
    Flows = {f1, f2}
INVARIANTS
    OneGroupOnScreen
    PollsWhileOpen
CONSTRAINT OneThingMore
SYMMETRY Chains
CHECK_DEADLOCK FALSE
