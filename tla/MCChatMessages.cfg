SPECIFICATION FairChatSpec
CONSTANTS
    m1 = m1
    Messages = {m1}
    MaxAttempts = 3
    MaxRestarts = 2
INVARIANTS
    BoundedHandovers
PROPERTIES
    ImplementsHandover
    WorkEnds
CHECK_DEADLOCK FALSE
