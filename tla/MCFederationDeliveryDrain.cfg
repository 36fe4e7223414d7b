\* The inbox backlog under the same fairness.
SPECIFICATION FairSpec
CONSTANTS
    m1 = m1  f1 = f1  f2 = f2
    Messages = {m1}
    Flushes = {f1}
    OutboxMaxAttempts = 2
    MaxAttempts = 1
    InboxMaxAttempts = 1
    MaxLosses = 0
PROPERTIES
    InboxDrains
