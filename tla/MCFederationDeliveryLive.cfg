\* Fairness; one flush at a time.
SPECIFICATION FairSpec
CONSTANTS
    m1 = m1  f1 = f1  f2 = f2
    Messages = {m1}
    Flushes = {f1}
    OutboxMaxAttempts = 2
    MaxAttempts = 2
    InboxMaxAttempts = 2
    MaxLosses = 0
PROPERTIES
    OutboxSettles
    InboxSettles
