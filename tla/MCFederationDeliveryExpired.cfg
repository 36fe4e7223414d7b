\* A message swept out as expired.
SPECIFICATION Spec
CONSTANTS
    m1 = m1  f1 = f1  f2 = f2
    Messages = {m1}
    Flushes = {f1}
    OutboxMaxAttempts = 1
    MaxAttempts = 1
    InboxMaxAttempts = 1
    MaxLosses = 0
PROPERTIES
    ExpiredIsNotExecuted
