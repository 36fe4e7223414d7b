\* One message, two flushes at once, two leases, two tries at either end, one loss of the Host database.
SPECIFICATION Spec
CONSTANTS
    m1 = m1  f1 = f1  f2 = f2
    Messages = {m1}
    Flushes = {f1, f2}
    OutboxMaxAttempts = 2
    MaxAttempts = 2
    InboxMaxAttempts = 2
    MaxLosses = 1
SYMMETRY FlushSymmetry
INVARIANTS
    VerdictIsTheTargets
    FinalRowsAgree
    OneReceipt
PROPERTIES
    HostVerdictStands
    ImplementsCarriage
