\* One v2 Runner with one slot, two tasks, two claims each, leases of two ticks.
SPECIFICATION Spec
CONSTANTS
    r1 = r1  r2 = r2  t1 = t1  t2 = t2  x = x  y = y
    Tasks = {t1, t2}
    Runners = {r1}
    RunnerOf <- OneRunner
    ChatTasks = {t1, t2}
    MaxAttempts = 2
    LeaseSec = 2
    MaxConcurrency <- SingleSlot
    ResultIds = {x, y}
    V1Runners = {}
SYMMETRY TaskSymmetry
INVARIANTS
    LeaseMatchesStatus
    ConcurrencyBounded
    OneOutcomePerClaim
    CompletionIsAnswered
    CompletedIsTheLastWord
PROPERTIES
    ExpiredLeaseIsNeverRevived
    TerminalLeavesByRequeueOnly
CHECK_DEADLOCK FALSE
