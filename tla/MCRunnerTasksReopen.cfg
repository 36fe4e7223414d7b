\* A v1 Runner reports on a task that is already terminal.
SPECIFICATION Spec
CONSTANTS
    r1 = r1  r2 = r2  t1 = t1  t2 = t2  x = x  y = y
    Tasks = {t1, t2}
    Runners = {r1, r2}
    RunnerOf <- FirstForR1
    ChatTasks = {}
    MaxAttempts = 1
    LeaseSec = 1
    MaxConcurrency <- SingleSlot
    ResultIds = {x}
    V1Runners = {r2}
PROPERTIES
    TerminalTaskIsNotReopened
CHECK_DEADLOCK FALSE
