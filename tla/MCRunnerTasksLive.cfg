\* Fair polling and time: silent Runners lose their tasks, queued tasks are served,
\* and all that happens is what fenced jobs allow.
SPECIFICATION FairSpec
CONSTANTS
    r1 = r1  r2 = r2  t1 = t1  t2 = t2  x = x  y = y
    Tasks = {t1, t2}
    Runners = {r1}
    RunnerOf <- OneRunner
    ChatTasks = {t1}
    MaxAttempts = 2
    LeaseSec = 1
    MaxConcurrency <- SingleSlot
    ResultIds = {x}
    V1Runners = {}
PROPERTIES
    ImplementsFencedJobs
    SilentRunnerLosesTask
    QueuedTaskIsServed
CHECK_DEADLOCK FALSE
