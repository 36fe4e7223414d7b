\* One dispatch, local or remote, of a Site or of the Host; two requests at once, two run events.
SPECIFICATION FairSpec
CONSTANTS
    d1 = d1  r1 = r1  r2 = r2  e1 = e1  e2 = e2
    Dispatches = {d1}
    Requests = {r1, r2}
    Events = {e1, e2}
INVARIANTS
    UnderWayIsStored
    CompletedIsCompleted
    ResultIsTheTasks
PROPERTIES
    SettledStays
    CompletionIsTold
CHECK_DEADLOCK FALSE
