\* One dispatch, local or remote, of a Site or of the Host; two requests at once, two run events.
SPECIFICATION Spec
CONSTANTS
    d1 = d1  r1 = r1  r2 = r2  e1 = e1  e2 = e2
    Dispatches = {d1}
    Requests = {r1, r2}
    Events = {e1, e2}
PROPERTY
    FirstTerminalWins
CHECK_DEADLOCK FALSE
