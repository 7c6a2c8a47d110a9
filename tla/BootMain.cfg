CONSTANTS
    WINDOW_MS = 5
    WAIT_MS = 3
    MaxStart = 2
    MaxLoop = 4
SPECIFICATION Spec
INVARIANTS
    PowerHeldThroughWindow
    PowerReleasedInTime
    LinkIsClocked
PROPERTIES
    HandoverIsQuiet
    UpdateRequestHonoured
