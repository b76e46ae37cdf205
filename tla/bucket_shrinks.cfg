SPECIFICATION Spec
CONSTANTS
    Callers = {c1, c2}
    Requests <- MCRequestsOneBudget
    Settings <- MCShrink
    Initial <- MCInitialSmall
    Window = 3
    Padding = 1
    MinSleep = 1
    MaxLag = 0
    MaxLate = 1
    MaxCalls = 2
    MaxReconfigs = 1
    IdleUntil = 2
PROPERTIES NoHopelessWait
