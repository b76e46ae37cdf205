SPECIFICATION FairSpec
CONSTANTS
    Callers = {c1, c2}
    Requests <- MCRequests
    Settings <- MCSettings
    Initial <- MCInitial
    Window = 3
    Padding = 1
    MinSleep = 1
    MaxLag = 1
    MaxLate = 1
    MaxCalls = 2
    MaxReconfigs = 1
    IdleUntil = 2
INVARIANTS TypeOK Conservation WindowBound WaitSuffices NoOversleep TotalsAreSums
PROPERTIES Implements Served
