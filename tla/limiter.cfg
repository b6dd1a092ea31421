\* The three kinds of limiter: what the window promises on the event loop, and
\* how far overlapping worker threads may exceed it.
SPECIFICATION LimiterSpec
CONSTANTS
    k1 = k1
    k2 = k2
    p1 = p1
    p2 = p2
    Keys <- MCKeys
    Callers <- MCCallers
    MaxEvents = 2
    Window = 3
    Second = 2
    CleanupAt = 2
    MaxTime = 3
    MaxQueue = 4
SYMMETRY LimiterSymmetry
INVARIANTS
    LimiterTypeOK
    ExceededByOverlapOnly
PROPERTIES
    ImplementsWindow
CHECK_DEADLOCK FALSE
