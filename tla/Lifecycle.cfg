CONSTANTS
    Sockets = {s1, s2}
    Writers = {w1}
    None = None
    ChanCap = 1
    MaxFrames = 2
SPECIFICATION Spec
INVARIANTS
    TypeOK
    NoMissedSignal
    ReportedOnce
    ReportsCurrent
    PanicOnlyAfterShutDown
PROPERTIES
    FollowsDial
    
    WriteReturns
CHECK_DEADLOCK FALSE
