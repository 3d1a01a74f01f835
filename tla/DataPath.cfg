CONSTANTS
    Writers = {w1, w2}
    ReadLoop = ReadLoop
    Nil = Nil
    ChanCap = 1
    CacheCap = 2
    MaxWrites = 3
    MaxGen = 2
    MaxFaults = 2
SPECIFICATION Spec
INVARIANTS
    TypeOK
    ReadLoopInOrder
    OpenedInSealOrder
PROPERTIES
    ImplementsAtMostOnce
    BufferedIsEmitted
CHECK_DEADLOCK FALSE
