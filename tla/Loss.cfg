SPECIFICATION Spec
CONSTANTS
    Hosts = {1, 2}
    Writers = {1, 2}
    Nil = Nil
    ChanCap = 1
    CacheCap = 1
    MaxGen = 2
    MaxWrites = 1
    MaxRestarts = 0
    MaxDrops = 1
    MaxTimeouts = 1
INVARIANTS AgreedKeys ClosedSessionLeavesMap
CHECK_DEADLOCK FALSE
