SPECIFICATION Spec
CONSTANTS
    Hosts = {1, 2}
    Writers = {1, 2}
    Nil = Nil
    ChanCap = 16
    CacheCap = 1
    MaxGen = 2
    MaxWrites = 1
    MaxRestarts = 1
    MaxDrops = 0
    MaxTimeouts = 0
INVARIANTS NoPlaintextData AgreedKeys ClosedSessionLeavesMap
CHECK_DEADLOCK FALSE
