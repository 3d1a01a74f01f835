SPECIFICATION FairSpec
CONSTANTS
    Hosts = {1, 2}
    Writers = {1, 2}
    Nil = Nil
    ChanCap = 16
    CacheCap = 2
    MaxGen = 1
    MaxWrites = 2
    MaxRestarts = 0
    MaxDrops = 0
    MaxTimeouts = 0
INVARIANTS TypeOK NeverTornDown
PROPERTY EventuallyDelivered
CHECK_DEADLOCK FALSE
