SPECIFICATION FairSpec
CONSTANTS
    Hosts = {1, 2, 3}
    Writers = {2}
    Nil = Nil
    ChanCap = 16
    CacheCap = 2
    MaxGen = 1
    MaxWrites = 1
    MaxRestarts = 0
    MaxDrops = 0
    MaxTimeouts = 0
INVARIANTS NeverTornDown
PROPERTY EventuallyDelivered
CHECK_DEADLOCK FALSE
