SPECIFICATION Spec
CONSTANTS
    Hosts = {1, 2}
    Writers = {2}
    Nil = Nil
    ChanCap = 16
    CacheCap = 2
    MaxGen = 2
    MaxWrites = 2
    MaxRestarts = 1
    MaxDrops = 0
    MaxTimeouts = 0
INVARIANT CompletionWakesReadLoop
CHECK_DEADLOCK FALSE
