SPECIFICATION Spec
CONSTANTS
    Hosts = {1, 2}
    Writers = {2}
    Nil = Nil
    ChanCap = 16
    CacheCap = 2
    MaxGen = 2
    MaxWrites = 3
    MaxRestarts = 1
    MaxDrops = 0
    MaxTimeouts = 1
INVARIANTS
    
    NoStrandedMessage
CHECK_DEADLOCK FALSE
 
