SPECIFICATION FairSpec
CONSTANTS
    Clients = {a}
    QueueCap = 1
    RingCap = 2
    PipeCap = 1
    MaxGen = 2
PROPERTY PictureComes
CHECK_DEADLOCK FALSE
