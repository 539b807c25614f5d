SPECIFICATION Spec
CONSTANTS
    Clients = {a}
    QueueCap = 2
    RingCap = 2
    PipeCap = 1
    MaxGen = 2
INVARIANTS ReinitParts StreamIsDecodable
CHECK_DEADLOCK FALSE
