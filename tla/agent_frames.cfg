SPECIFICATION FramesSpec
CONSTANTS
    None = None
    Conns = {c1}
    MaxFrames = 3
INVARIANTS
    RowsAreNumbered
CHECK_DEADLOCK FALSE
