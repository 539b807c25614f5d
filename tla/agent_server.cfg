SPECIFICATION FairSpec
CONSTANTS
    None = None
    Clients = {a, b, c}
    Configs <- ThreePresets
    Default <- CommandLine
INVARIANTS CountIsExact CaptureFollowsClients ConfigIsWhole
PROPERTY CaptureStops
