SPECIFICATION FairSpec
CONSTANTS
    None = None
    Conns = {c1, c2, c3}
INVARIANTS
    OneLiveConnection StatusAgrees SubscribersAgree TimersAreCancelled NeverGivesUp
PROPERTIES
    DisconnectIsObeyed RetriesAfterLoss
CHECK_DEADLOCK FALSE
