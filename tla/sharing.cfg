SPECIFICATION FairSpec
CONSTANTS
  Attempts = {1, 2}
  Calls = {1, 2}
  MaxQueue = 2
  None = None
  Foreign = Foreign
INVARIANTS AttemptIsHeld ListIsTrue NegotiationCompletes
PROPERTY AttemptsEnd
CHECK_DEADLOCK FALSE
