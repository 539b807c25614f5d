SPECIFICATION FairSpec
CONSTANTS
  MaxAttempts = 6
  MaxQueue = 2
  MaxFrames = 3
  Agents = {a, b}
  MaxEntries = 2
  MaxVisits = 3
  None = None
INVARIANTS OneThingPending PauseAgrees FragmentsAreKept HistoryIsRecent
PROPERTIES ConnectingEnds RequestIsSettled
