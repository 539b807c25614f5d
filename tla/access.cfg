SPECIFICATION Spec
CONSTANTS
  Requests = {r1, r2, r3}
  MaxLoads = 2
  None = None
SYMMETRY Symmetry
INVARIANTS RemovalHolds AskedIsShown
