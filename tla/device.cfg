SPECIFICATION DeviceSpec
CONSTANTS
  p1 = p1  p2 = p2  s1 = s1  s2 = s2
  Passwords = {empty, p1, p2}
  Empty = empty
  Streams = {s1, s2}
  None = None
SYMMETRY Symmetry
INVARIANTS CaptureIsHeld 
