SPECIFICATION Spec
CONSTANTS
  c1 = c1
  c2 = c2
  None = None
  Callers <- MCCallers
  WriteCap = 1
  EventsCap = 1
  MaxFrames = 2
CHECK_DEADLOCK FALSE
INVARIANT NoPanic
