SPECIFICATION Spec
CONSTANTS
  Xfer = {x2}
  Client = {c1}
  None = None
  Bof = {}
  Timed = {}
  Interval = {x2}
  DmaDelay = FALSE
  SMP = FALSE
  Does = {"restart", "stop", "stall"}
PROPERTIES
  StalledIsHeld
\* A driver that does nothing stands still.
CHECK_DEADLOCK FALSE
