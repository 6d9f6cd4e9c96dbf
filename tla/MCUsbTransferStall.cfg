SPECIFICATION Spec
CONSTANTS
  Xfer = {x1, x2}
  Client = {c1}
  None = None
  Bof = {x1}
  Timed = {x1}
  Interval = {}
  DmaDelay = TRUE
  SMP = FALSE
  Does = {"stop", "drain", "stall", "refuse", "no timer"}
INVARIANTS
  EndpointNotForgotten

  
\* A driver that does nothing stands still.
CHECK_DEADLOCK FALSE
