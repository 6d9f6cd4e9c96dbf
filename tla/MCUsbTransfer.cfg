SPECIFICATION Spec
CONSTANTS
  Xfer = {x1, x2}
  Client = {c1}
  None = None
  Bof = {x1}
  Timed = {x1}
  Interval = {x2}
  DmaDelay = TRUE
  SMP = FALSE
  Does = {"restart", "stop", "drain", "sleep", "unsetup", "detach"}
INVARIANTS
  TypeOK
  EndpointExclusive
  EndpointNotForgotten
  
  FreedIsUnused
PROPERTIES
  StopIsReported
  
\* A driver that does nothing stands still.
CHECK_DEADLOCK FALSE
