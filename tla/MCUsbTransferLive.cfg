SPECIFICATION FairSpec
CONSTANTS
  Xfer = {x1, x2}
  Client = {c1}
  None = None
  Bof = {}
  Timed = {}
  Interval = {}
  DmaDelay = TRUE
  SMP = FALSE
  Does = {"stop", "drain", "unsetup"}
PROPERTIES
  
  DoneIsServed
\* A driver that does nothing stands still.
CHECK_DEADLOCK FALSE
