SPECIFICATION FairSpec
CONSTANTS
  Plain = {p1}
  Delayed = {d1}
  User = {u1}
  None = None
  SMP = FALSE
  TimerFails = FALSE
  ZeroDelay = FALSE
  MayRequeue = FALSE
  MayFlush = TRUE
  MayCancel = TRUE
  MayDestroy = TRUE
  MaxCount = 3
PROPERTIES
  QueuedIsExecuted
  
  DestroyReturns
\* A queue that nobody uses, or that was destroyed, stands still.
CHECK_DEADLOCK FALSE
