SPECIFICATION Spec
CONSTANTS
  Plain = {p1}
  Delayed = {}
  User = {u1}
  None = None
  SMP = FALSE
  TimerFails = FALSE
  ZeroDelay = FALSE
  MayRequeue = FALSE
  MayFlush = FALSE
  MayCancel = FALSE
  MayDestroy = TRUE
  MaxCount = 3
INVARIANTS
  DestroyDrains
\* A queue that nobody uses, or that was destroyed, stands still.
CHECK_DEADLOCK FALSE
