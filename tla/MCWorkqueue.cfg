SPECIFICATION Spec
CONSTANTS
  Plain = {p1, p2}
  Delayed = {d1}
  User = {u1, u2}
  None = None
  SMP = FALSE
  TimerFails = FALSE
  ZeroDelay = FALSE
  MayRequeue = TRUE
  MayFlush = TRUE
  MayCancel = TRUE
  MayDestroy = TRUE
  MaxCount = 3
SYMMETRY Symmetry
INVARIANTS
  TypeOK
  NoWorkLost
  NoLostWakeup
  BusyIsShown
  
  
\* A queue that nobody uses, or that was destroyed, stands still.
CHECK_DEADLOCK FALSE
