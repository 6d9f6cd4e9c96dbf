SPECIFICATION FairSpec
CONSTANTS
  Pair = {p1}
  Caller = {c1}
  Timer = {t1}
  MaxSignals = 0
  Worker = Worker
  Owner = Owner
  NoThread = NoThread
  NoMsg = NoMsg
  SignBit = 3
INVARIANTS
  NoLostWakeup
PROPERTIES
  MwaitMeansDone
  MwaitReturns
  EverySignalServed
  DrainWaitsForCommand
\* The teardown can block for good (run usb_process_drain): reported there.
CHECK_DEADLOCK FALSE
