SPECIFICATION FairSpec
CONSTANTS
  Pair = {p1}
  Caller = {c1}
  Timer = {}
  MaxSignals = 1
  Worker = Worker
  Owner = Owner
  NoThread = NoThread
  NoMsg = NoMsg
  SignBit = 5
PROPERTIES
  DrainReturns
\* The teardown can block for good (run usb_process_drain): reported there.
CHECK_DEADLOCK FALSE
