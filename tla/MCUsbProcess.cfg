SPECIFICATION Spec
CONSTANTS
  Pair = {p1, p2}
  Caller = {c1}
  Timer = {}
  MaxSignals = 0
  Worker = Worker
  Owner = Owner
  NoThread = NoThread
  NoMsg = NoMsg
  SignBit = 5
SYMMETRY Symmetry
INVARIANTS
  TypeOK
  RequeuesTheLast
  NoMessageLost
  FreedMeansStopped
\* The teardown can block for good (run usb_process_drain): reported there.
CHECK_DEADLOCK FALSE
