CONSTANTS
  Fd = {f1}
  Socks = 2
  Reqs = 3
  Writes = {3}
  Accepts = {2}
  QSize = 1
  MaxUnits = 2
  MaxErrors = 1
  None = None
SPECIFICATION Spec
CHECK_DEADLOCK FALSE
INVARIANTS RequestsKept
PROPERTIES Served StopReturns
