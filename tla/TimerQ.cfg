CONSTANTS
  j1 = j1  j2 = j2
  t1 = t1  t2 = t2  t3 = t3
  Job = {j1, j2}
  Timer = {t1, t2, t3}
  None = None
SPECIFICATION FairSpec
INVARIANTS EveryTimerHeld OneLateTick
PROPERTIES ClosedTimersFreed StopReturns EveryTimerVisited
